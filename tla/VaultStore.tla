----------------------------- MODULE VaultStore -----------------------------
(***************************************************************************)
(* The tables of one vault and the statements of PasswordDao and            *)
(* CategoryDao (src/storage) on them, each of them a transaction. A store   *)
(* is a record of the rows, the deletion markers and the categories; the    *)
(* backup in the cloud is one too. Entries and categories stand for their   *)
(* uuids; 0 is the stamp of what is not there.                              *)
(***************************************************************************)
EXTENDS Naturals, FiniteSets

CONSTANTS
  Entry,      \* uuids of password entries
  Category,   \* uuids of categories
  Name,       \* names of categories
  Text,       \* what a user may type into the fields of an entry
  MaxStamp    \* the largest updatedAt

Uncategorized == "uncategorized"   \* category id 0

Row == [text : Text, cat : Category \cup {Uncategorized}, fav : BOOLEAN, del : BOOLEAN, stamp : 1..MaxStamp]
Cat == [name : Name, order : Nat, created : 1..MaxStamp, del : BOOLEAN, stamp : 1..MaxStamp]
None == [stamp |-> 0]

Store ==
  [rows : [Entry -> Row \cup {None}], marks : [Entry -> 0..MaxStamp], cats : [Category -> Cat \cup {None}]]

Later(a, b) == IF a > b THEN a ELSE b

\* max(updated_at + 1, now): a local edit wins over the version it replaces.
NextStamp(x, now) == Later(x.stamp + 1, now)

Live(s) == {e \in Entry : s.rows[e] # None /\ ~s.rows[e].del}
Trash(s) == {e \in Entry : s.rows[e] # None /\ s.rows[e].del}
LiveCats(s) == {c \in Category : s.cats[c] # None /\ ~s.cats[c].del}

\* ListActive, ListByCategory and the filters of RefreshPasswordList.
InSection(s, section) ==
  CASE section = "all" -> Live(s)
    [] section = "favorites" -> {e \in Live(s) : s.rows[e].fav}
    [] section = "trash" -> Trash(s)
    [] OTHER -> {e \in Live(s) : s.rows[e].cat = section}

\* UPDATE password_entries SET ... for some rows: their new values.
Updated(s, new) == [s EXCEPT !.rows = [e \in Entry |-> IF e \in DOMAIN new THEN new[e] ELSE @[e]]]

Insert(s, e, row) == [s EXCEPT !.rows[e] = row]
Update(s, e, row) == IF s.rows[e] = None THEN s ELSE [s EXCEPT !.rows[e] = row]
UpdateCategoryOf(s, E, c, now) ==
  Updated(s, [e \in E |-> [s.rows[e] EXCEPT !.cat = c, !.stamp = NextStamp(s.rows[e], now)]])

SetFavorite(s, e, fav, now) ==
  IF s.rows[e].fav = fav THEN s
  ELSE [s EXCEPT !.rows[e].fav = fav, !.rows[e].stamp = NextStamp(s.rows[e], now)]

InTrash(s, E, now) == [e \in E |-> [s.rows[e] EXCEPT !.del = TRUE, !.stamp = now]]
BulkLogicalDelete(s, E, now) == Updated(s, InTrash(s, E \cap (Live(s) \cup Trash(s)), now))
LogicalDeleteByCategory(s, c, now) == Updated(s, InTrash(s, InSection(s, c), now))

BulkRestore(s, E, now) ==
  Updated(s, [e \in E \cap Trash(s) |->
                [s.rows[e] EXCEPT !.del = FALSE, !.stamp = now,
                                  !.cat = IF @ \in LiveCats(s) THEN @ ELSE Uncategorized]])

MutantBulkPermanentlyDelete(s, E, now) ==
  [s EXCEPT !.rows = [e \in Entry |-> IF e \in E THEN None ELSE @[e]],
            !.marks = [e \in Entry |-> IF e \in E /\ s.rows[e] # None
                                       THEN Later(@[e], Later(s.rows[e].stamp, now)) ELSE @[e]]]

\* Only rows that are in the trash still; marker and removal are one transaction.
BulkPermanentlyDelete(s, E, now) ==
  LET gone == E \cap Trash(s)
  IN  [s EXCEPT !.rows = [e \in Entry |-> IF e \in gone THEN None ELSE @[e]],
                !.marks = [e \in Entry |-> IF e \in gone THEN Later(@[e], Later(s.rows[e].stamp, now))
                                           ELSE @[e]]]

ApplyDeletionMarker(s, e, stamp) ==
  [s EXCEPT !.rows[e] = None, !.marks[e] = Later(@, stamp)]

\* The network's event loop may have changed the row or the marker since the
\* merge: what is newer by now stays.
ApplySyncedEntry(s, e, r) ==
  IF s.marks[e] >= r.stamp \/ s.rows[e].stamp >= r.stamp THEN s
  ELSE [s EXCEPT !.rows[e] = r, !.marks[e] = 0]

InsertCategory(s, c, cat) == [s EXCEPT !.cats[c] = cat]
UpdateCategory(s, c, cat) == IF s.cats[c] = None THEN s ELSE [s EXCEPT !.cats[c] = cat]
UpdateSortOrder(s, C, order, stamp) ==
  [s EXCEPT !.cats = [c \in Category |-> IF c \in C THEN [@[c] EXCEPT !.order = order[c], !.stamp = stamp[c]]
                                         ELSE @[c]]]
LogicalDelete(s, c, stamp) == [s EXCEPT !.cats[c].del = TRUE, !.cats[c].stamp = stamp]
=============================================================================
