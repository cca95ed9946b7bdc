-------------------------- MODULE WorkspaceProofs ---------------------------
(***************************************************************************)
(* Proofs about Workspace, for any numbers of entries, categories, names,   *)
(* changes and attempts: its types, that the window and the open editor     *)
(* show what the tables hold, that nothing is removed for good but what a   *)
(* dialog or a marker says, that newer versions win, and that a run that    *)
(* reports success without an upload has left nothing out.                  *)
(*                                                                         *)
(* The first part is about the statements of VaultStore and the merge of    *)
(* VaultMerge, each from any store to the next (Keeps); the second about     *)
(* loading the window (Loads); the third goes through the actions.          *)
(***************************************************************************)
EXTENDS Workspace, FiniteSetTheorems, TLAPS

-----------------------------------------------------------------------------
(* The statements.                                                          *)

Stamps == 1..MaxStamp

\* From the tables s to t no category goes, and none that stays live gets
\* another name at an older stamp.
CatsKept(s, t) ==
  \A c \in Category : s.cats[c] # None =>
    /\ t.cats[c] # None
    /\ ~s.cats[c].del /\ ~t.cats[c].del /\ t.cats[c].name # s.cats[c].name => t.cats[c].stamp >= s.cats[c].stamp

\* ... and no row goes, nor changes but for a newer version.
RowsKept(s, t) ==
  \A e \in Entry : s.rows[e] # None =>
    /\ t.rows[e] # None
    /\ <<t.rows[e].text, t.rows[e].fav>> # <<s.rows[e].text, s.rows[e].fav>> => t.rows[e].stamp > s.rows[e].stamp

Keeps(s, t) == t \in Store /\ CatsKept(s, t) /\ RowsKept(s, t)

LEMMA StoreParts ==
  ASSUME NEW s \in Store
  PROVE  /\ \A e \in Entry : s.rows[e] \in Row \cup {None} /\ s.marks[e] \in 0..MaxStamp
         /\ \A e \in Entry : s.rows[e].stamp \in 0..MaxStamp /\ (s.rows[e] # None <=> s.rows[e].stamp # 0)
         /\ \A c \in Category : s.cats[c] \in Cat \cup {None}
         /\ \A c \in Category : s.cats[c].stamp \in 0..MaxStamp /\ (s.cats[c] # None <=> s.cats[c].stamp # 0)
BY BoundsAssumption DEF Store, Row, Cat, None

\* Rows and categories of their types put in place of a store's.
LEMMA RowsAndCats ==
  ASSUME NEW s \in Store, NEW R \in [Entry -> Row \cup {None}], NEW C \in [Category -> Cat \cup {None}]
  PROVE  LET t == [s EXCEPT !.rows = R, !.cats = C]
         IN  t \in Store /\ t.rows = R /\ t.marks = s.marks /\ t.cats = C
BY DEF Store

LEMMA JustCats ==
  ASSUME NEW s \in Store, NEW C \in [Category -> Cat \cup {None}]
  PROVE  LET t == [s EXCEPT !.cats = C]
         IN  t \in Store /\ t.rows = s.rows /\ t.marks = s.marks /\ t.cats = C
BY DEF Store

LEMMA NextStampType ==
  ASSUME NEW x, x.stamp \in 0..MaxStamp, x.stamp < MaxStamp, NEW n \in Stamps
  PROVE  NextStamp(x, n) \in Stamps /\ NextStamp(x, n) > x.stamp
BY BoundsAssumption DEF NextStamp, Later, Stamps

LEMMA SectionRows ==
  ASSUME NEW s \in Store, NEW section, NEW e \in InSection(s, section)
  PROVE  e \in Entry /\ s.rows[e] \in Row /\ s.rows[e].del = (section = "trash")
BY StoreParts DEF InSection, Live, Trash, Row

LEMMA UpdatedKeeps ==
  ASSUME NEW s \in Store, NEW new,
         \A e \in DOMAIN new : e \in Entry => new[e] \in Row,
         \A e \in DOMAIN new :
            e \in Entry /\ s.rows[e] # None /\ <<new[e].text, new[e].fav>> # <<s.rows[e].text, s.rows[e].fav>> =>
              new[e].stamp > s.rows[e].stamp
  PROVE  Keeps(s, Updated(s, new)) /\ Updated(s, new).cats = s.cats
<1>1. /\ Updated(s, new) \in Store
      /\ Updated(s, new).cats = s.cats
      /\ \A e \in Entry : Updated(s, new).rows[e] = IF e \in DOMAIN new THEN new[e] ELSE s.rows[e]
  BY DEF Updated, Store
<1>2. \A e \in Entry : e \in DOMAIN new => new[e] # None
  BY BoundsAssumption DEF Row, None
<1> QED
  BY <1>1, <1>2, StoreParts DEF Keeps, CatsKept, RowsKept

LEMMA InsertKeeps ==
  ASSUME NEW s \in Store, NEW e \in Entry, NEW row \in Row, s.rows[e] = None
  PROVE  Keeps(s, Insert(s, e, row))
BY StoreParts DEF Insert, Store, Keeps, CatsKept, RowsKept

LEMMA UpdateKeeps ==
  ASSUME NEW s \in Store, NEW e \in Entry, NEW row \in Row, row.stamp > s.rows[e].stamp
  PROVE  Keeps(s, Update(s, e, row))
BY StoreParts DEF Update, Store, Keeps, CatsKept, RowsKept, Row, None

LEMMA UpdateCategoryOfKeeps ==
  ASSUME NEW s \in Store, NEW E \in SUBSET Live(s), NEW c \in Category \cup {Uncategorized}, NEW n \in Stamps,
         \A e \in E : s.rows[e].stamp < MaxStamp
  PROVE  Keeps(s, UpdateCategoryOf(s, E, c, n))
<1> DEFINE new == [e \in E |-> [s.rows[e] EXCEPT !.cat = c, !.stamp = NextStamp(s.rows[e], n)]]
<1>1. \A e \in E : e \in Entry /\ s.rows[e] \in Row
  BY StoreParts DEF Live
<1>2. \A e \in E : NextStamp(s.rows[e], n) \in Stamps
  BY <1>1, StoreParts, NextStampType
<1>3. \A e \in E : new[e] \in Row /\ new[e].text = s.rows[e].text /\ new[e].fav = s.rows[e].fav
  BY <1>1, <1>2 DEF Row, Stamps
<1> QED
  BY <1>3, UpdatedKeeps DEF UpdateCategoryOf

LEMMA SetFavoriteKeeps ==
  ASSUME NEW s \in Store, NEW e \in Entry, s.rows[e] # None, s.rows[e].stamp < MaxStamp,
         NEW fav \in BOOLEAN, NEW n \in Stamps
  PROVE  Keeps(s, SetFavorite(s, e, fav, n))
<1>1. s.rows[e] \in Row /\ NextStamp(s.rows[e], n) \in Stamps /\ NextStamp(s.rows[e], n) > s.rows[e].stamp
  BY StoreParts, NextStampType
<1>2. CASE s.rows[e].fav = fav
  BY <1>2, StoreParts DEF SetFavorite, Keeps, CatsKept, RowsKept
<1>3. CASE s.rows[e].fav # fav
  <2> DEFINE row == [s.rows[e] EXCEPT !.fav = fav, !.stamp = NextStamp(s.rows[e], n)]
  <2>1. row \in Row /\ row.stamp > s.rows[e].stamp
    BY <1>1 DEF Row, Stamps
  <2>2. SetFavorite(s, e, fav, n) = [s EXCEPT !.rows[e] = row]
    BY <1>1, <1>3 DEF SetFavorite, Store, Row
  <2> QED
    BY <2>1, <2>2, UpdateKeeps, <1>1 DEF Update
<1> QED
  BY <1>2, <1>3

LEMMA InTrashKeeps ==
  ASSUME NEW s \in Store, NEW E \in SUBSET (Live(s) \cup Trash(s)), NEW n \in Stamps
  PROVE  Keeps(s, Updated(s, InTrash(s, E, n))) /\ Updated(s, InTrash(s, E, n)).cats = s.cats
<1>1. \A e \in E : e \in Entry /\ s.rows[e] \in Row
  BY StoreParts DEF Live, Trash
<1>2. \A e \in E : LET row == InTrash(s, E, n)[e]
                   IN  row \in Row /\ row.text = s.rows[e].text /\ row.fav = s.rows[e].fav
  BY <1>1 DEF Row, Stamps, InTrash
<1>3. DOMAIN InTrash(s, E, n) = E
  BY DEF InTrash
<1> QED
  BY <1>2, <1>3, UpdatedKeeps

LEMMA BulkLogicalDeleteKeeps ==
  ASSUME NEW s \in Store, NEW E, NEW n \in Stamps
  PROVE  Keeps(s, BulkLogicalDelete(s, E, n))
BY InTrashKeeps DEF BulkLogicalDelete

LEMMA LogicalDeleteByCategoryKeeps ==
  ASSUME NEW s \in Store, NEW c, NEW n \in Stamps
  PROVE  Keeps(s, LogicalDeleteByCategory(s, c, n)) /\ LogicalDeleteByCategory(s, c, n).cats = s.cats
<1>1. InSection(s, c) \subseteq Live(s) \cup Trash(s)
  BY DEF InSection
<1> QED
  BY <1>1, InTrashKeeps DEF LogicalDeleteByCategory

LEMMA BulkRestoreKeeps ==
  ASSUME NEW s \in Store, NEW E, NEW n \in Stamps
  PROVE  Keeps(s, BulkRestore(s, E, n))
<1> DEFINE Ids == E \cap Trash(s)
           new == [e \in Ids |-> [s.rows[e] EXCEPT !.del = FALSE, !.stamp = n,
                                    !.cat = IF @ \in LiveCats(s) THEN @ ELSE Uncategorized]]
<1>1. \A e \in Ids : e \in Entry /\ s.rows[e] \in Row
  BY StoreParts DEF Trash
<1>2. \A e \in Ids : new[e] \in Row /\ new[e].text = s.rows[e].text /\ new[e].fav = s.rows[e].fav
  BY <1>1 DEF Row, Stamps, LiveCats
<1>3. BulkRestore(s, E, n) = Updated(s, new)
  BY DEF BulkRestore
<1> QED
  BY <1>2, <1>3, UpdatedKeeps

\* The one statement of the window's that removes rows.
LEMMA BulkPermanentlyDeleteRemoves ==
  ASSUME NEW s \in Store, NEW E, NEW n \in Stamps
  PROVE  LET t == BulkPermanentlyDelete(s, E, n) IN
         /\ t \in Store /\ t.cats = s.cats
         /\ \A e \in Entry : IF e \in E \cap Trash(s)
                             THEN t.rows[e] = None /\ t.marks[e] >= s.rows[e].stamp
                             ELSE t.rows[e] = s.rows[e]
<1> DEFINE gone == E \cap Trash(s)
           mark(e) == Later(s.marks[e], Later(s.rows[e].stamp, n))
           R == [e \in Entry |-> IF e \in gone THEN None ELSE s.rows[e]]
           M == [e \in Entry |-> IF e \in gone THEN mark(e) ELSE s.marks[e]]
<1>1. \A e \in Entry : mark(e) \in 0..MaxStamp /\ mark(e) >= s.rows[e].stamp
  BY StoreParts, BoundsAssumption DEF Later, Stamps
<1>2. R \in [Entry -> Row \cup {None}] /\ M \in [Entry -> 0..MaxStamp]
  BY <1>1, StoreParts
<1>3. s.cats \in [Category -> Cat \cup {None}]
  BY DEF Store
<1>4. BulkPermanentlyDelete(s, E, n) = [s EXCEPT !.rows = R, !.marks = M]
  BY DEF BulkPermanentlyDelete
<1> HIDE DEF R, M, mark
<1>5. LET t == [s EXCEPT !.rows = R, !.marks = M] IN
      t \in Store /\ t.cats = s.cats /\ t.rows = R /\ t.marks = M
  BY <1>2 DEF Store
<1> QED
  BY <1>1, <1>4, <1>5 DEF R, M

-----------------------------------------------------------------------------
(* The statements on categories.                                            *)

\* Categories that change while the rows stay.
LEMMA CatsChange ==
  ASSUME NEW s \in Store, NEW C \in [Category -> Cat \cup {None}],
         CatsKept(s, [s EXCEPT !.cats = C])
  PROVE  Keeps(s, [s EXCEPT !.cats = C])
BY JustCats, StoreParts DEF Keeps, RowsKept, Store

LEMMA InsertCategoryKeeps ==
  ASSUME NEW s \in Store, NEW c \in Category, NEW cat \in Cat, s.cats[c] = None
  PROVE  Keeps(s, InsertCategory(s, c, cat)) /\ InsertCategory(s, c, cat).rows = s.rows
BY StoreParts DEF InsertCategory, Store, Keeps, CatsKept, RowsKept

LEMMA UpdateCategoryKeeps ==
  ASSUME NEW s \in Store, NEW c \in Category, NEW cat \in Cat, cat.stamp > s.cats[c].stamp
  PROVE  Keeps(s, UpdateCategory(s, c, cat))
<1>1. cat # None /\ cat.stamp >= s.cats[c].stamp
  BY StoreParts, BoundsAssumption DEF Cat, None
<1>2. CASE s.cats[c] = None
  BY <1>2, StoreParts DEF UpdateCategory, Keeps, CatsKept, RowsKept
<1>3. CASE s.cats[c] # None
  BY <1>1, <1>3, StoreParts DEF UpdateCategory, Store, Keeps, CatsKept, RowsKept
<1> QED
  BY <1>2, <1>3

LEMMA UpdateSortOrderKeeps ==
  ASSUME NEW s \in Store, NEW C \in SUBSET Category, NEW order, NEW stamp,
         \A c \in C : s.cats[c] # None /\ order[c] \in Nat /\ stamp[c] \in Stamps
  PROVE  Keeps(s, UpdateSortOrder(s, C, order, stamp))
<1> DEFINE D == [c \in Category |-> IF c \in C THEN [s.cats[c] EXCEPT !.order = order[c], !.stamp = stamp[c]]
                                   ELSE s.cats[c]]
<1>1. \A c \in C : s.cats[c] \in Cat
  BY StoreParts
<1>2. \A c \in C : D[c] \in Cat /\ D[c].name = s.cats[c].name
  BY <1>1 DEF Cat, Stamps
<1>3. D \in [Category -> Cat \cup {None}]
  BY <1>2, StoreParts
<1>4. UpdateSortOrder(s, C, order, stamp) = [s EXCEPT !.cats = D]
  BY DEF UpdateSortOrder
<1>5. \A c \in C : D[c] # None
  BY <1>2, BoundsAssumption DEF Cat, None
<1> HIDE DEF D
<1>6. [s EXCEPT !.cats = D].cats = D
  BY <1>3, JustCats
<1>7. CatsKept(s, [s EXCEPT !.cats = D])
  <2> SUFFICES ASSUME NEW c \in Category, s.cats[c] # None
               PROVE  D[c] # None /\ (D[c].name # s.cats[c].name => D[c].stamp >= s.cats[c].stamp)
    BY <1>6 DEF CatsKept
  <2>1. CASE c \in C
    BY <2>1, <1>2, <1>5
  <2>2. CASE c \notin C
    BY <2>2, StoreParts DEF D
  <2> QED
    BY <2>1, <2>2
<1> QED
  BY <1>3, <1>4, <1>7, CatsChange

LEMMA LogicalDeleteKeeps ==
  ASSUME NEW s \in Store, NEW c \in Category, s.cats[c] # None, NEW stamp \in Stamps
  PROVE  Keeps(s, LogicalDelete(s, c, stamp)) /\ LogicalDelete(s, c, stamp).rows = s.rows
<1> DEFINE cat == [s.cats[c] EXCEPT !.del = TRUE, !.stamp = stamp]
           D == [s.cats EXCEPT ![c] = cat]
<1>1. s.cats[c] \in Cat /\ s.cats \in [Category -> Cat \cup {None}]
  BY StoreParts DEF Store
<1>2. cat \in Cat /\ cat.del
  BY <1>1 DEF Cat, Stamps
<1>3. LogicalDelete(s, c, stamp) = [s EXCEPT !.cats = D]
  BY <1>1 DEF LogicalDelete, Store, Cat
<1>4. cat # None
  BY <1>2, BoundsAssumption DEF Cat, None
<1> HIDE DEF cat
<1>5. D \in [Category -> Cat \cup {None}]
  BY <1>1, <1>2
<1>6. [s EXCEPT !.cats = D].cats = D /\ [s EXCEPT !.cats = D].rows = s.rows
  BY <1>5, JustCats
<1>7. CatsKept(s, [s EXCEPT !.cats = D])
  BY <1>1, <1>2, <1>4, <1>6, StoreParts DEF CatsKept
<1> QED
  BY <1>3, <1>5, <1>6, <1>7, CatsChange

-----------------------------------------------------------------------------
(* The merge.                                                               *)

Marker == [gone : {TRUE}, stamp : Stamps]

LEMMA ItemType ==
  ASSUME NEW s \in Store, NEW e \in Entry
  PROVE  /\ Item(s, e) \in Row \cup {None} \cup Marker
         /\ Item(s, e).stamp \in 0..MaxStamp
         /\ Item(s, e).stamp >= s.rows[e].stamp /\ Item(s, e).stamp >= s.marks[e]
         /\ Item(s, e) = None <=> Item(s, e).stamp = 0
<1>1. CASE s.marks[e] > 0 /\ s.marks[e] >= s.rows[e].stamp
  <2> DEFINE m == [gone |-> TRUE, stamp |-> s.marks[e]]
  <2>1. Item(s, e) = m
    BY <1>1 DEF Item
  <2>2. s.marks[e] \in Stamps /\ m.stamp = s.marks[e] /\ m \in Marker
    BY <1>1, StoreParts, BoundsAssumption DEF Marker, Stamps
  <2>3. m # None
    BY <2>2 DEF None, Stamps
  <2> QED
    BY <1>1, <2>1, <2>2, <2>3, StoreParts, BoundsAssumption DEF Stamps
<1>2. CASE ~(s.marks[e] > 0 /\ s.marks[e] >= s.rows[e].stamp)
  BY <1>2, StoreParts, BoundsAssumption DEF Item
<1> QED
  BY <1>1, <1>2

LEMMA MergedItem ==
  ASSUME NEW s \in Store, NEW u \in Store, NEW e \in Entry
  PROVE  LET item == Newer(Item(s, e), Item(u, e)) IN
         /\ item \in Row \cup {None} \cup Marker /\ item.stamp \in 0..MaxStamp
         /\ item.stamp >= Item(s, e).stamp /\ item.stamp >= Item(u, e).stamp
         /\ item = None <=> item.stamp = 0
BY ItemType DEF Newer

LEMMA WithCategoriesKeeps ==
  ASSUME NEW s \in Store, NEW snap \in Store, NEW u \in Store
  PROVE  LET t == WithCategories(s, snap, u)
         IN  Keeps(s, t) /\ t.rows = s.rows /\ t.marks = s.marks
<1> DEFINE item(c) == Newer(snap.cats[c], u.cats[c])
           D == [c \in Category |-> IF s.cats[c].stamp > item(c).stamp THEN s.cats[c] ELSE item(c)]
<1>1. \A c \in Category : item(c) \in Cat \cup {None} /\ item(c).stamp \in 0..MaxStamp
                          /\ (item(c) # None <=> item(c).stamp # 0)
  BY StoreParts DEF Newer
<1>2. D \in [Category -> Cat \cup {None}]
  BY <1>1, StoreParts
<1>3. WithCategories(s, snap, u) = [s EXCEPT !.cats = D]
  BY DEF WithCategories
<1>4. \A c \in Category : s.cats[c] # None =>
        D[c] # None /\ (D[c].name # s.cats[c].name => D[c].stamp >= s.cats[c].stamp)
  BY <1>1, StoreParts
<1> HIDE DEF D
<1>5. LET t == [s EXCEPT !.cats = D]
      IN  t \in Store /\ t.rows = s.rows /\ t.marks = s.marks /\ t.cats = D
  BY <1>2 DEF Store
<1>6. CatsKept(s, [s EXCEPT !.cats = D])
  BY <1>4, <1>5 DEF CatsKept
<1> QED
  BY <1>2, <1>3, <1>5, <1>6, CatsChange

\* What the write-back of one item makes of an entry.
LEMMA WithEntryMerges ==
  ASSUME NEW s \in Store, NEW e \in Entry, NEW item \in Row \cup {None} \cup Marker
  PROVE  LET t == WithEntry(s, e, item) IN
         /\ t.rows[e] \in Row \cup {None} /\ t.marks[e] \in 0..MaxStamp
         /\ s.rows[e] # None /\ t.rows[e] = None => t.marks[e] > s.rows[e].stamp
         /\ s.rows[e] # None /\ t.rows[e] # None /\ t.rows[e] # s.rows[e] => t.rows[e].stamp > s.rows[e].stamp
<1> DEFINE t == WithEntry(s, e, item)
<1>0. s.rows[e].stamp \in 0..MaxStamp /\ s.marks[e] \in 0..MaxStamp /\ s.rows[e] \in Row \cup {None}
  BY StoreParts
<1>1. CASE item = None \/ (s.rows[e] # None /\ s.rows[e].stamp >= item.stamp)
  BY <1>0, <1>1 DEF WithEntry
<1>2. CASE item \in Marker /\ item # None /\ ~(s.rows[e] # None /\ s.rows[e].stamp >= item.stamp)
  <2>1. Gone(item) /\ item.stamp \in Stamps
    BY <1>2 DEF Gone, Marker
  <2>2. t = [s EXCEPT !.rows[e] = None, !.marks[e] = Later(s.marks[e], item.stamp)]
    BY <1>2, <2>1 DEF WithEntry, ApplyDeletionMarker
  <2>3. t.rows[e] = None /\ t.marks[e] = Later(s.marks[e], item.stamp)
    BY <2>2 DEF Store
  <2> QED
    BY <1>0, <1>2, <2>1, <2>3, BoundsAssumption DEF Later, Stamps
<1>3. CASE item \in Row /\ item # None /\ ~(s.rows[e] # None /\ s.rows[e].stamp >= item.stamp)
  <2> DEFINE r == [item EXCEPT !.cat = IF @ \in Category /\ s.cats[@] # None THEN @ ELSE Uncategorized]
  <2>1. r \in Row /\ r.stamp = item.stamp /\ item.stamp \in Stamps
    BY <1>3 DEF Row, Stamps
  <2>2. ~Gone(item)
    BY <1>3 DEF Gone, Row
  <2>3. t = ApplySyncedEntry(s, e, r)
    BY <1>3, <2>2 DEF WithEntry
  <2> HIDE DEF r
  <2>4. \/ t = s
        \/ t.rows[e] = r /\ t.marks[e] = 0 /\ r.stamp > s.rows[e].stamp
    BY <1>0, <2>1, <2>3 DEF ApplySyncedEntry, Store, Stamps
  <2>5. r # None
    BY <2>1 DEF None, Stamps
  <2>6. CASE t = s
    BY <1>0, <2>6
  <2>7. CASE t.rows[e] = r /\ t.marks[e] = 0 /\ r.stamp > s.rows[e].stamp
    BY <1>0, <2>1, <2>5, <2>7, BoundsAssumption
  <2> QED
    BY <2>4, <2>6, <2>7
<1> QED
  BY <1>1, <1>2, <1>3

\* Either the item is no newer than what is there, or it is what is there now.
LEMMA WithEntryTakes ==
  ASSUME NEW s \in Store, NEW e \in Entry, NEW item \in Row \cup {None} \cup Marker
  PROVE  LET t == WithEntry(s, e, item) IN
         \/ t = s /\ (item = None \/ s.rows[e].stamp >= item.stamp \/ s.marks[e] >= item.stamp)
         \/ t.rows[e] = None /\ t.marks[e] = Later(s.marks[e], item.stamp) /\ item.stamp > 0
         \/ t.rows[e] # None /\ t.rows[e].stamp = item.stamp /\ t.marks[e] = 0
<1> DEFINE t == WithEntry(s, e, item)
<1>1. CASE item = None \/ (s.rows[e] # None /\ s.rows[e].stamp >= item.stamp)
  BY <1>1 DEF WithEntry
<1>2. CASE item \in Marker /\ item # None /\ ~(s.rows[e] # None /\ s.rows[e].stamp >= item.stamp)
  <2>1. Gone(item) /\ item.stamp > 0
    BY <1>2 DEF Gone, Marker, Stamps
  <2>2. t = [s EXCEPT !.rows[e] = None, !.marks[e] = Later(s.marks[e], item.stamp)]
    BY <1>2, <2>1 DEF WithEntry, ApplyDeletionMarker
  <2> QED
    BY <2>1, <2>2 DEF Store
<1>3. CASE item \in Row /\ item # None /\ ~(s.rows[e] # None /\ s.rows[e].stamp >= item.stamp)
  <2> DEFINE r == [item EXCEPT !.cat = IF @ \in Category /\ s.cats[@] # None THEN @ ELSE Uncategorized]
  <2>1. r.stamp = item.stamp /\ item.stamp \in Stamps /\ r \in Row
    BY <1>3 DEF Row, Stamps
  <2>2. t = ApplySyncedEntry(s, e, r)
    BY <1>3 DEF WithEntry, Gone, Row
  <2> HIDE DEF r
  <2>3. r # None
    BY <2>1 DEF None, Stamps
  <2> QED
    BY <2>1, <2>2, <2>3 DEF ApplySyncedEntry, Store
<1> QED
  BY <1>1, <1>2, <1>3

\* The tables a run arrives at for an entry: not removed but by a newer marker,
\* not changed but for a newer version.
Merged(s, t, e) ==
  /\ s.rows[e] # None /\ t.rows[e] = None => t.marks[e] > s.rows[e].stamp
  /\ s.rows[e] # None /\ t.rows[e] # None /\ t.rows[e] # s.rows[e] => t.rows[e].stamp > s.rows[e].stamp

LEMMA WithEntriesMerges ==
  ASSUME NEW s \in Store, NEW snap \in Store, NEW u \in Store
  PROVE  LET t == WithEntries(s, snap, u) IN
         /\ t \in Store /\ t.cats = s.cats
         /\ \A e \in Entry : Merged(s, t, e)
         /\ \A e \in Entry : LET x == WithEntry(s, e, Newer(Item(snap, e), Item(u, e)))
                             IN  t.rows[e] = x.rows[e] /\ t.marks[e] = x.marks[e]
<1> DEFINE x(e) == WithEntry(s, e, Newer(Item(snap, e), Item(u, e)))
           R == [e \in Entry |-> x(e).rows[e]]
           M == [e \in Entry |-> x(e).marks[e]]
<1>1. \A e \in Entry : /\ x(e).rows[e] \in Row \cup {None} /\ x(e).marks[e] \in 0..MaxStamp
                       /\ Merged(s, x(e), e)
  BY MergedItem, WithEntryMerges DEF Merged
<1> HIDE DEF x
<1>2. R \in [Entry -> Row \cup {None}] /\ M \in [Entry -> 0..MaxStamp]
  BY <1>1
<1>3. WithEntries(s, snap, u) = [s EXCEPT !.rows = R, !.marks = M]
  BY DEF WithEntries, x
<1>4. LET t == [s EXCEPT !.rows = R, !.marks = M]
      IN  t \in Store /\ t.cats = s.cats /\ \A e \in Entry : t.rows[e] = x(e).rows[e] /\ t.marks[e] = x(e).marks[e]
  <2> HIDE DEF R, M
  <2>1. LET t == [s EXCEPT !.rows = R, !.marks = M]
        IN  t \in Store /\ t.cats = s.cats /\ t.rows = R /\ t.marks = M
    BY <1>2 DEF Store
  <2> QED
    BY <2>1 DEF R, M
<1> QED
  BY <1>1, <1>3, <1>4 DEF Merged, x

LEMMA DeduplicatedKeeps ==
  ASSUME NEW s \in Store, NEW w \in Winners(s), NEW n \in Stamps
  PROVE  LET t == Deduplicated(s, w, n) IN
         /\ t \in Store /\ CatsKept(s, t) /\ t.marks = s.marks
         /\ \A c \in Category : t.cats[c] = s.cats[c] \/ t.cats[c].del
         /\ Doubled(s) = {} => t.rows = s.rows /\ t.cats = s.cats
         /\ \A e \in Entry :
              \/ t.rows[e] = s.rows[e]
              \/ /\ s.rows[e] # None /\ t.rows[e] # None /\ t.rows[e].stamp = n /\ Doubled(s) # {}
                 /\ t.rows[e].text = s.rows[e].text /\ t.rows[e].fav = s.rows[e].fav
<1> DEFINE L == Losers(s, w)
           R == [e \in Entry |-> IF e \in Live(s) /\ s.rows[e].cat \in L
                                 THEN [s.rows[e] EXCEPT !.cat = w[s.cats[@].name], !.stamp = n] ELSE s.rows[e]]
           C == [c \in Category |-> IF c \in L THEN [s.cats[c] EXCEPT !.del = TRUE, !.stamp = n] ELSE s.cats[c]]
<1>1. \A c \in L : /\ c \in Category /\ s.cats[c] \in Cat /\ s.cats[c].name \in Doubled(s)
                   /\ w[s.cats[c].name] \in Category
  BY StoreParts DEF Losers, SameName, Winners, LiveCats
<1>2. \A e \in Live(s) : e \in Entry /\ s.rows[e] \in Row
  BY StoreParts DEF Live
<1> HIDE DEF L
<1>3. \A e \in Entry : e \in Live(s) /\ s.rows[e].cat \in L =>
        /\ R[e] \in Row /\ R[e].stamp = n /\ R[e].text = s.rows[e].text /\ R[e].fav = s.rows[e].fav
  BY <1>1, <1>2 DEF Row, Stamps
<1>4. \A c \in Category : c \in L => C[c] \in Cat /\ C[c].del /\ C[c] # None
  <2> SUFFICES ASSUME NEW c \in Category, c \in L
               PROVE  C[c] \in Cat /\ C[c].del /\ C[c] # None
    OBVIOUS
  <2>1. C[c] \in Cat /\ C[c].del
    BY <1>1 DEF Cat, Stamps
  <2> QED
    BY <2>1, BoundsAssumption DEF Cat, None
<1>5. \A e \in Entry : ~(e \in Live(s) /\ s.rows[e].cat \in L) => R[e] = s.rows[e]
  OBVIOUS
<1>6. \A c \in Category : c \notin L => C[c] = s.cats[c]
  OBVIOUS
<1>7. Deduplicated(s, w, n) = [s EXCEPT !.rows = R, !.cats = C]
  BY DEF Deduplicated, L
<1>8. DOMAIN R = Entry /\ DOMAIN C = Category /\ R = [e \in Entry |-> R[e]] /\ C = [c \in Category |-> C[c]]
  OBVIOUS
<1> HIDE DEF R, C
<1>9. R \in [Entry -> Row \cup {None}] /\ C \in [Category -> Cat \cup {None}]
  BY <1>3, <1>4, <1>5, <1>6, <1>8, StoreParts
<1>10. LET t == [s EXCEPT !.rows = R, !.cats = C]
       IN  t \in Store /\ t.rows = R /\ t.marks = s.marks /\ t.cats = C
  BY <1>9 DEF Store
<1>11. CatsKept(s, [s EXCEPT !.rows = R, !.cats = C])
  BY <1>4, <1>6, <1>10, StoreParts DEF CatsKept
<1>12. Doubled(s) = {} => R = s.rows /\ C = s.cats
  <2> SUFFICES ASSUME Doubled(s) = {}
               PROVE  R = s.rows /\ C = s.cats
    OBVIOUS
  <2>1. (\A e \in Entry : R[e] = s.rows[e]) /\ \A c \in Category : C[c] = s.cats[c]
    BY <1>1, <1>5, <1>6
  <2>2. s.rows \in [Entry -> Row \cup {None}] /\ s.cats \in [Category -> Cat \cup {None}]
    BY DEF Store
  <2> QED
    BY <1>9, <2>1, <2>2
<1>13. \A e \in Entry : R[e] = s.rows[e]
         \/ /\ s.rows[e] # None /\ R[e] # None /\ R[e].stamp = n /\ Doubled(s) # {}
            /\ R[e].text = s.rows[e].text /\ R[e].fav = s.rows[e].fav
  <2> SUFFICES ASSUME NEW e \in Entry, e \in Live(s), s.rows[e].cat \in L
               PROVE  /\ s.rows[e] # None /\ R[e] # None /\ R[e].stamp = n /\ Doubled(s) # {}
                      /\ R[e].text = s.rows[e].text /\ R[e].fav = s.rows[e].fav
    BY <1>5
  <2>1. R[e] # None
    BY <1>3, BoundsAssumption DEF Row, None
  <2> QED
    BY <2>1, <1>1, <1>3 DEF Live
<1> QED
  BY <1>4, <1>6, <1>7, <1>10, <1>11, <1>12, <1>13

\* The tables after a read: entries are merged, but for those the dedup of the
\* categories has moved, and no category goes.
LEMMA RunMerges ==
  ASSUME NEW s \in Store, NEW snap \in Store, NEW u \in Store, NEW n \in Stamps,
         NEW w \in Winners(WithEntries(WithCategories(s, snap, u), snap, u))
  PROVE  LET m == WithEntries(WithCategories(s, snap, u), snap, u)
             t == Deduplicated(m, w, n)
         IN  /\ t \in Store /\ CatsKept(s, t)
             /\ Doubled(WithCategories(s, snap, u)) = {} => t.rows = m.rows /\ t.cats = m.cats
             /\ t.marks = m.marks
             /\ \A e \in Entry : s.rows[e] # None =>
                  /\ t.rows[e] = None => t.marks[e] > s.rows[e].stamp
                  /\ t.rows[e] # None /\ <<t.rows[e].text, t.rows[e].fav>> # <<s.rows[e].text, s.rows[e].fav>> =>
                       \/ t.rows[e].stamp > s.rows[e].stamp
                       \/ t.rows[e].stamp = n /\ Doubled(WithCategories(s, snap, u)) # {}
<1> DEFINE a == WithCategories(s, snap, u)
           m == WithEntries(a, snap, u)
           t == Deduplicated(m, w, n)
<1>1. a \in Store /\ CatsKept(s, a) /\ a.rows = s.rows
  BY WithCategoriesKeeps DEF Keeps
<1> HIDE DEF a
<1>2. m \in Store /\ m.cats = a.cats /\ \A e \in Entry : Merged(a, m, e)
  BY <1>1, WithEntriesMerges
<1>3. Doubled(m) = Doubled(a)
  BY <1>2 DEF Doubled, SameName, LiveCats
<1>4. w \in Winners(m)
  BY DEF a
<1> HIDE DEF m
<1>5. /\ t \in Store /\ CatsKept(m, t) /\ t.marks = m.marks
      /\ \A c \in Category : t.cats[c] = m.cats[c] \/ t.cats[c].del
      /\ Doubled(m) = {} => t.rows = m.rows /\ t.cats = m.cats
      /\ \A e \in Entry :
           \/ t.rows[e] = m.rows[e]
           \/ /\ m.rows[e] # None /\ t.rows[e] # None /\ t.rows[e].stamp = n /\ Doubled(m) # {}
              /\ t.rows[e].text = m.rows[e].text /\ t.rows[e].fav = m.rows[e].fav
  BY <1>2, <1>4, DeduplicatedKeeps
<1> HIDE DEF t
<1>6. CatsKept(s, t)
  <2>1. \A c \in Category : /\ s.cats[c].stamp \in 0..MaxStamp /\ a.cats[c].stamp \in 0..MaxStamp
                            /\ t.cats[c].stamp \in 0..MaxStamp
    BY <1>1, <1>5, StoreParts
  <2> SUFFICES ASSUME NEW c \in Category, s.cats[c] # None
               PROVE  /\ t.cats[c] # None
                      /\ ~s.cats[c].del /\ ~t.cats[c].del /\ t.cats[c].name # s.cats[c].name =>
                           t.cats[c].stamp >= s.cats[c].stamp
    BY DEF CatsKept
  <2>2. a.cats[c] # None /\ t.cats[c] # None
    BY <1>1, <1>2, <1>5 DEF CatsKept
  <2>3. t.cats[c] = m.cats[c] \/ t.cats[c].del
    BY <1>5
  <2> QED
    BY <1>1, <1>2, <2>2, <2>3 DEF CatsKept
<1>7. \A e \in Entry : s.rows[e] # None =>
        /\ t.rows[e] = None => t.marks[e] > s.rows[e].stamp
        /\ t.rows[e] # None /\ <<t.rows[e].text, t.rows[e].fav>> # <<s.rows[e].text, s.rows[e].fav>> =>
             t.rows[e].stamp > s.rows[e].stamp \/ (t.rows[e].stamp = n /\ Doubled(a) # {})
  BY <1>1, <1>2, <1>3, <1>5 DEF Merged
<1> QED
  BY <1>3, <1>5, <1>6, <1>7 DEF a, m, t

\* A run that has nothing to upload arrives at what the backup holds, but for
\* what changed here during the read.
LEMMA NothingToUpload ==
  ASSUME NEW s \in Store, NEW snap \in Store, NEW u \in Store, NEW t \in Store,
         t.rows = WithEntries(WithCategories(s, snap, u), snap, u).rows,
         t.marks = WithEntries(WithCategories(s, snap, u), snap, u).marks,
         t.cats = WithCategories(s, snap, u).cats,
         ~HasLocalChanges(snap, u), ~ChangedDuringSync(s, snap, u)
  PROVE  /\ \A c \in Category : t.cats[c].stamp = u.cats[c].stamp \/ (snap.cats[c] = None /\ u.cats[c] = None)
         /\ \A e \in Entry : Item(t, e).stamp = Item(u, e).stamp \/ Item(s, e) # Item(snap, e)
<1>1. \A c \in Category : t.cats[c].stamp = u.cats[c].stamp \/ (snap.cats[c] = None /\ u.cats[c] = None)
  <2> SUFFICES ASSUME NEW c \in Category, ~(snap.cats[c] = None /\ u.cats[c] = None)
               PROVE  t.cats[c].stamp = u.cats[c].stamp
    OBVIOUS
  <2> DEFINE item == Newer(snap.cats[c], u.cats[c])
  <2>1. /\ s.cats[c].stamp \in 0..MaxStamp /\ snap.cats[c].stamp \in 0..MaxStamp /\ u.cats[c].stamp \in 0..MaxStamp
        /\ snap.cats[c] # None <=> snap.cats[c].stamp # 0
        /\ u.cats[c] # None <=> u.cats[c].stamp # 0
    BY StoreParts
  <2>2. snap.cats[c].stamp <= u.cats[c].stamp
    BY <2>1 DEF HasLocalChanges
  <2>3. item.stamp = u.cats[c].stamp /\ item # None
    BY <2>1, <2>2 DEF Newer
  <2>4. ~(s.cats[c].stamp > item.stamp)
    BY <2>3 DEF ChangedDuringSync
  <2>5. t.cats[c] = item
    BY <2>4 DEF WithCategories, Store
  <2> QED
    BY <2>3, <2>5
<1>2. ASSUME NEW e \in Entry, Item(s, e) = Item(snap, e)
      PROVE  Item(t, e).stamp = Item(u, e).stamp
  <2> DEFINE a == WithCategories(s, snap, u)
             item == Newer(Item(snap, e), Item(u, e))
             x == WithEntry(a, e, item)
  <2>1. a \in Store /\ a.rows = s.rows /\ a.marks = s.marks
    BY WithCategoriesKeeps DEF Keeps
  <2>2. item \in Row \cup {None} \cup Marker /\ item.stamp = Item(u, e).stamp /\ Item(s, e).stamp <= item.stamp
        /\ (item = None <=> item.stamp = 0) /\ item.stamp \in 0..MaxStamp
    <3>1. Item(snap, e).stamp <= Item(u, e).stamp
      BY ItemType DEF HasLocalChanges
    <3> QED
      BY <1>2, <3>1, ItemType, MergedItem DEF Newer
  <2> HIDE DEF a, item
  <2>3. t.rows[e] = x.rows[e] /\ t.marks[e] = x.marks[e]
    BY <2>1, WithEntriesMerges DEF a, item
  <2>4. /\ s.rows[e].stamp <= item.stamp /\ s.marks[e] <= item.stamp
        /\ s.rows[e].stamp \in 0..MaxStamp /\ s.marks[e] \in 0..MaxStamp
        /\ Item(s, e).stamp = s.rows[e].stamp \/ Item(s, e).stamp = s.marks[e]
    BY <2>2, ItemType, StoreParts DEF Item
  <2>5. /\ x.rows[e] \in Row \cup {None} /\ x.marks[e] \in 0..MaxStamp
        /\ \/ x = a /\ (item = None \/ s.rows[e].stamp >= item.stamp \/ s.marks[e] >= item.stamp)
           \/ x.rows[e] = None /\ x.marks[e] = Later(s.marks[e], item.stamp) /\ item.stamp > 0
           \/ x.rows[e] # None /\ x.rows[e].stamp = item.stamp /\ x.marks[e] = 0
    BY <2>1, <2>2, WithEntryMerges, WithEntryTakes
  <2> HIDE DEF x
  <2>6. CASE x = a /\ (item = None \/ s.rows[e].stamp >= item.stamp \/ s.marks[e] >= item.stamp)
    <3>1. Item(t, e) = Item(s, e)
      BY <2>1, <2>3, <2>6 DEF Item
    <3>2. Item(s, e).stamp >= item.stamp
      BY <2>2, <2>4, <2>6, ItemType
    <3> QED
      BY <2>2, <3>1, <3>2, ItemType
  <2>7. CASE x.rows[e] = None /\ x.marks[e] = Later(s.marks[e], item.stamp) /\ item.stamp > 0
    <3>1. t.marks[e] = item.stamp /\ t.rows[e] = None /\ None.stamp = 0
      BY <2>2, <2>3, <2>4, <2>7 DEF Later, None
    <3> QED
      BY <2>2, <2>7, <3>1 DEF Item
  <2>8. CASE x.rows[e] # None /\ x.rows[e].stamp = item.stamp /\ x.marks[e] = 0
    BY <2>2, <2>3, <2>8 DEF Item
  <2> QED
    BY <2>5, <2>6, <2>7, <2>8
<1> QED
  BY <1>1, <1>2

-----------------------------------------------------------------------------
(* Loading the window.                                                      *)

Lists == UNION {[E -> Row] : E \in SUBSET Entry}
Knowns == UNION {[C -> Cat] : C \in SUBSET Category}
Windows ==
  [section : Fixed \cup Category, list : Lists, detail : {NoDetail} \cup [id : Entry, row : Row],
   known : Knowns, current : BOOLEAN, behind : BOOLEAN]
Editors == [open : BOOLEAN, id : {"new", "dead"} \cup Entry, cat : Category \cup {Uncategorized}]

\* The window v shows what the tables s hold.
Shown(v, s) ==
  /\ DOMAIN v.list = InSection(s, v.section)
  /\ \A e \in DOMAIN v.list : Seen(v.list[e]) = Seen(s.rows[e])
  /\ v.known = Known(s)
  /\ v.detail # NoDetail =>
       LET r == s.rows[v.detail.id]
       IN  r # None /\ r.del = (v.section = "trash") /\ Seen(v.detail.row) = Seen(r)

LEMMA ListsParts ==
  /\ \A l \in Lists : DOMAIN l \subseteq Entry /\ \A e \in DOMAIN l : l[e] \in Row
  /\ \A k \in Knowns : DOMAIN k \subseteq Category /\ \A c \in DOMAIN k : k[c] \in Cat
BY DEF Lists, Knowns

LEMMA ListedType ==
  ASSUME NEW s \in Store, NEW section
  PROVE  Listed(s, section) \in Lists /\ DOMAIN Listed(s, section) = InSection(s, section)
<1>1. InSection(s, section) \in SUBSET Entry
  BY SectionRows
<1>2. Listed(s, section) \in [InSection(s, section) -> Row]
  BY SectionRows DEF Listed
<1> QED
  BY <1>1, <1>2 DEF Lists

LEMMA KnownType ==
  ASSUME NEW s \in Store
  PROVE  Known(s) \in Knowns /\ DOMAIN Known(s) = LiveCats(s)
<1>1. LiveCats(s) \in SUBSET Category /\ \A c \in LiveCats(s) : s.cats[c] \in Cat
  BY StoreParts DEF LiveCats
<1>2. Known(s) \in [LiveCats(s) -> Cat]
  BY <1>1 DEF Known
<1> QED
  BY <1>1, <1>2 DEF Knowns

LEMMA RefreshShows ==
  ASSUME NEW s \in Store, NEW v \in Windows
  PROVE  LET r == RefreshPasswordList(v, s) IN
         /\ r \in Windows /\ r.behind = v.behind /\ r.known = v.known /\ r.section = v.section
         /\ v.known = Known(s) => Shown(r, s)
<1> DEFINE r == RefreshPasswordList(v, s)
           d == IF v.detail.id \in Entry /\ s.rows[v.detail.id] # None
                     /\ s.rows[v.detail.id].del = (v.section = "trash")
                THEN [id |-> v.detail.id, row |-> s.rows[v.detail.id]] ELSE NoDetail
<1>1. r = [v EXCEPT !.list = Listed(s, v.section), !.detail = d]
  BY DEF RefreshPasswordList
<1>2. /\ d \in {NoDetail} \cup [id : Entry, row : Row]
      /\ d # NoDetail => /\ s.rows[d.id] # None /\ s.rows[d.id].del = (v.section = "trash")
                         /\ d.row = s.rows[d.id]
  BY StoreParts
<1>3. Listed(s, v.section) \in Lists /\ DOMAIN Listed(s, v.section) = InSection(s, v.section)
      /\ \A e \in InSection(s, v.section) : Listed(s, v.section)[e] = s.rows[e]
  BY ListedType DEF Listed
<1> HIDE DEF d
<1>4. /\ r \in Windows /\ r.behind = v.behind /\ r.known = v.known /\ r.section = v.section
      /\ r.list = Listed(s, v.section) /\ r.detail = d
  BY <1>1, <1>2, <1>3 DEF Windows
<1> HIDE DEF r
<1>5. v.known = Known(s) => Shown(r, s)
  BY <1>2, <1>3, <1>4 DEF Shown
<1> QED
  BY <1>4, <1>5 DEF r

LEMMA ReloadShows ==
  ASSUME NEW s \in Store, NEW v \in Windows
  PROVE  LET r == Reload(v, s)
         IN  r \in Windows /\ ~r.behind /\ r.known = Known(s) /\ Shown(r, s)
<1> DEFINE section == IF v.section \in Fixed \/ v.current THEN v.section ELSE "all"
           current == section \in LiveCats(s)
           u == [v EXCEPT !.section = section, !.known = Known(s), !.behind = FALSE, !.current = current]
<1>0. section \in Fixed \cup Category /\ current \in BOOLEAN
  BY DEF Windows, Fixed
<1> HIDE DEF section, current
<1>1. u \in Windows /\ ~u.behind /\ u.known = Known(s)
  BY <1>0, KnownType DEF Windows
<1>2. Reload(v, s) = RefreshPasswordList(u, s)
  BY DEF Reload, section, current
<1> HIDE DEF u
<1> QED
  BY <1>1, <1>2, RefreshShows

LEMMA ComboOffers ==
  ASSUME NEW v \in Windows, NEW ed \in Editors
  PROVE  LET f == FillCategoryCombo(ed, v)
         IN  f \in Editors /\ f.id = ed.id /\ f.open = ed.open /\ f.cat \in {Uncategorized} \cup DOMAIN v.known
BY DEF FillCategoryCombo, Offered, Editors

LEMMA ShowsLoads ==
  ASSUME NEW s \in Store, NEW v \in Windows, NEW ed \in Editors, Shows(s, v, ed)
  PROVE  /\ view' \in Windows /\ ~view'.behind /\ view'.known = Known(s) /\ Shown(view', s)
         /\ editor' \in Editors /\ editor'.id = ed.id /\ editor'.open = ed.open
         /\ editor'.cat \in {Uncategorized} \cup LiveCats(s)
<1>1. view' \in Windows /\ ~view'.behind /\ view'.known = Known(s) /\ Shown(view', s)
  BY ReloadShows DEF Shows
<1>2. editor' = FillCategoryCombo(ed, view')
  BY DEF Shows
<1> QED
  BY <1>1, <1>2, ComboOffers, KnownType

-----------------------------------------------------------------------------
(* The invariant, and what a step must keep.                                *)

Dialogs ==
  LET Ids == SUBSET Entry
      Sizes == {Cardinality(E) : E \in Ids}
      Cats == Category \cup {Uncategorized}
  IN  [kind : {"none", "add", "trash", "purge"}, ids : Ids]
      \cup [kind : {"category"}, ids : Ids, rows : Sizes, offered : SUBSET Cats]
      \cup [kind : {"rename"}, ids : Ids, cat : Category]
      \cup [kind : {"deleteCategory"}, ids : Ids, cat : Category, stamp : Nat]
      \cup [kind : {"import"}, ids : Ids, rows : Sizes, new : BOOLEAN, name : Name, create : BOOLEAN]

Runs ==
  [phase : {"idle", "read", "upload"}, tries : 0..MaxTries, snap : Store, payload : Store, moved : BOOLEAN]

\* What the window, the editor and the dialog hold is there.
Held ==
  /\ editor.id \in Entry => db.rows[editor.id] # None
  /\ \A e \in dialog.ids : db.rows[e] # None
  /\ dialog.kind = "deleteCategory" => db.cats[dialog.cat] # None
  /\ \A c \in DOMAIN view.known : db.cats[c] # None

Bounds == now \in 1..MaxClock /\ acts \in 0..MaxActs /\ others \in 0..MaxOthers

Typed ==
  /\ Bounds
  /\ db \in Store /\ cloud \in Store /\ sync \in Runs
  /\ view \in Windows /\ editor \in Editors /\ dialog \in Dialogs
  /\ Held

IInv == Typed /\ ViewIsCurrent /\ EditorOffersLive

\* The bodies of ConfirmedOnly and of NewerWins.
Confirmed ==
  \A e \in Entry : db.rows[e] # None /\ db'.rows[e] = None =>
    \/ /\ dialog.kind = "purge" /\ dialog' = NoDialog /\ e \in dialog.ids
       /\ db.rows[e].del /\ db'.marks[e] >= db.rows[e].stamp
    \/ sync.phase = "read" /\ db'.marks[e] > db.rows[e].stamp

Wins ==
  /\ \A e \in Entry :
       db.rows[e] # None /\ db'.rows[e] # None
         /\ <<db'.rows[e].text, db'.rows[e].fav>> # <<db.rows[e].text, db.rows[e].fav>> =>
       \/ db'.rows[e].stamp > db.rows[e].stamp
       \/ dialog.kind = "import" /\ dialog' = NoDialog
       \/ /\ sync.phase = "read" /\ db'.rows[e].stamp = now
          /\ Doubled(WithCategories(db, sync.snap, cloud)) # {}
  /\ \A c \in Category :
       c \in LiveCats(db) \cap LiveCats(db') /\ db'.cats[c].name # db.cats[c].name =>
         db'.cats[c].stamp >= db.cats[c].stamp

Kept == IInv' /\ Confirmed /\ Wins

LEMMA Current == ViewIsCurrent <=> view.behind \/ Shown(view, db)
BY DEF ViewIsCurrent, Shown

LEMMA ClockStamps == ASSUME Bounds PROVE now \in Stamps
BY BoundsAssumption DEF Bounds, Stamps

LEMMA NoDialogType == NoDialog \in Dialogs /\ NoDialog.kind = "none" /\ NoDialog.ids = {}
BY DEF NoDialog, Dialogs

LEMMA KnownStays ==
  ASSUME NEW s \in Store, NEW v \in Windows, v.known = Known(s)
  PROVE  \A c \in DOMAIN v.known : s.cats[c] # None
BY KnownType DEF LiveCats

\* The tables stay, the window is brought up to date or not touched.
LEMMA Untouched ==
  ASSUME IInv, db' = db, Bounds', cloud' \in Store, sync' \in Runs,
         view' \in Windows, view'.behind = view.behind, view'.known = view.known,
         view'.behind \/ Shown(view', db),
         editor' \in Editors, editor'.id \in Entry => db.rows[editor'.id] # None,
         editor'.open => \/ editor'.cat = editor.cat /\ editor.open
                         \/ editor'.cat \in {Uncategorized} \cup DOMAIN view.known,
         dialog' \in Dialogs, \A e \in dialog'.ids : db.rows[e] # None,
         dialog'.kind = "deleteCategory" => db.cats[dialog'.cat] # None
  PROVE  Kept
<1>1. Typed'
  BY IdsAssumption DEF IInv, Typed, Held
<1>2. ViewIsCurrent'
  BY DEF ViewIsCurrent, Shown
<1>3. EditorOffersLive'
  <2>1. ~view.behind => DOMAIN view.known = LiveCats(db)
    BY Current, KnownType DEF IInv, Typed, Shown
  <2> QED
    BY <2>1 DEF IInv, EditorOffersLive
<1>4. Confirmed /\ Wins
  BY DEF Confirmed, Wins
<1> QED
  BY <1>1, <1>2, <1>3, <1>4 DEF Kept, IInv

\* The user's change makes the tables s, and the window is loaded.
LEMMA Saved ==
  ASSUME IInv, NEW s, NEW v \in Windows, NEW ed \in Editors, Saves(s, v, ed),
         s \in Store, CatsKept(db, s), \A e \in Entry : db.rows[e] # None => s.rows[e] # None,
         RowsKept(db, s) \/ (dialog.kind = "import" /\ dialog' = NoDialog),
         ed.id \in {"new", "dead", editor.id}, acts' \in 0..MaxActs,
         dialog' \in {dialog, NoDialog}
  PROVE  Kept
<1>1. /\ view' \in Windows /\ ~view'.behind /\ view'.known = Known(s) /\ Shown(view', s)
      /\ editor' \in Editors /\ editor'.id = ed.id /\ editor'.open = ed.open
      /\ editor'.cat \in {Uncategorized} \cup LiveCats(s)
  BY ShowsLoads DEF Saves
<1>2. db' = s /\ UNCHANGED <<now, cloud, sync, others>>
  BY DEF Saves
<1>3. Held'
  <2>1. \A c \in DOMAIN view'.known : s.cats[c] # None
    BY <1>1, KnownStays
  <2>2. editor'.id \in Entry => s.rows[editor'.id] # None
    BY <1>1, IdsAssumption DEF IInv, Typed, Held
  <2>3. /\ \A e \in dialog'.ids : s.rows[e] # None
        /\ dialog'.kind = "deleteCategory" => s.cats[dialog'.cat] # None
    <3>1. CASE dialog' = NoDialog
      BY <3>1, NoDialogType
    <3>2. CASE dialog' = dialog
      BY <3>2 DEF IInv, Typed, Held, Dialogs, CatsKept
    <3> QED
      BY <3>1, <3>2
  <2> QED
    BY <1>2, <2>1, <2>2, <2>3 DEF Held
<1>4. Typed'
  BY <1>1, <1>2, <1>3, NoDialogType DEF IInv, Typed, Bounds
<1>5. ViewIsCurrent' /\ EditorOffersLive'
  BY <1>1, <1>2 DEF ViewIsCurrent, Shown, EditorOffersLive
<1>6. Confirmed
  BY <1>2 DEF Confirmed
<1>7. Wins
  BY <1>2 DEF Wins, CatsKept, RowsKept, LiveCats
<1> QED
  BY <1>4, <1>5, <1>6, <1>7 DEF Kept, IInv

-----------------------------------------------------------------------------
(* The window's own steps.                                                  *)

LEMMA ActsType ==
  ASSUME IInv, Acts
  PROVE  acts' \in 0..MaxActs
BY BoundsAssumption DEF IInv, Typed, Bounds, Acts

\* In the list and the detail there are entries only.
LEMMA ReachableIds ==
  ASSUME IInv
  PROVE  Reachable \subseteq Entry
<1>1. view.list \in Lists
  BY DEF IInv, Typed, Windows
<1> QED
  BY <1>1, ListsParts DEF Reachable

LEMMA OpenDialogKept ==
  ASSUME IInv, NEW d \in Dialogs, OpenDialog(d), \A e \in d.ids : db.rows[e] # None,
         d.kind = "deleteCategory" => db.cats[d.cat] # None
  PROVE  Kept
<1>1. acts' \in 0..MaxActs /\ dialog' = d /\ UNCHANGED <<now, db, cloud, view, editor, sync, others>>
  BY ActsType DEF OpenDialog, Clickable
<1>2. Bounds'
  BY <1>1 DEF IInv, Typed, Bounds
<1>3. view'.behind \/ Shown(view', db)
  BY <1>1, Current DEF IInv
<1> QED
  BY <1>1, <1>2, <1>3, Untouched DEF IInv, Typed, Held

\* What a dialog takes is there.
LEMMA DialogsKept ==
  ASSUME IInv, OpenCategoryMenu \/ OpenCategoryDialog \/ OpenDeleteDialog \/ OpenImport
  PROVE  Kept
<1>t. db \in Store /\ view \in Windows
  BY DEF IInv, Typed
<1>1. CASE OpenCategoryMenu
  <2> PICK ids \in SUBSET Reachable : OpenDialog([kind |-> "category", ids |-> ids \cap Exists, rows |-> Cardinality(ids),
                             offered |-> Offered(view)])
    BY <1>1 DEF OpenCategoryMenu
  <2> DEFINE d == [kind |-> "category", ids |-> ids \cap Exists, rows |-> Cardinality(ids), offered |-> Offered(view)]
  <2>1. Offered(view) \subseteq Category \cup {Uncategorized}
    BY <1>t, ListsParts DEF Offered, Windows
  <2>2. ids \in SUBSET Entry
    BY ReachableIds
  <2>3. d \in Dialogs
    BY <2>1, <2>2 DEF Dialogs, Exists
  <2>4. d.ids = ids \cap Exists /\ d.kind = "category" /\ OpenDialog(d)
    OBVIOUS
  <2> HIDE DEF d
  <2> QED
    BY <2>3, <2>4, OpenDialogKept DEF Exists
<1>2. CASE OpenCategoryDialog
  <2>1. CASE OpenDialog([kind |-> "add", ids |-> {}])
    <3> DEFINE d == [kind |-> "add", ids |-> {}]
    <3>1. d \in Dialogs /\ d.ids = {} /\ d.kind = "add"
      BY DEF Dialogs
    <3> QED
      BY <2>1, <3>1, OpenDialogKept
  <2>2. ASSUME NEW c \in DOMAIN view.known \cap LiveCats(db), OpenDialog([kind |-> "rename", ids |-> {}, cat |-> c])
        PROVE  Kept
    <3> DEFINE d == [kind |-> "rename", ids |-> {}, cat |-> c]
    <3>1. d \in Dialogs /\ d.ids = {} /\ d.kind = "rename"
      BY DEF Dialogs, LiveCats
    <3> QED
      BY <2>2, <3>1, OpenDialogKept
  <2>3. ASSUME NEW c \in DOMAIN view.known \cap LiveCats(db),
               OpenDialog([kind |-> "deleteCategory", ids |-> {}, cat |-> c, stamp |-> db.cats[c].stamp])
        PROVE  Kept
    <3> DEFINE d == [kind |-> "deleteCategory", ids |-> {}, cat |-> c, stamp |-> db.cats[c].stamp]
    <3>1. db.cats[c].stamp \in Nat /\ db.cats[c] # None /\ c \in Category
      BY <1>t, StoreParts DEF LiveCats
    <3>2. d \in Dialogs /\ d.ids = {} /\ d.cat = c
      BY <3>1 DEF Dialogs
    <3> QED
      BY <2>3, <3>1, <3>2, OpenDialogKept
  <2> QED
    BY <1>2, <2>1, <2>2, <2>3 DEF OpenCategoryDialog
<1>3. CASE OpenDeleteDialog
  <2>1. ASSUME NEW ids, OpenDialog([kind |-> "trash", ids |-> ids \cap Exists])
        PROVE  Kept
    <3> DEFINE d == [kind |-> "trash", ids |-> ids \cap Exists]
    <3>1. d \in Dialogs /\ d.ids = ids \cap Exists /\ d.kind = "trash"
      BY DEF Dialogs, Exists
    <3> QED
      BY <2>1, <3>1, OpenDialogKept DEF Exists
  <2>2. ASSUME NEW ids, OpenDialog([kind |-> "purge", ids |-> ids \cap Trash(db)])
        PROVE  Kept
    <3> DEFINE d == [kind |-> "purge", ids |-> ids \cap Trash(db)]
    <3>1. d \in Dialogs /\ d.ids = ids \cap Trash(db) /\ d.kind = "purge"
      BY DEF Dialogs, Trash
    <3> QED
      BY <2>2, <3>1, OpenDialogKept DEF Trash
  <2> QED
    BY <1>3, <2>1, <2>2 DEF OpenDeleteDialog
<1>4. CASE OpenImport
  <2> PICK ids \in {{e} : e \in Live(db)} \cup {{}}, new \in BOOLEAN, n \in Name :
        OpenDialog([kind |-> "import", ids |-> ids, rows |-> Cardinality(ids), new |-> new, name |-> n,
                    create |-> \A c \in LiveCats(db) : db.cats[c].name # n])
    BY <1>4 DEF OpenImport
  <2> DEFINE create == \A c \in LiveCats(db) : db.cats[c].name # n
             d == [kind |-> "import", ids |-> ids, rows |-> Cardinality(ids), new |-> new, name |-> n, create |-> create]
  <2>1. ids \in SUBSET Entry /\ \A e \in ids : db.rows[e] # None
    BY DEF Live
  <2>2. create \in BOOLEAN /\ OpenDialog(d)
    OBVIOUS
  <2> HIDE DEF create
  <2>3. d \in Dialogs /\ d.ids = ids /\ d.kind = "import"
    BY <2>1, <2>2 DEF Dialogs
  <2> HIDE DEF d
  <2> QED
    BY <2>1, <2>2, <2>3, OpenDialogKept
<1> QED
  BY <1>1, <1>2, <1>3, <1>4

LEMMA LooksKept ==
  ASSUME IInv, \/ \E section \in Fixed \cup Category : SelectSection(section)
               \/ SelectEntry \/ OpenCreate \/ CancelEditor \/ CloseDialog \/ Tick
               \/ \E e \in Entry : OpenEdit(e)
               \/ \E c \in Category \cup {Uncategorized} : ChooseCategory(c)
  PROVE  Kept
<1>t. /\ db \in Store /\ view \in Windows /\ editor \in Editors /\ Held
      /\ view.behind \/ Shown(view, db)
  BY Current DEF IInv, Typed
<1>1. ASSUME NEW section \in Fixed \cup Category, SelectSection(section)
      PROVE  Kept
  <2> DEFINE u == [view EXCEPT !.section = section, !.detail = NoDetail, !.current = @ \/ section \in Category]
  <2>1. u \in Windows /\ u.behind = view.behind /\ u.known = view.known
    <3> DEFINE current == view.current \/ section \in Category
    <3>1. current \in BOOLEAN
      OBVIOUS
    <3> HIDE DEF current
    <3>2. [view EXCEPT !.section = section, !.detail = NoDetail, !.current = current] \in Windows
      BY <1>t, <3>1 DEF Windows
    <3> QED
      BY <1>t, <3>2 DEF current, Windows
  <2>2. view' = RefreshPasswordList(u, db) /\ UNCHANGED <<now, db, cloud, editor, dialog, sync, others>>
    BY <1>1 DEF SelectSection
  <2> HIDE DEF u
  <2>3. view' \in Windows /\ view'.behind = view.behind /\ view'.known = view.known
        /\ (view.known = Known(db) => Shown(view', db))
    BY <1>t, <2>1, <2>2, RefreshShows
  <2>4. Bounds'
    BY <1>1, <2>2, ActsType DEF SelectSection, Clickable, IInv, Typed, Bounds
  <2> QED
    BY <1>t, <2>2, <2>3, <2>4, Untouched DEF Shown, IInv, Typed, Held
<1>2. CASE SelectEntry
  <2>1. PICK d \in {NoDetail} \cup {[id |-> e, row |-> view.list[e]] : e \in DOMAIN view.list} :
          view' = [view EXCEPT !.detail = d]
    BY <1>2 DEF SelectEntry
  <2>2. view.list \in Lists
    BY <1>t DEF Windows
  <2>3. d \in {NoDetail} \cup [id : Entry, row : Row]
    BY <2>2, ListsParts
  <2>4. /\ view' \in Windows /\ view'.behind = view.behind /\ view'.known = view.known /\ view'.detail = d
        /\ view'.list = view.list /\ view'.section = view.section
    BY <1>t, <2>1, <2>3 DEF Windows
  <2>5. ASSUME Shown(view, db), d # NoDetail
        PROVE  /\ db.rows[d.id] # None /\ db.rows[d.id].del = (view.section = "trash")
               /\ Seen(d.row) = Seen(db.rows[d.id])
    <3>1. PICK e \in InSection(db, view.section) : d = [id |-> e, row |-> view.list[e]]
      BY <2>5 DEF Shown
    <3>2. e \in Entry /\ db.rows[e] \in Row /\ db.rows[e].del = (view.section = "trash")
      BY <1>t, SectionRows
    <3>3. db.rows[e] # None
      BY <3>2, BoundsAssumption DEF Row, None
    <3> QED
      BY <2>5, <3>1, <3>2, <3>3 DEF Shown
  <2>6. view'.behind \/ Shown(view', db)
    BY <1>t, <2>4, <2>5 DEF Shown
  <2>7. Bounds' /\ UNCHANGED <<db, cloud, editor, dialog, sync>>
    BY <1>2, ActsType DEF SelectEntry, Clickable, IInv, Typed, Bounds
  <2> QED
    BY <1>t, <2>4, <2>6, <2>7, Untouched DEF IInv, Typed, Held
<1>3. CASE OpenCreate
  <2>1. editor' \in Editors /\ editor'.id = "new" /\ editor'.cat = Uncategorized
    BY <1>3 DEF OpenCreate, Editors
  <2>2. Bounds' /\ UNCHANGED <<db, cloud, view, dialog, sync>>
    BY <1>3, ActsType DEF OpenCreate, Clickable, IInv, Typed, Bounds
  <2>3. editor'.id \notin Entry
    BY <2>1, IdsAssumption
  <2> QED
    BY <1>t, <2>1, <2>2, <2>3, Untouched DEF IInv, Typed, Held
<1>4. CASE CancelEditor
  <2>1. editor' \in Editors /\ editor'.id = "new" /\ ~editor'.open
    BY <1>4, <1>t DEF CancelEditor, Shut, Editors
  <2>2. Bounds' /\ UNCHANGED <<db, cloud, view, dialog, sync>>
    BY <1>4 DEF CancelEditor, IInv, Typed, Bounds, bounds
  <2>3. editor'.id \notin Entry
    BY <2>1, IdsAssumption
  <2> QED
    BY <1>t, <2>1, <2>2, <2>3, Untouched DEF IInv, Typed, Held
<1>5. CASE CloseDialog
  <2>1. Bounds' /\ UNCHANGED <<db, cloud, view, editor, sync>> /\ dialog' = NoDialog
    BY <1>5 DEF CloseDialog, IInv, Typed, Bounds, bounds
  <2> QED
    BY <1>t, <2>1, NoDialogType, Untouched DEF IInv, Typed, Held
<1>6. CASE Tick
  <2>1. now' \in 1..MaxClock
    BY <1>6, BoundsAssumption DEF Tick, IInv, Typed, Bounds
  <2>2. Bounds' /\ UNCHANGED <<db, cloud, view, editor, dialog, sync>>
    BY <1>6, <2>1 DEF Tick, IInv, Typed, Bounds, bounds
  <2> QED
    BY <1>t, <2>2, Untouched DEF IInv, Typed, Held
<1>7. ASSUME NEW e \in Entry, OpenEdit(e)
      PROVE  Kept
  <2> DEFINE filled == FillCategoryCombo(editor, view)
             cat == IF db.rows[e].cat \in Offered(view) THEN db.rows[e].cat ELSE filled.cat
  <2>1. cat \in {Uncategorized} \cup DOMAIN view.known
    BY <1>t, ComboOffers DEF Offered
  <2>2. editor' = [open |-> TRUE, id |-> e, cat |-> cat] /\ db.rows[e] # None
    BY <1>7 DEF OpenEdit, Live
  <2> HIDE DEF cat
  <2>3. view.known \in Knowns
    BY <1>t DEF Windows
  <2>4. editor' \in Editors /\ editor'.id = e /\ editor'.cat = cat
    BY <2>1, <2>2, <2>3, ListsParts DEF Editors
  <2>5. Bounds' /\ UNCHANGED <<db, cloud, view, dialog, sync>>
    BY <1>7, ActsType DEF OpenEdit, Clickable, IInv, Typed, Bounds
  <2> QED
    BY <1>t, <2>1, <2>2, <2>4, <2>5, Untouched DEF IInv, Typed, Held
<1>8. ASSUME NEW c \in Category \cup {Uncategorized}, ChooseCategory(c)
      PROVE  Kept
  <2>1. editor' \in Editors /\ editor'.id = editor.id /\ editor'.cat \in {Uncategorized} \cup DOMAIN view.known
    BY <1>8, <1>t DEF ChooseCategory, Offered, Editors
  <2>2. Bounds' /\ UNCHANGED <<db, cloud, view, dialog, sync>>
    BY <1>8, ActsType DEF ChooseCategory, Clickable, IInv, Typed, Bounds
  <2> QED
    BY <1>t, <2>1, <2>2, Untouched DEF IInv, Typed, Held
<1> QED
  BY <1>1, <1>2, <1>3, <1>4, <1>5, <1>6, <1>7, <1>8

-----------------------------------------------------------------------------
(* The user's changes.                                                      *)

\* What Saved asks of a click and of an accepted dialog.
LEMMA SavedKeeping ==
  ASSUME IInv, NEW s, NEW v \in Windows, NEW ed \in Editors, Saves(s, v, ed), Keeps(db, s),
         ed.id \in {"new", "dead", editor.id}, Acts, dialog' \in {dialog, NoDialog}
  PROVE  Kept
<1>1. \A e \in Entry : db.rows[e] # None => s.rows[e] # None
  BY DEF Keeps, RowsKept
<1> QED
  BY <1>1, ActsType, Saved DEF Keeps

LEMMA ShutType ==
  ASSUME IInv
  PROVE  Shut(editor.cat) \in Editors /\ Shut(editor.cat).id = "new"
BY DEF Shut, IInv, Typed, Editors

LEMMA ChangeCategoriesKept ==
  ASSUME IInv, ChangeCategories
  PROVE  Kept
<1>1. PICK c \in Category \cup {Uncategorized} :
        LET moved == {e \in dialog.ids : db.rows[e].cat # c}
            s == UpdateCategoryOf(db, moved, c, now)
            v == Reload(view, s)
        IN  /\ dialog.ids \subseteq Live(db) /\ \A e \in moved : Stampable(e)
            /\ Saves(s, [view EXCEPT !.detail = IF @.id \in DOMAIN v.list THEN @ ELSE NoDetail], editor)
  BY DEF ChangeCategories, LiveCats
<1> DEFINE moved == {e \in dialog.ids : db.rows[e].cat # c}
           s == UpdateCategoryOf(db, moved, c, now)
           d == IF view.detail.id \in DOMAIN Reload(view, s).list THEN view.detail ELSE NoDetail
<1>2. moved \in SUBSET Live(db) /\ \A e \in moved : db.rows[e].stamp < MaxStamp
  BY <1>1 DEF Stampable
<1>3. Saves(s, [view EXCEPT !.detail = d], editor)
  BY <1>1
<1>4. db \in Store /\ view \in Windows /\ editor \in Editors /\ now \in Stamps
  BY ClockStamps DEF IInv, Typed
<1>5. Keeps(db, s)
  BY <1>2, <1>4, UpdateCategoryOfKeeps
<1>6. d \in {NoDetail} \cup [id : Entry, row : Row]
  BY <1>4 DEF Windows
<1> HIDE DEF d, s
<1>7. [view EXCEPT !.detail = d] \in Windows
  BY <1>4, <1>6 DEF Windows
<1>8. Acts /\ dialog' = NoDialog
  BY DEF ChangeCategories, Accepts
<1> QED
  BY <1>3, <1>4, <1>5, <1>7, <1>8, SavedKeeping

LEMMA SaveNewKept ==
  ASSUME IInv, NEW text \in Text, SaveNew(text)
  PROVE  Kept
<1> DEFINE row == [text |-> text, cat |-> editor.cat, fav |-> FALSE, del |-> FALSE, stamp |-> now]
<1>1. PICK e \in Entry : Fresh(e) /\ Saves(Insert(db, e, row), view, Shut(editor.cat))
  BY DEF SaveNew
<1>2. db \in Store /\ view \in Windows /\ editor \in Editors /\ now \in Stamps
  BY ClockStamps DEF IInv, Typed
<1>3. row \in Row /\ db.rows[e] = None
  BY <1>1, <1>2 DEF Row, Editors, Stamps, Fresh
<1>4. Keeps(db, Insert(db, e, row))
  BY <1>2, <1>3, InsertKeeps
<1>5. Acts /\ UNCHANGED dialog
  BY DEF SaveNew, Clickable
<1> QED
  BY <1>1, <1>2, <1>4, <1>5, ShutType, SavedKeeping

LEMMA SaveEditedKept ==
  ASSUME IInv, NEW text \in Text, SaveEdited(text)
  PROVE  Kept
<1> DEFINE e == editor.id
           row == [db.rows[e] EXCEPT !.text = text, !.cat = editor.cat, !.stamp = StampOfEditor(e)]
<1>1. /\ e \in Live(db) /\ db.rows[e].stamp < MaxStamp
      /\ \/ Shows(db, view, Shut(editor.cat)) /\ UNCHANGED <<now, db, cloud, sync, others>>
         \/ Saves(Update(db, e, row), view, Shut(editor.cat))
  BY DEF SaveEdited, Stampable
<1>2. db \in Store /\ view \in Windows /\ editor \in Editors /\ now \in Stamps
  BY ClockStamps DEF IInv, Typed
<1>3. e \in Entry /\ db.rows[e] \in Row /\ db.rows[e].stamp \in 0..MaxStamp
  BY <1>1, <1>2, StoreParts DEF Live
<1>4. StampOfEditor(e) \in Stamps /\ StampOfEditor(e) > db.rows[e].stamp
  BY <1>1, <1>2, <1>3, NextStampType DEF StampOfEditor
<1>5. row \in Row /\ row.stamp > db.rows[e].stamp
  BY <1>2, <1>3, <1>4 DEF Row, Editors, Stamps
<1>6. Keeps(db, Update(db, e, row)) /\ Keeps(db, db)
  <2>1. Keeps(db, db)
    BY <1>2, StoreParts DEF Keeps, CatsKept, RowsKept
  <2> HIDE DEF row, e
  <2> QED
    BY <1>2, <1>3, <1>5, <2>1, UpdateKeeps
<1>7. Acts /\ UNCHANGED dialog
  BY DEF SaveEdited, Clickable
<1>8. CASE Shows(db, view, Shut(editor.cat)) /\ UNCHANGED <<now, db, cloud, sync, others>>
  <2>1. Saves(db, view, Shut(editor.cat))
    BY <1>8 DEF Saves
  <2> QED
    BY <1>2, <1>6, <1>7, <2>1, ShutType, SavedKeeping
<1>9. CASE Saves(Update(db, e, row), view, Shut(editor.cat))
  BY <1>2, <1>6, <1>7, <1>9, ShutType, SavedKeeping
<1> QED
  BY <1>1, <1>8, <1>9

LEMMA TrashKept ==
  ASSUME IInv, MoveToTrash \/ \E ids \in SUBSET Entry : RestoreEntries(ids)
  PROVE  Kept
<1>1. db \in Store /\ view \in Windows /\ editor \in Editors /\ now \in Stamps
  BY ClockStamps DEF IInv, Typed
<1>2. CASE MoveToTrash
  <2>1. Acts /\ dialog' = NoDialog /\ Saves(BulkLogicalDelete(db, dialog.ids, now), view, editor)
    BY <1>2 DEF MoveToTrash, Accepts
  <2> QED
    BY <1>1, <2>1, BulkLogicalDeleteKeeps, SavedKeeping
<1>3. ASSUME NEW ids, RestoreEntries(ids)
      PROVE  Kept
  <2>1. Acts /\ UNCHANGED dialog /\ Saves(BulkRestore(db, ids, now), view, editor)
    BY <1>3 DEF RestoreEntries, Clickable
  <2> QED
    BY <1>1, <2>1, BulkRestoreKeeps, SavedKeeping
<1> QED
  BY <1>2, <1>3

LEMMA CatCounts == \A C \in SUBSET Category : Cardinality(C) \in Nat
BY IdsAssumption, FS_Subset, FS_CardinalityType

LEMMA AddCategoryKept ==
  ASSUME IInv, NEW n \in Name, AddCategory(n)
  PROVE  Kept
<1> DEFINE cat(order) == [name |-> n, order |-> order, created |-> now, del |-> FALSE, stamp |-> now]
<1>1. PICK c \in Category, order \in 0..Cardinality(Category) :
        UnusedCategory(c) /\ Saves(InsertCategory(db, c, cat(order)), [view EXCEPT !.section = c], editor)
  BY DEF AddCategory
<1>2. db \in Store /\ view \in Windows /\ editor \in Editors /\ now \in Stamps
  BY ClockStamps DEF IInv, Typed
<1>3. cat(order) \in Cat /\ db.cats[c] = None
  BY <1>1, <1>2, CatCounts DEF Cat, Stamps, UnusedCategory
<1> HIDE DEF cat
<1>4. Keeps(db, InsertCategory(db, c, cat(order)))
  BY <1>2, <1>3, InsertCategoryKeeps
<1>5. [view EXCEPT !.section = c] \in Windows
  BY <1>2 DEF Windows
<1>6. Acts /\ dialog' = NoDialog
  BY DEF AddCategory, Accepts
<1> QED
  BY <1>1, <1>2, <1>4, <1>5, <1>6, SavedKeeping

LEMMA RenameCategoryKept ==
  ASSUME IInv, NEW n \in Name, RenameCategory(n)
  PROVE  Kept
<1> DEFINE c == dialog.cat
           cat == [db.cats[c] EXCEPT !.name = n, !.stamp = NextStamp(db.cats[c], now)]
<1>1. /\ c \in LiveCats(db) /\ db.cats[c].stamp < MaxStamp /\ Saves(UpdateCategory(db, c, cat), view, editor)
      /\ Acts /\ dialog' = NoDialog
  BY DEF RenameCategory, Accepts
<1>2. db \in Store /\ view \in Windows /\ editor \in Editors /\ now \in Stamps
  BY ClockStamps DEF IInv, Typed
<1>3. c \in Category /\ db.cats[c] \in Cat /\ db.cats[c].stamp \in 0..MaxStamp
  BY <1>1, <1>2, StoreParts DEF LiveCats
<1>4. NextStamp(db.cats[c], now) \in Stamps /\ NextStamp(db.cats[c], now) > db.cats[c].stamp
  BY <1>1, <1>2, <1>3, NextStampType
<1>5. cat \in Cat /\ cat.stamp > db.cats[c].stamp
  BY <1>3, <1>4 DEF Cat, Stamps
<1> HIDE DEF cat, c
<1>6. Keeps(db, UpdateCategory(db, c, cat))
  BY <1>2, <1>3, <1>5, UpdateCategoryKeeps
<1> QED
  BY <1>1, <1>2, <1>6, SavedKeeping

LEMMA DeleteCategoryKept ==
  ASSUME IInv, DeleteCategory
  PROVE  Kept
<1> DEFINE c == dialog.cat
           a == LogicalDeleteByCategory(db, c, now)
           stamp == NextStamp(dialog, now)
           section == IF view.section = c THEN "all" ELSE view.section
<1>1. /\ dialog.kind = "deleteCategory" /\ dialog.stamp < MaxStamp /\ Acts /\ dialog' = NoDialog
      /\ Saves(LogicalDelete(a, c, stamp), [view EXCEPT !.section = section], editor)
  BY DEF DeleteCategory, Accepts
<1>2. db \in Store /\ view \in Windows /\ editor \in Editors /\ now \in Stamps /\ dialog \in Dialogs
  BY ClockStamps DEF IInv, Typed
<1>3. c \in Category /\ dialog.stamp \in Nat /\ db.cats[c] # None
  BY <1>1, <1>2 DEF Dialogs, IInv, Typed, Held
<1>4. stamp \in Stamps
  <2>1. dialog.stamp \in 0..MaxStamp
    BY <1>1, <1>3, BoundsAssumption
  <2> QED
    BY <1>1, <1>2, <2>1, NextStampType
<1> HIDE DEF stamp
<1>5. Keeps(db, a) /\ a.cats = db.cats /\ a \in Store
  BY <1>2, LogicalDeleteByCategoryKeeps DEF Keeps
<1> HIDE DEF a
<1>6. Keeps(a, LogicalDelete(a, c, stamp)) /\ LogicalDelete(a, c, stamp).rows = a.rows
  BY <1>3, <1>4, <1>5, LogicalDeleteKeeps
<1>7. Keeps(db, LogicalDelete(a, c, stamp))
  BY <1>5, <1>6 DEF Keeps, CatsKept, RowsKept
<1>8. [view EXCEPT !.section = section] \in Windows
  <2>1. section \in Fixed \cup Category
    BY <1>2 DEF Windows, Fixed
  <2> HIDE DEF section
  <2> QED
    BY <1>2, <2>1 DEF Windows
<1> QED
  BY <1>1, <1>2, <1>7, <1>8, SavedKeeping

LEMMA PersistCategoryOrderKept ==
  ASSUME IInv, PersistCategoryOrder
  PROVE  Kept
<1>1. PICK at \in [DOMAIN view.known -> 0..Cardinality(DOMAIN view.known) - 1] :
        LET moved == {c \in DOMAIN at : view.known[c].order # at[c]}
        IN  /\ \A c \in moved : view.known[c].stamp < MaxStamp
            /\ Saves(UpdateSortOrder(db, moved, at, [c \in moved |-> NextStamp(view.known[c], now)]), view, editor)
  BY DEF PersistCategoryOrder
<1> DEFINE moved == {c \in DOMAIN at : view.known[c].order # at[c]}
           stamps == [c \in moved |-> NextStamp(view.known[c], now)]
<1>2. db \in Store /\ view \in Windows /\ editor \in Editors /\ now \in Stamps
  BY ClockStamps DEF IInv, Typed
<1>3. DOMAIN view.known \in SUBSET Category /\ \A c \in DOMAIN view.known : view.known[c] \in Cat
  <2>1. view.known \in Knowns
    BY <1>2 DEF Windows
  <2> QED
    BY <2>1, ListsParts
<1>4. \A c \in moved : db.cats[c] # None /\ at[c] \in Nat
  <2>1. Cardinality(DOMAIN view.known) \in Nat
    BY <1>3, CatCounts
  <2> QED
    BY <1>1, <2>1 DEF IInv, Typed, Held
<1>5. \A c \in moved : stamps[c] \in Stamps
  <2> SUFFICES ASSUME NEW c \in moved
               PROVE  NextStamp(view.known[c], now) \in Stamps
    OBVIOUS
  <2>1. view.known[c].stamp \in 0..MaxStamp /\ view.known[c].stamp < MaxStamp
    BY <1>1, <1>3, BoundsAssumption DEF Cat
  <2> QED
    BY <1>2, <2>1, NextStampType
<1>6. moved \in SUBSET Category
  BY <1>3
<1>7. Saves(UpdateSortOrder(db, moved, at, stamps), view, editor) /\ Acts /\ UNCHANGED dialog
  BY <1>1 DEF PersistCategoryOrder, Clickable
<1> HIDE DEF moved, stamps
<1>8. Keeps(db, UpdateSortOrder(db, moved, at, stamps))
  BY <1>2, <1>4, <1>5, <1>6, UpdateSortOrderKeeps
<1> QED
  BY <1>2, <1>7, <1>8, SavedKeeping

\* The star patched into the copies is what the table has then.
LEMMA PatchedShows ==
  ASSUME IInv, NEW e \in Live(db), NEW fav \in BOOLEAN
  PROVE  LET v == Patched(e, fav)
             s == SetFavorite(db, e, fav, now)
         IN  /\ v \in Windows /\ v.behind = view.behind /\ v.known = view.known
             /\ Shown(view, db) /\ (s = db \/ view.section # "favorites") => Shown(v, s)
<1> DEFINE v == Patched(e, fav)
           s == SetFavorite(db, e, fav, now)
           L == [f \in DOMAIN view.list |-> IF f = e THEN [view.list[f] EXCEPT !.fav = fav] ELSE view.list[f]]
           d == IF view.detail.id = e THEN [view.detail EXCEPT !.row.fav = fav] ELSE view.detail
<1>1. db \in Store /\ view \in Windows /\ now \in Stamps /\ e \in Entry /\ db.rows[e] \in Row /\ db.rows[e] # None
  BY ClockStamps, StoreParts DEF IInv, Typed, Live
<1>2. view.list \in Lists /\ view.detail \in {NoDetail} \cup [id : Entry, row : Row] /\ NoDetail.id \notin Entry
  BY <1>1, IdsAssumption DEF Windows, NoDetail
<1>3. L \in Lists
  <2>1. PICK E \in SUBSET Entry : view.list \in [E -> Row]
    BY <1>2 DEF Lists
  <2>2. L \in [E -> Row]
    BY <2>1 DEF Row
  <2> QED
    BY <2>2 DEF Lists
<1>4. /\ d \in {NoDetail} \cup [id : Entry, row : Row]
      /\ d = NoDetail <=> view.detail = NoDetail
      /\ d # NoDetail => /\ d.id = view.detail.id
                         /\ d.id # e => d.row = view.detail.row
                         /\ d.id = e => d.row = [view.detail.row EXCEPT !.fav = fav] /\ view.detail.row \in Row
  <2>1. CASE view.detail = NoDetail
    BY <1>1, <1>2, <2>1
  <2>2. CASE view.detail \in [id : Entry, row : Row]
    <3>1. CASE view.detail.id # e
      BY <1>1, <1>2, <2>2, <3>1
    <3>2. CASE view.detail.id = e
      <4> DEFINE r == [view.detail.row EXCEPT !.fav = fav]
      <4>1. r \in Row
        BY <2>2 DEF Row
      <4>2. d = [view.detail EXCEPT !.row = r]
        BY <3>2
      <4> HIDE DEF r
      <4>3. d \in [id : Entry, row : Row] /\ d.id = e /\ d.row = r
        BY <2>2, <3>2, <4>1, <4>2
      <4> QED
        BY <1>1, <1>2, <2>2, <3>2, <4>3 DEF r
    <3> QED
      BY <3>1, <3>2
  <2> QED
    BY <1>2, <2>1, <2>2
<1>5. v = [view EXCEPT !.list = L, !.detail = d]
  BY DEF Patched
<1>6. /\ \A f \in Entry : /\ s.rows[f] # None <=> db.rows[f] # None
                          /\ f # e => s.rows[f] = db.rows[f]
      /\ s.rows[e].text = db.rows[e].text /\ s.rows[e].cat = db.rows[e].cat /\ s.rows[e].del = db.rows[e].del
      /\ s.rows[e].fav = fav /\ s.cats = db.cats
  <2>1. CASE db.rows[e].fav = fav
    BY <2>1 DEF SetFavorite
  <2>2. CASE db.rows[e].fav # fav
    <3> DEFINE row == [db.rows[e] EXCEPT !.fav = fav, !.stamp = NextStamp(db.rows[e], now)]
    <3>1. s = [db EXCEPT !.rows[e] = row]
      BY <1>1, <2>2 DEF SetFavorite, Store, Row
    <3>2. /\ row.text = db.rows[e].text /\ row.cat = db.rows[e].cat /\ row.del = db.rows[e].del /\ row.fav = fav
          /\ row # None
      BY <1>1 DEF Row, None
    <3> HIDE DEF row
    <3>3. s.cats = db.cats /\ s.rows[e] = row /\ \A f \in Entry : f # e => s.rows[f] = db.rows[f]
      BY <1>1, <3>1 DEF Store
    <3> QED
      BY <1>1, <3>2, <3>3
  <2> QED
    BY <2>1, <2>2
<1>7. /\ DOMAIN L = DOMAIN view.list
      /\ \A f \in DOMAIN L : f # e => L[f] = view.list[f]
      /\ e \in DOMAIN L => L[e] = [view.list[e] EXCEPT !.fav = fav] /\ view.list[e] \in Row
  BY <1>2, ListsParts
<1> HIDE DEF L, d, s
<1>8. /\ v \in Windows /\ v.behind = view.behind /\ v.known = view.known
      /\ v.list = L /\ v.detail = d /\ v.section = view.section
  BY <1>1, <1>3, <1>4, <1>5 DEF Windows
<1> HIDE DEF v
<1>9. s = db \/ view.section # "favorites" => InSection(s, view.section) = InSection(db, view.section)
  BY <1>6 DEF InSection, Live, Trash
<1>10. ASSUME Shown(view, db), s = db \/ view.section # "favorites"
       PROVE  Shown(v, s)
  <2>1. \A f \in DOMAIN L : Seen(L[f]) = Seen(s.rows[f])
    <3> SUFFICES ASSUME NEW f \in DOMAIN L
                 PROVE  Seen(L[f]) = Seen(s.rows[f])
      OBVIOUS
    <3>1. f \in Entry /\ Seen(view.list[f]) = Seen(db.rows[f])
      BY <1>2, <1>7, <1>10, ListsParts DEF Shown
    <3>2. CASE f = e
      BY <1>6, <1>7, <3>1, <3>2 DEF Seen, Row
    <3>3. CASE f # e
      BY <1>6, <1>7, <3>1, <3>3
    <3> QED
      BY <3>2, <3>3
  <2>2. v.known = Known(s)
    BY <1>6, <1>8, <1>10 DEF Shown, Known, LiveCats
  <2>3. d # NoDetail => /\ s.rows[d.id] # None /\ s.rows[d.id].del = (view.section = "trash")
                        /\ Seen(d.row) = Seen(s.rows[d.id])
    <3> SUFFICES ASSUME d # NoDetail
                 PROVE  /\ s.rows[d.id] # None /\ s.rows[d.id].del = (view.section = "trash")
                        /\ Seen(d.row) = Seen(s.rows[d.id])
      OBVIOUS
    <3>1. /\ d.id \in Entry /\ db.rows[d.id] # None /\ db.rows[d.id].del = (view.section = "trash")
          /\ Seen(view.detail.row) = Seen(db.rows[d.id])
      BY <1>4, <1>10 DEF Shown
    <3>2. CASE d.id = e
      BY <1>4, <1>6, <3>1, <3>2 DEF Seen, Row
    <3>3. CASE d.id # e
      BY <1>4, <1>6, <3>1, <3>3
    <3> QED
      BY <3>2, <3>3
  <2>4. DOMAIN L = InSection(s, view.section)
    BY <1>7, <1>9, <1>10 DEF Shown
  <2> QED
    BY <1>8, <2>1, <2>2, <2>3, <2>4 DEF Shown
<1> QED
  BY <1>8, <1>10 DEF v, s

LEMMA ToggleFavoriteKept ==
  ASSUME IInv, NEW e \in Entry, ToggleFavorite(e)
  PROVE  Kept
<1>1. PICK fav \in BOOLEAN :
        IF fav = db.rows[e].fav THEN view' = Patched(e, fav) /\ UNCHANGED <<db, editor>>
        ELSE /\ db' = SetFavorite(db, e, fav, now)
             /\ IF view.section = "favorites" THEN Shows(db', Patched(e, fav), editor)
                                              ELSE view' = Patched(e, fav) /\ UNCHANGED editor
  BY DEF ToggleFavorite
<1>2. /\ db \in Store /\ view \in Windows /\ editor \in Editors /\ now \in Stamps /\ Held
      /\ view.behind \/ Shown(view, db)
      /\ e \in Live(db) /\ db.rows[e].stamp < MaxStamp /\ db.rows[e] # None
      /\ UNCHANGED <<now, cloud, dialog, sync, others>> /\ Acts /\ acts' \in 0..MaxActs
  BY ClockStamps, Current, ActsType DEF IInv, Typed, ToggleFavorite, Clickable, Stampable, Live
<1> DEFINE s == SetFavorite(db, e, fav, now)
<1>3. Keeps(db, s)
  BY <1>2, SetFavoriteKeeps
<1>4. CASE fav = db.rows[e].fav
  <2>1. s = db
    BY <1>4 DEF SetFavorite
  <2>2. /\ view' \in Windows /\ view'.behind = view.behind /\ view'.known = view.known
        /\ view'.behind \/ Shown(view', db)
    BY <1>1, <1>2, <1>4, <2>1, PatchedShows
  <2>3. Bounds'
    BY <1>2 DEF IInv, Typed, Bounds
  <2> QED
    BY <1>1, <1>2, <1>4, <2>2, <2>3, Untouched DEF IInv, Typed, Held
<1>5. CASE fav # db.rows[e].fav /\ view.section = "favorites"
  <2>1. Saves(s, Patched(e, fav), editor)
    BY <1>1, <1>2, <1>5 DEF Saves
  <2> QED
    BY <1>2, <1>3, <2>1, PatchedShows, SavedKeeping
<1>6. CASE fav # db.rows[e].fav /\ view.section # "favorites"
  <2>1. db' = s /\ view' = Patched(e, fav) /\ UNCHANGED editor
    BY <1>1, <1>6
  <2>2. /\ view' \in Windows /\ view'.behind = view.behind /\ view'.known = view.known
        /\ view'.behind \/ Shown(view', s)
    BY <1>2, <1>6, <2>1, PatchedShows
  <2>3. s \in Store /\ CatsKept(db, s) /\ RowsKept(db, s) /\ s.cats = db.cats
    BY <1>3, <1>2 DEF Keeps, SetFavorite, Store
  <2> HIDE DEF s
  <2>4. Held'
    BY <1>2, <2>1, <2>2, <2>3 DEF Held, RowsKept, IInv, Typed, Editors, Dialogs
  <2>5. Typed'
    BY <1>2, <2>1, <2>2, <2>3, <2>4 DEF IInv, Typed, Bounds
  <2>6. ViewIsCurrent'
    BY <2>1, <2>2 DEF ViewIsCurrent, Shown
  <2>7. EditorOffersLive'
    BY <2>1, <2>2, <2>3 DEF IInv, EditorOffersLive, LiveCats
  <2>8. Confirmed /\ Wins
    BY <2>1, <2>3 DEF Confirmed, Wins, CatsKept, RowsKept, LiveCats
  <2> QED
    BY <2>5, <2>6, <2>7, <2>8 DEF Kept, IInv
<1> QED
  BY <1>4, <1>5, <1>6

\* The editor and the dialog lose what the tables s have lost.
LEMMA WithoutForgotten ==
  ASSUME IInv, NEW s \in Store, CatsKept(db, s)
  PROVE  LET ed == EditorWithout(Forgotten(s))
             d == DialogWithout(Forgotten(s))
         IN  /\ ed \in Editors /\ ed.open = editor.open /\ ed.cat = editor.cat
             /\ ed.id \in Entry => s.rows[ed.id] # None
             /\ d \in Dialogs /\ \A e \in d.ids : s.rows[e] # None
             /\ d.kind = "deleteCategory" => s.cats[d.cat] # None
<1> DEFINE E == Forgotten(s)
           ed == EditorWithout(E)
           d == DialogWithout(E)
<1>1. /\ editor \in Editors /\ dialog \in Dialogs /\ Held
      /\ \A e \in Entry : db.rows[e] # None /\ e \notin E => s.rows[e] # None
  BY DEF IInv, Typed, Forgotten
<1> HIDE DEF E
<1>2. /\ ed \in Editors /\ ed.open = editor.open /\ ed.cat = editor.cat
      /\ ed.id \in Entry => s.rows[ed.id] # None
  <2>1. CASE editor.id \in E
    <3>1. ed \in Editors /\ ed.open = editor.open /\ ed.cat = editor.cat /\ ed.id = "dead"
      BY <1>1, <2>1 DEF EditorWithout, Editors
    <3> QED
      BY <3>1, IdsAssumption
  <2>2. CASE editor.id \notin E
    BY <1>1, <2>2 DEF EditorWithout, Held
  <2> QED
    BY <2>1, <2>2
<1>3. d = [dialog EXCEPT !.ids = dialog.ids \ E]
  BY DEF DialogWithout
<1>4. d \in Dialogs /\ d.ids = dialog.ids \ E /\ d.kind = dialog.kind
      /\ (d.kind = "deleteCategory" => d.cat = dialog.cat /\ d.cat \in Category)
  BY <1>1, <1>3 DEF Dialogs
<1>5. dialog.ids \subseteq Entry
  BY <1>1 DEF Dialogs
<1>6. /\ \A e \in d.ids : s.rows[e] # None
      /\ d.kind = "deleteCategory" => s.cats[d.cat] # None
  BY <1>1, <1>4, <1>5 DEF Held, CatsKept
<1> QED
  BY <1>2, <1>4, <1>6 DEF E

LEMMA PermanentlyDeleteKept ==
  ASSUME IInv, PermanentlyDeleteEntries
  PROVE  Kept
<1> DEFINE s == BulkPermanentlyDelete(db, dialog.ids, now)
           ed == EditorWithout(Forgotten(s))
<1>1. /\ dialog.kind = "purge" /\ dialog' = NoDialog /\ Acts
      /\ db' = s /\ Shows(s, view, ed) /\ UNCHANGED <<now, cloud, sync, others>>
  BY DEF PermanentlyDeleteEntries, Accepts, Saves
<1>2. db \in Store /\ view \in Windows /\ now \in Stamps
  BY ClockStamps DEF IInv, Typed
<1>3. /\ s \in Store /\ s.cats = db.cats
      /\ \A e \in Entry : IF e \in dialog.ids \cap Trash(db)
                          THEN s.rows[e] = None /\ s.marks[e] >= db.rows[e].stamp
                          ELSE s.rows[e] = db.rows[e]
  BY <1>2, BulkPermanentlyDeleteRemoves
<1> HIDE DEF s
<1>4. CatsKept(db, s)
  BY <1>2, <1>3, StoreParts DEF CatsKept
<1>5. ed.id \in Entry => s.rows[ed.id] # None
  BY <1>3, <1>4, WithoutForgotten
<1>6. ed \in Editors
  BY <1>3, <1>4, WithoutForgotten
<1> HIDE DEF ed
<1>7. /\ view' \in Windows /\ ~view'.behind /\ view'.known = Known(s) /\ Shown(view', s)
      /\ editor' \in Editors /\ editor'.id = ed.id
      /\ editor'.cat \in {Uncategorized} \cup LiveCats(s)
  BY <1>1, <1>2, <1>3, <1>6, ShowsLoads
<1>8. Typed'
  <2>1. \A c \in DOMAIN view'.known : s.cats[c] # None
    BY <1>3, <1>7, KnownStays
  <2>2. Held'
    BY <1>1, <1>5, <1>6, <1>7, <2>1, NoDialogType DEF Held
  <2> QED
    BY <1>1, <1>3, <1>7, <2>2, NoDialogType, ActsType DEF IInv, Typed, Bounds
<1>9. ViewIsCurrent' /\ EditorOffersLive'
  BY <1>1, <1>7 DEF ViewIsCurrent, Shown, EditorOffersLive
<1>10. Confirmed /\ Wins
  <2>1. Confirmed
    BY <1>1, <1>3 DEF Confirmed, Trash
  <2>2. Wins
    BY <1>1, <1>3 DEF Wins
  <2> QED
    BY <2>1, <2>2
<1> QED
  BY <1>8, <1>9, <1>10 DEF Kept, IInv

\* The tables an import makes of t: rows are added or overwritten, none goes.
LEMMA ImportedKeeps ==
  ASSUME IInv, dialog.kind = "import", NEW t \in ImportTables \cup {db},
         NEW ids \in SUBSET dialog.ids, NEW new \in SUBSET Entry, \A e \in new : db.rows[e] = None,
         NEW s \in Imported(t, ids, new)
  PROVE  s \in Store /\ CatsKept(db, s) /\ \A e \in Entry : db.rows[e] # None => s.rows[e] # None
<1>1. db \in Store /\ now \in Stamps /\ dialog \in Dialogs /\ Held
  BY ClockStamps DEF IInv, Typed
<1>2. dialog.ids \in SUBSET Entry /\ dialog.name \in Name
  BY <1>1 DEF Dialogs
<1>3. t \in Store /\ CatsKept(db, t) /\ t.rows = db.rows /\ t.marks = db.marks
  <2>1. CASE t = db
    BY <1>1, <2>1, StoreParts DEF CatsKept
  <2>2. ASSUME NEW c \in Category, UnusedCategory(c), t = WithNewCategory(db, c)
        PROVE  t \in Store /\ CatsKept(db, t) /\ t.rows = db.rows /\ t.marks = db.marks
    <3> DEFINE cat == [name |-> dialog.name, order |-> Cardinality(LiveCats(db)), created |-> now,
                       del |-> FALSE, stamp |-> now]
    <3>1. cat \in Cat
      BY <1>1, <1>2, CatCounts DEF Cat, Stamps, LiveCats
    <3>2. db.cats[c] = None /\ t = InsertCategory(db, c, cat)
      BY <2>2 DEF UnusedCategory, WithNewCategory
    <3> HIDE DEF cat
    <3>3. Keeps(db, t) /\ t.rows = db.rows
      BY <1>1, <3>1, <3>2, InsertCategoryKeeps
    <3>4. t.marks = db.marks
      BY <1>1, <3>2 DEF InsertCategory, Store
    <3> QED
      BY <3>3, <3>4 DEF Keeps
  <2> QED
    BY <2>1, <2>2 DEF ImportTables
<1>4. PICK x \in Text, cat \in Category \cup {Uncategorized} :
        s = Overwritten(t, ids, new, x, cat)
  BY DEF Imported, Named, LiveCats
<1> DEFINE R == [e \in Entry |->
               IF e \in ids THEN [t.rows[e] EXCEPT !.text = x, !.cat = cat, !.stamp = now]
               ELSE IF e \in new THEN [text |-> x, cat |-> cat, fav |-> FALSE, del |-> FALSE, stamp |-> now]
               ELSE t.rows[e]]
<1>5. \A e \in ids : e \in Entry /\ t.rows[e] \in Row
  BY <1>1, <1>2, <1>3, StoreParts DEF Held
<1>6. \A e \in Entry : /\ R[e] \in Row \cup {None}
                       /\ t.rows[e] # None => R[e] # None
  <2> SUFFICES ASSUME NEW e \in Entry
               PROVE  R[e] \in Row \cup {None} /\ (t.rows[e] # None => R[e] # None)
    OBVIOUS
  <2>1. \A r \in Row : r # None
    BY BoundsAssumption DEF Row, None
  <2>2. CASE e \in ids
    BY <1>1, <1>5, <2>1, <2>2 DEF Row, Stamps
  <2>3. CASE e \notin ids /\ e \in new
    BY <1>1, <2>1, <2>3 DEF Row, Stamps
  <2>4. CASE e \notin ids /\ e \notin new
    BY <1>3, <2>4, StoreParts
  <2> QED
    BY <2>2, <2>3, <2>4
<1>7. s = [t EXCEPT !.rows = R]
  BY <1>4 DEF Overwritten
<1>8. R \in [Entry -> Row \cup {None}]
  BY <1>6
<1> HIDE DEF R
<1>9. s \in Store /\ s.rows = R /\ s.cats = t.cats
  BY <1>3, <1>7, <1>8 DEF Store
<1> QED
  BY <1>3, <1>6, <1>9 DEF CatsKept

LEMMA ImportKept ==
  ASSUME IInv, Import \/ ImportFails
  PROVE  Kept
<1>1. db \in Store /\ view \in Windows /\ editor \in Editors /\ Held
  BY DEF IInv, Typed
<1>2. CASE Import
  <2>1. dialog.kind = "import" /\ dialog' = NoDialog /\ Acts
    BY <1>2 DEF Import, Accepts
  <2>2. PICK t \in ImportTables :
          \E new \in IF dialog.new THEN {{e} : e \in {f \in Entry : Fresh(f)}} ELSE {{}} :
          \E s \in Imported(t, dialog.ids, new) : Saves(s, view, editor)
    BY <1>2 DEF Import
  <2>3. PICK new \in SUBSET Entry :
          /\ \A e \in new : db.rows[e] = None
          /\ \E s \in Imported(t, dialog.ids, new) : Saves(s, view, editor)
    BY <2>2 DEF Fresh
  <2> PICK s \in Imported(t, dialog.ids, new) : Saves(s, view, editor)
    BY <2>3
  <2>4. s \in Store /\ CatsKept(db, s) /\ \A e \in Entry : db.rows[e] # None => s.rows[e] # None
    BY <2>1, <2>3, ImportedKeeps
  <2> QED
    BY <1>1, <2>1, <2>4, ActsType, Saved
<1>3. CASE ImportFails
  <2>1. /\ dialog.kind = "import" /\ dialog' = NoDialog /\ Acts /\ view' = [view EXCEPT !.behind = TRUE]
        /\ UNCHANGED <<now, cloud, editor, sync, others>>
    BY <1>3 DEF ImportFails, Accepts
  <2>2. db' \in Store /\ CatsKept(db, db') /\ \A e \in Entry : db.rows[e] # None => db'.rows[e] # None
    <3>1. PICK t \in ImportTables \cup {db}, done \in SUBSET dialog.ids : db' \in Imported(t, done, {})
      BY <1>3 DEF ImportFails
    <3> QED
      BY <2>1, <3>1, ImportedKeeps
  <2>3. view' \in Windows /\ view'.behind /\ view'.known = view.known
    BY <1>1, <2>1 DEF Windows
  <2>4. Held'
    BY <1>1, <2>1, <2>2, <2>3, NoDialogType, ListsParts DEF Held, CatsKept, Editors, Windows
  <2>5. Typed'
    BY <2>1, <2>2, <2>3, <2>4, NoDialogType, ActsType DEF IInv, Typed, Bounds
  <2>6. ViewIsCurrent' /\ EditorOffersLive' /\ Confirmed
    BY <2>2, <2>3 DEF ViewIsCurrent, EditorOffersLive, Confirmed
  <2>7. Wins
    BY <2>1, <2>2 DEF Wins, CatsKept, LiveCats
  <2> QED
    BY <2>5, <2>6, <2>7 DEF Kept, IInv
<1> QED
  BY <1>2, <1>3

-----------------------------------------------------------------------------
(* The synchronisation and the other devices.                               *)

LEMMA IdleType == Nothing \in Store /\ Idle \in Runs
<1>1. Nothing \in Store
  BY BoundsAssumption DEF Nothing, Store
<1> QED
  BY <1>1, BoundsAssumption DEF Idle, Runs

\* A run that ends with the tables s.
LEMMA Finished ==
  ASSUME IInv, NEW s \in Store, NEW ed \in Editors, Finishes(s, ed), db' = s, cloud' \in Store, UNCHANGED <<now, bounds>>,
         ed.id \in Entry => s.rows[ed.id] # None,
         dialog' \in Dialogs, \A e \in dialog'.ids : s.rows[e] # None,
         dialog'.kind = "deleteCategory" => s.cats[dialog'.cat] # None
  PROVE  IInv'
<1>1. view \in Windows /\ sync' = Idle /\ Shows(s, view, ed)
  BY DEF IInv, Typed, Finishes
<1>2. /\ view' \in Windows /\ ~view'.behind /\ view'.known = Known(s) /\ Shown(view', s)
      /\ editor' \in Editors /\ editor'.id = ed.id /\ editor'.cat \in {Uncategorized} \cup LiveCats(s)
  BY <1>1, ShowsLoads
<1>3. \A c \in DOMAIN view'.known : s.cats[c] # None
  BY <1>2, KnownStays
<1>4. Held'
  BY <1>2, <1>3 DEF Held
<1>5. Typed'
  BY <1>1, <1>2, <1>4, IdleType DEF IInv, Typed, Bounds, bounds
<1>6. ViewIsCurrent' /\ EditorOffersLive'
  BY <1>2 DEF ViewIsCurrent, Shown, EditorOffersLive
<1> QED
  BY <1>5, <1>6 DEF IInv

LEMMA ReadReturnsKept ==
  ASSUME IInv, ReadReturns
  PROVE  Kept
<1>t. db \in Store /\ cloud \in Store /\ sync \in Runs /\ sync.snap \in Store /\ now \in Stamps /\ view \in Windows
  BY ClockStamps DEF IInv, Typed, Runs
<1> DEFINE m == WithEntries(WithCategories(db, sync.snap, cloud), sync.snap, cloud)
<1>1. PICK w \in Winners(m) :
        LET s == Deduplicated(m, w, now) IN
        /\ db' = s /\ dialog' = DialogWithout(Forgotten(s))
        /\ \/ /\ sync' = [sync EXCEPT !.phase = "upload", !.snap = Nothing, !.payload = s]
              /\ view' = [view EXCEPT !.behind = TRUE] /\ editor' = EditorWithout(Forgotten(s))
           \/ Finishes(s, EditorWithout(Forgotten(s)))
  BY DEF ReadReturns
<1> DEFINE s == Deduplicated(m, w, now)
           ed == EditorWithout(Forgotten(s))
<1>2. /\ s \in Store /\ CatsKept(db, s)
      /\ \A e \in Entry : db.rows[e] # None =>
           /\ s.rows[e] = None => s.marks[e] > db.rows[e].stamp
           /\ s.rows[e] # None /\ <<s.rows[e].text, s.rows[e].fav>> # <<db.rows[e].text, db.rows[e].fav>> =>
                \/ s.rows[e].stamp > db.rows[e].stamp
                \/ s.rows[e].stamp = now /\ Doubled(WithCategories(db, sync.snap, cloud)) # {}
  BY <1>t, RunMerges
<1>3. sync.phase = "read" /\ UNCHANGED <<now, cloud, bounds>>
  BY DEF ReadReturns
<1>4. db' = s /\ dialog' = DialogWithout(Forgotten(s))
  BY <1>1
<1>5. \/ /\ sync' = [sync EXCEPT !.phase = "upload", !.snap = Nothing, !.payload = s]
         /\ view' = [view EXCEPT !.behind = TRUE] /\ editor' = ed
      \/ Finishes(s, ed)
  BY <1>1
<1>6. /\ ed \in Editors
      /\ ed.id \in Entry => s.rows[ed.id] # None
      /\ dialog' \in Dialogs /\ \A e \in dialog'.ids : s.rows[e] # None
      /\ dialog'.kind = "deleteCategory" => s.cats[dialog'.cat] # None
  BY <1>2, <1>4, WithoutForgotten
<1> HIDE DEF s, ed, m
<1>7. Confirmed /\ Wins
  BY <1>2, <1>3, <1>4 DEF Confirmed, Wins, CatsKept, LiveCats
<1>8. CASE Finishes(s, ed)
  BY <1>t, <1>2, <1>3, <1>4, <1>6, <1>7, <1>8, Finished DEF Kept
<1>9. CASE /\ sync' = [sync EXCEPT !.phase = "upload", !.snap = Nothing, !.payload = s]
           /\ view' = [view EXCEPT !.behind = TRUE] /\ editor' = ed
  <2>1. sync' \in Runs
    BY <1>t, <1>2, <1>9, IdleType DEF Runs
  <2>2. view' \in Windows /\ view'.behind /\ view'.known = view.known /\ DOMAIN view.known \subseteq Category
    BY <1>t, <1>9, ListsParts DEF Windows
  <2>3. Held'
    BY <1>2, <1>4, <1>6, <1>9, <2>2 DEF Held, CatsKept, IInv, Typed
  <2>4. Typed'
    BY <1>t, <1>2, <1>3, <1>4, <1>6, <1>9, <2>1, <2>2, <2>3 DEF IInv, Typed, Bounds, bounds
  <2>5. ViewIsCurrent' /\ EditorOffersLive'
    BY <2>2 DEF ViewIsCurrent, EditorOffersLive
  <2> QED
    BY <1>7, <2>4, <2>5 DEF Kept, IInv
<1> QED
  BY <1>5, <1>8, <1>9

LEMMA RunKept ==
  ASSUME IInv, StartSync \/ ReadFails \/ UploadReturns \/ VersionMismatch \/ UploadFails
  PROVE  Kept
<1>t. /\ db \in Store /\ cloud \in Store /\ sync \in Runs /\ view \in Windows /\ editor \in Editors
      /\ dialog \in Dialogs /\ Held /\ sync.snap \in Store /\ sync.payload \in Store
      /\ view.behind \/ Shown(view, db)
  BY Current DEF IInv, Typed, Runs
<1>1. CASE StartSync
  <2>1. sync' \in Runs
    <3>1. 1 \in 0..MaxTries
      BY BoundsAssumption
    <3> QED
      BY <1>1, <1>t, <3>1, IdleType DEF StartSync, Runs
  <2>2. Bounds' /\ UNCHANGED <<db, cloud, view, editor, dialog>>
    BY <1>1 DEF StartSync, IInv, Typed, Bounds, bounds
  <2> QED
    BY <1>t, <2>1, <2>2, Untouched DEF Held
<1>2. CASE ReadFails
  <2>1. Keeps(db, db')
    <3>1. db' = db \/ db' = WithCategories(db, sync.snap, cloud)
      BY <1>2 DEF ReadFails
    <3>2. Keeps(db, db)
      BY <1>t, StoreParts DEF Keeps, CatsKept, RowsKept
    <3> QED
      BY <1>t, <3>1, <3>2, WithCategoriesKeeps
  <2>2. Finishes(db', editor) /\ UNCHANGED <<now, cloud, dialog, bounds>>
    BY <1>2 DEF ReadFails
  <2>3. /\ editor.id \in Entry => db'.rows[editor.id] # None
        /\ \A e \in dialog.ids : db'.rows[e] # None
        /\ dialog.kind = "deleteCategory" => db'.cats[dialog.cat] # None
    BY <1>t, <2>1 DEF Held, Keeps, CatsKept, RowsKept, Dialogs
  <2>4. IInv'
    BY <1>t, <2>1, <2>2, <2>3, Finished DEF Keeps
  <2>5. Confirmed /\ Wins
    BY <2>1 DEF Confirmed, Wins, Keeps, CatsKept, RowsKept, LiveCats
  <2> QED
    BY <2>4, <2>5 DEF Kept
<1>3. ASSUME Finishes(db, editor), UNCHANGED <<now, db, dialog, bounds>>, cloud' \in Store
      PROVE  Kept
  <2>1. IInv'
    BY <1>t, <1>3, Finished DEF Held
  <2>2. Confirmed /\ Wins
    BY <1>3 DEF Confirmed, Wins
  <2> QED
    BY <2>1, <2>2 DEF Kept
<1>4. CASE UploadReturns
  BY <1>t, <1>3, <1>4 DEF UploadReturns
<1>5. CASE UploadFails
  BY <1>t, <1>3, <1>5 DEF UploadFails
<1>6. CASE VersionMismatch
  <2>1. CASE sync.tries = MaxTries
    BY <1>t, <1>3, <1>6, <2>1 DEF VersionMismatch
  <2>2. CASE sync.tries # MaxTries
    <3>1. sync.tries + 1 \in 0..MaxTries
      BY <1>t, <2>2, BoundsAssumption DEF Runs
    <3>2. sync' \in Runs /\ UNCHANGED <<db, cloud, view, editor, dialog>>
      BY <1>6, <1>t, <2>2, <3>1, IdleType DEF VersionMismatch, Runs
    <3>3. Bounds'
      BY <1>6 DEF VersionMismatch, IInv, Typed, Bounds, bounds
    <3> QED
      BY <1>t, <3>2, <3>3, Untouched DEF Held
  <2> QED
    BY <2>1, <2>2
<1> QED
  BY <1>1, <1>2, <1>4, <1>5, <1>6

LEMMA CloudKept ==
  ASSUME IInv, NEW s \in Store, CloudBecomes(s)
  PROVE  Kept
<1>t. /\ db \in Store /\ sync \in Runs /\ view \in Windows /\ editor \in Editors
      /\ dialog \in Dialogs /\ Held
      /\ view.behind \/ Shown(view, db)
  BY Current DEF IInv, Typed
<1> DEFINE moved == sync.phase = "upload"
<1>1. moved \in BOOLEAN /\ sync' = [sync EXCEPT !.moved = moved]
  BY DEF CloudBecomes
<1> HIDE DEF moved
<1>2. sync' \in Runs
  BY <1>t, <1>1 DEF Runs
<1>3. cloud' \in Store /\ UNCHANGED <<db, view, editor, dialog>>
  BY DEF CloudBecomes
<1>4. Bounds'
  BY BoundsAssumption DEF CloudBecomes, IInv, Typed, Bounds
<1> QED
  BY <1>t, <1>2, <1>3, <1>4, Untouched DEF Held

LEMMA OtherEntryKept ==
  ASSUME IInv, OtherChangesEntry
  PROVE  Kept
<1>t. cloud \in Store
  BY DEF IInv, Typed
<1>1. PICK e \in Entry, stamp \in 1..MaxStamp - 1 :
        \/ \E x \in Text : CloudBecomes([cloud EXCEPT !.rows[e] = [text |-> x, cat |-> Uncategorized, fav |-> FALSE,
                                                                  del |-> FALSE, stamp |-> stamp]])
        \/ /\ cloud.rows[e] # None
           /\ \E r \in {[cloud.rows[e] EXCEPT !.text = x] : x \in Text}
                   \cup {[cloud.rows[e] EXCEPT !.cat = c] : c \in LiveCats(cloud) \cup {Uncategorized}}
                   \cup {[cloud.rows[e] EXCEPT !.del = del] : del \in BOOLEAN} :
                CloudBecomes([cloud EXCEPT !.rows[e] = [r EXCEPT !.stamp = stamp]])
        \/ CloudBecomes(ApplyDeletionMarker(cloud, e, stamp))
  BY DEF OtherChangesEntry
<1>2. stamp \in Stamps
  BY BoundsAssumption DEF Stamps
<1>3. \A row \in Row : [cloud EXCEPT !.rows[e] = row] \in Store
  BY <1>t DEF Store
<1>4. CASE \E x \in Text : CloudBecomes([cloud EXCEPT !.rows[e] = [text |-> x, cat |-> Uncategorized, fav |-> FALSE,
                                                                   del |-> FALSE, stamp |-> stamp]])
  <2>1. \A x \in Text : [text |-> x, cat |-> Uncategorized, fav |-> FALSE, del |-> FALSE, stamp |-> stamp] \in Row
    BY <1>2 DEF Row, Stamps
  <2> QED
    BY <1>3, <1>4, <2>1, CloudKept
<1>5. ASSUME cloud.rows[e] # None,
             NEW r \in {[cloud.rows[e] EXCEPT !.text = x] : x \in Text}
                  \cup {[cloud.rows[e] EXCEPT !.cat = c] : c \in LiveCats(cloud) \cup {Uncategorized}}
                  \cup {[cloud.rows[e] EXCEPT !.del = del] : del \in BOOLEAN},
             CloudBecomes([cloud EXCEPT !.rows[e] = [r EXCEPT !.stamp = stamp]])
      PROVE  Kept
  <2>1. cloud.rows[e] \in Row
    BY <1>t, <1>5, StoreParts
  <2>2. r \in Row
    BY <2>1 DEF Row, LiveCats
  <2>3. [r EXCEPT !.stamp = stamp] \in Row
    BY <1>2, <2>2 DEF Row, Stamps
  <2> QED
    BY <1>3, <1>5, <2>3, CloudKept
<1>6. CASE CloudBecomes(ApplyDeletionMarker(cloud, e, stamp))
  <2>1. Later(cloud.marks[e], stamp) \in 0..MaxStamp
    BY <1>t, <1>2, StoreParts DEF Later, Stamps
  <2>2. ApplyDeletionMarker(cloud, e, stamp) \in Store
    BY <1>t, <2>1 DEF ApplyDeletionMarker, Store
  <2> QED
    BY <1>6, <2>2, CloudKept
<1> QED
  BY <1>1, <1>4, <1>5, <1>6

LEMMA OtherCategoryKept ==
  ASSUME IInv, OtherChangesCategory
  PROVE  Kept
<1>t. cloud \in Store
  BY DEF IInv, Typed
<1>1. PICK c \in Category, stamp \in 1..MaxStamp - 1 :
        \/ \E n \in Name : CloudBecomes([cloud EXCEPT !.cats[c] =
             [name |-> n, order |-> Cardinality(LiveCats(cloud)), created |-> stamp, del |-> FALSE, stamp |-> stamp]])
        \/ /\ c \in LiveCats(cloud)
           /\ \E n \in Name : CloudBecomes([cloud EXCEPT !.cats[c].name = n, !.cats[c].stamp = stamp])
        \/ /\ c \in LiveCats(cloud)
           /\ CloudBecomes(LogicalDelete(LogicalDeleteByCategory(cloud, c, stamp), c, stamp))
  BY DEF OtherChangesCategory
<1>2. stamp \in Stamps
  BY BoundsAssumption DEF Stamps
<1>3. \A cat \in Cat : [cloud EXCEPT !.cats[c] = cat] \in Store
  BY <1>t DEF Store
<1>4. c \in LiveCats(cloud) => cloud.cats[c] \in Cat /\ cloud.cats[c] # None
  BY <1>t, StoreParts DEF LiveCats
<1>5. ASSUME NEW n \in Name, CloudBecomes([cloud EXCEPT !.cats[c] =
        [name |-> n, order |-> Cardinality(LiveCats(cloud)), created |-> stamp, del |-> FALSE, stamp |-> stamp]])
      PROVE  Kept
  <2>1. [name |-> n, order |-> Cardinality(LiveCats(cloud)), created |-> stamp, del |-> FALSE, stamp |-> stamp] \in Cat
    BY <1>2, CatCounts DEF Cat, Stamps, LiveCats
  <2> QED
    BY <1>3, <1>5, <2>1, CloudKept
<1>6. ASSUME c \in LiveCats(cloud), NEW n \in Name, CloudBecomes([cloud EXCEPT !.cats[c].name = n, !.cats[c].stamp = stamp])
      PROVE  Kept
  <2> DEFINE cat == [cloud.cats[c] EXCEPT !.name = n, !.stamp = stamp]
  <2>1. cat \in Cat
    BY <1>2, <1>4, <1>6 DEF Cat, Stamps
  <2>2. [cloud EXCEPT !.cats[c].name = n, !.cats[c].stamp = stamp] = [cloud EXCEPT !.cats[c] = cat]
    BY <1>t, <1>4, <1>6 DEF Store, Cat
  <2> QED
    BY <1>3, <1>6, <2>1, <2>2, CloudKept
<1>7. CASE c \in LiveCats(cloud) /\ CloudBecomes(LogicalDelete(LogicalDeleteByCategory(cloud, c, stamp), c, stamp))
  <2> DEFINE a == LogicalDeleteByCategory(cloud, c, stamp)
  <2>1. a \in Store /\ a.cats[c] # None
    BY <1>t, <1>2, <1>4, <1>7, LogicalDeleteByCategoryKeeps DEF Keeps
  <2> HIDE DEF a
  <2>2. LogicalDelete(a, c, stamp) \in Store
    BY <1>2, <2>1, LogicalDeleteKeeps DEF Keeps
  <2> QED
    BY <1>7, <2>2, CloudKept DEF a
<1> QED
  BY <1>1, <1>5, <1>6, <1>7

-----------------------------------------------------------------------------
LEMMA Initially ==
  ASSUME Init
  PROVE  IInv
<1>1. db \in Store
  <2>1. PICK e \in Entry, c \in Category, n \in Name, x \in Text : db \in FirstTables(e, c, n, x)
    BY Zenon DEF Init
  <2>2. 1 \in 1..MaxStamp
    BY BoundsAssumption
  <2>3. FirstRow(x, c, FALSE) \in Row /\ FirstRow(x, c, TRUE) \in Row /\ FirstCat(n) \in Cat
    BY <2>2 DEF FirstRow, FirstCat, Row, Cat
  <2> DEFINE one == [Nothing EXCEPT !.rows[e] = FirstRow(x, c, FALSE), !.cats[c] = FirstCat(n)]
  <2>4. one \in Store
    BY <2>3, IdleType DEF Store
  <2>5. db = one \/ \E f \in Entry : db = [one EXCEPT !.rows[f] = FirstRow(x, c, TRUE)]
    BY <2>1 DEF FirstTables
  <2> HIDE DEF one
  <2> QED
    BY <2>3, <2>4, <2>5 DEF Store
<1>2. /\ cloud = db /\ editor = Shut(Uncategorized) /\ dialog = NoDialog /\ sync = Idle
      /\ now = 1 /\ acts = MaxActs /\ others = MaxOthers
  BY Zenon DEF Init
<1>3. /\ view \in Windows /\ view.detail = NoDetail /\ view.known = Known(db)
      /\ view.list = Listed(db, view.section)
  <2>1. PICK section \in Fixed \cup LiveCats(db) : view = Loaded(db, section)
    BY Zenon DEF Init
  <2>2. section \in Fixed \cup Category
    BY <2>1 DEF LiveCats
  <2> QED
    BY <1>1, <2>1, <2>2, ListedType, KnownType DEF Loaded, Windows
<1>4. Shown(view, db)
  BY <1>1, <1>3, ListedType DEF Shown, Listed
<1>5. editor \in Editors /\ ~editor.open /\ editor.id = "new"
  BY <1>2 DEF Shut, Editors
<1>6. Held
  BY <1>1, <1>2, <1>3, <1>5, KnownStays, NoDialogType, IdsAssumption DEF Held
<1>7. Bounds
  BY <1>2, BoundsAssumption DEF Bounds
<1>8. Typed
  BY <1>1, <1>2, <1>3, <1>5, <1>6, <1>7, NoDialogType, IdleType DEF Typed
<1> QED
  BY <1>4, <1>5, <1>8, Current DEF IInv, EditorOffersLive

LEMMA StepKept ==
  ASSUME IInv, [Next]_vars
  PROVE  Kept
<1>1. CASE Browses
  BY <1>1, LooksKept, DialogsKept DEF Browses
<1>2. CASE Changes
  BY <1>2, ToggleFavoriteKept, SaveNewKept, SaveEditedKept, AddCategoryKept, RenameCategoryKept, TrashKept,
     ChangeCategoriesKept, DeleteCategoryKept, PersistCategoryOrderKept, PermanentlyDeleteKept, ImportKept DEF Changes
<1>3. CASE Synchronises
  BY <1>3, ReadReturnsKept, RunKept DEF Synchronises
<1>4. CASE Tick \/ OtherChangesEntry \/ OtherChangesCategory
  BY <1>4, LooksKept, OtherEntryKept, OtherCategoryKept
<1>5. CASE UNCHANGED vars
  <2>1. IInv'
    BY <1>5 DEF vars, bounds, IInv, Typed, Bounds, Held, ViewIsCurrent, EditorOffersLive
  <2>2. Confirmed /\ Wins
    BY <1>5 DEF vars, Confirmed, Wins
  <2> QED
    BY <2>1, <2>2 DEF Kept
<1> QED
  BY <1>1, <1>2, <1>3, <1>4, <1>5 DEF Next

LEMMA Invariance == Spec => []IInv
<1>1. Init => IInv
  BY Initially
<1>2. IInv /\ [Next]_vars => IInv'
  BY StepKept DEF Kept
<1> QED
  BY <1>1, <1>2, PTL DEF Spec

LEMMA TypesHold ==
  ASSUME IInv
  PROVE  TypeOK
<1>1. /\ Bounds /\ db \in Store /\ cloud \in Store /\ sync \in Runs /\ Held
      /\ view \in Windows /\ editor \in Editors /\ dialog \in Dialogs
  BY DEF IInv, Typed
<1>2. dialog.ids \subseteq Entry
  BY <1>1 DEF Dialogs
<1>3. dialog.ids \subseteq Exists /\ editor.id \in {"new", "dead"} \cup Exists
  BY <1>1, <1>2 DEF Held, Editors, Exists
<1>4. /\ \A e \in DOMAIN view.list : view.list[e] \in Row
      /\ \A c \in DOMAIN view.known : view.known[c] \in Cat
  BY <1>1, ListsParts DEF Windows
<1>5. view.detail # NoDetail => view.detail.id \in Entry /\ view.detail.row \in Row
  BY <1>1 DEF Windows
<1>6. \A s \in {db, cloud, sync.snap, sync.payload} : s \in Store
  BY <1>1 DEF Runs
<1>7. editor.open \in BOOLEAN /\ editor.cat \in Category \cup {Uncategorized}
  BY <1>1 DEF Editors
<1>8. view.section \in Fixed \cup Category
  BY <1>1 DEF Windows
<1>9. sync.phase \in {"idle", "read", "upload"} /\ sync.tries \in 0..MaxTries
  BY <1>1 DEF Runs
<1> QED
  BY <1>1, <1>3, <1>4, <1>5, <1>6, <1>7, <1>8, <1>9 DEF TypeOK, Bounds

\* The step of a read that ends the run.
LEMMA NothingLeftOut ==
  ASSUME IInv, ReadReturns, sync'.phase = "idle"
  PROVE  /\ \A c \in Category :
              \/ db'.cats[c].stamp = cloud.cats[c].stamp
              \/ sync.snap.cats[c] = None /\ cloud.cats[c] = None
         /\ \A e \in Entry :
              \/ Item(db', e).stamp = Item(cloud, e).stamp
              \/ Item(db, e) # Item(sync.snap, e)
<1>t. db \in Store /\ cloud \in Store /\ sync \in Runs /\ sync.snap \in Store /\ now \in Stamps
  BY ClockStamps DEF IInv, Typed, Runs
<1> DEFINE a == WithCategories(db, sync.snap, cloud)
           m == WithEntries(a, sync.snap, cloud)
<1>1. PICK w \in Winners(m) :
        LET s == Deduplicated(m, w, now) IN
        /\ db' = s
        /\ \/ ~NeedUpload(db, sync.snap, cloud, s)
           \/ sync' = [sync EXCEPT !.phase = "upload", !.snap = Nothing, !.payload = s]
  BY DEF ReadReturns
<1> DEFINE s == Deduplicated(m, w, now)
<1>2. ~NeedUpload(db, sync.snap, cloud, s)
  <2>1. [sync EXCEPT !.phase = "upload", !.snap = Nothing, !.payload = s].phase = "upload"
    BY <1>t DEF Runs
  <2> QED
    BY <1>1, <2>1
<1>3. ~HasLocalChanges(sync.snap, cloud) /\ ~ChangedDuringSync(db, sync.snap, cloud) /\ Doubled(a) = {}
  BY <1>2 DEF NeedUpload
<1>4. a \in Store
  BY <1>t, WithCategoriesKeeps DEF Keeps
<1>5. m.cats = a.cats
  BY <1>t, <1>4, WithEntriesMerges
<1>6. s \in Store /\ s.marks = m.marks /\ s.rows = m.rows /\ s.cats = m.cats
  BY <1>t, <1>3, RunMerges
<1>7. db' = s
  BY <1>1
<1> HIDE DEF s
<1> QED
  BY <1>t, <1>3, <1>5, <1>6, <1>7, NothingToUpload

-----------------------------------------------------------------------------
(* The theorems.                                                            *)

\* What the tables, the window, the editor, a dialog and a run hold is of its
\* type, and the ids they hold are of rows that there are.
THEOREM WorkspaceTypes == Spec => []TypeOK
<1>1. IInv => TypeOK
  BY TypesHold
<1> QED
  BY <1>1, Invariance, PTL

\* RefreshPasswordList and Reload: the list, the detail panel and the categories
\* show what the tables hold, but while a run or a failed import is ahead.
THEOREM WindowIsCurrent == Spec => []ViewIsCurrent
<1>1. IInv => ViewIsCurrent
  BY DEF IInv
<1> QED
  BY <1>1, Invariance, PTL

\* FillCategoryCombo: an open editor never offers a category that has gone.
THEOREM EditorIsCurrent == Spec => []EditorOffersLive
<1>1. IInv => EditorOffersLive
  BY DEF IInv
<1> QED
  BY <1>1, Invariance, PTL

\* OnEmptyTrash, PermanentlyDeleteEntries and the merge: no row is removed but by
\* the dialog it was listed in or by a marker that is newer than the row.
THEOREM RemovalIsConfirmed == Spec => ConfirmedOnly
<1>1. IInv /\ [Next]_vars => [Confirmed]_vars
  BY StepKept DEF Kept
<1> QED
  BY <1>1, Invariance, PTL DEF Spec, ConfirmedOnly, Confirmed

\* The editor's save, the star and the write-back of a run: no entry or category
\* that stays changes but for a newer version.
THEOREM NewerVersionWins == Spec => NewerWins
<1>1. IInv /\ [Next]_vars => [Wins]_vars
  BY StepKept DEF Kept
<1> QED
  BY <1>1, Invariance, PTL DEF Spec, NewerWins, Wins

\* DoSyncOnce: a run that reports success without an upload leaves nothing out.
THEOREM SuccessLeavesNothingOut == Spec => SaysSynced
<1> DEFINE Body ==
      sync.phase = "read" /\ sync'.phase = "idle" /\ ReadReturns =>
        /\ \A c \in Category :
             \/ db'.cats[c].stamp = cloud.cats[c].stamp
             \/ sync.snap.cats[c] = None /\ cloud.cats[c] = None
        /\ \A e \in Entry :
             \/ Item(db', e).stamp = Item(cloud, e).stamp
             \/ Item(db, e) # Item(sync.snap, e)
<1>1. IInv => [Body]_vars
  BY NothingLeftOut
<1> QED
  BY <1>1, Invariance, PTL DEF Spec, SaysSynced, Body
=============================================================================
