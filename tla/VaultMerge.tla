----------------------------- MODULE VaultMerge -----------------------------
(***************************************************************************)
(* What DoSyncOnce (src/sync/sync_manager.cc) makes of the snapshot it took *)
(* before the download, the backup it read and the store as it is by then:  *)
(* the merge of categories and of entries, the write-back, the dedup of     *)
(* categories of one name, and whether there is anything to upload.         *)
(***************************************************************************)
EXTENDS VaultStore

\* One uuid's item: an entry's row or, with the text left out, its marker.
Item(s, e) ==
  IF s.marks[e] > 0 /\ s.marks[e] >= s.rows[e].stamp THEN [gone |-> TRUE, stamp |-> s.marks[e]]
  ELSE s.rows[e]

Gone(item) == "gone" \in DOMAIN item

\* MergeByUuid for one uuid: the newer, the local one when both are as new.
Newer(mine, theirs) == IF mine.stamp >= theirs.stamp THEN mine ELSE theirs

\* Step 4. A category that became newer during the download stays.
WithCategories(s, snap, cloud) ==
  [s EXCEPT !.cats = [c \in Category |->
     LET item == Newer(snap.cats[c], cloud.cats[c])
     IN  IF s.cats[c].stamp > item.stamp THEN s.cats[c] ELSE item]]

ChangedDuringSync(s, snap, cloud) ==
  \E c \in Category : /\ Newer(snap.cats[c], cloud.cats[c]) # None
                      /\ s.cats[c].stamp > Newer(snap.cats[c], cloud.cats[c]).stamp

\* Steps 5 and 6 for one entry; the category of a row is looked up in the
\* merged table.
WithEntry(s, e, item) ==
  IF item = None \/ (s.rows[e] # None /\ s.rows[e].stamp >= item.stamp) THEN s
  ELSE IF Gone(item) THEN ApplyDeletionMarker(s, e, item.stamp)
  ELSE ApplySyncedEntry(s, e, [item EXCEPT !.cat = IF @ \in Category /\ s.cats[@] # None THEN @
                                                   ELSE Uncategorized])

WithEntries(s, snap, cloud) ==
  LET After(e) == WithEntry(s, e, Newer(Item(snap, e), Item(cloud, e)))
  IN  [s EXCEPT !.rows = [e \in Entry |-> After(e).rows[e]],
                !.marks = [e \in Entry |-> After(e).marks[e]]]

\* Step 7. Of the live categories of one name the oldest stays; of several as
\* old as each other the one this device has had for longest, which can be any.
SameName(s, n) == {c \in LiveCats(s) : s.cats[c].name = n}
Doubled(s) == {n \in Name : Cardinality(SameName(s, n)) > 1}
Winners(s) ==
  {w \in [Doubled(s) -> Category] :
     \A n \in Doubled(s) : /\ w[n] \in SameName(s, n)
                           /\ \A c \in SameName(s, n) : s.cats[w[n]].created <= s.cats[c].created}
Losers(s, w) == UNION {SameName(s, n) \ {w[n]} : n \in Doubled(s)}

Deduplicated(s, w, now) ==
  [s EXCEPT
     !.rows = [e \in Entry |-> IF e \in Live(s) /\ s.rows[e].cat \in Losers(s, w)
                               THEN [s.rows[e] EXCEPT !.cat = w[s.cats[@].name], !.stamp = now]
                               ELSE s.rows[e]],
     !.cats = [c \in Category |-> IF c \in Losers(s, w) THEN [@[c] EXCEPT !.del = TRUE, !.stamp = now]
                                  ELSE @[c]]]

\* Step 9, from the snapshot, the backup, and the final state.
HasLocalChanges(snap, cloud) ==
  \/ \E c \in Category : snap.cats[c].stamp > cloud.cats[c].stamp
  \/ \E e \in Entry : Item(snap, e).stamp > Item(cloud, e).stamp

MarkersChanged(final, cloud) ==
  \E e \in Entry : final.marks[e] > 0 /\ (~Gone(Item(cloud, e)) \/ cloud.marks[e] # final.marks[e])

MutantNeedUpload(s, snap, cloud, final) ==
  HasLocalChanges(snap, cloud) \/ MarkersChanged(final, cloud) \/ Doubled(WithCategories(s, snap, cloud)) # {}

NeedUpload(s, snap, cloud, final) ==
  \/ HasLocalChanges(snap, cloud) \/ MarkersChanged(final, cloud)
  \/ ChangedDuringSync(s, snap, cloud)
  \/ Doubled(WithCategories(s, snap, cloud)) # {}
=============================================================================
