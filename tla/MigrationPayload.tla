-------------------------- MODULE MigrationPayload ---------------------------
(***************************************************************************)
(* The content of a change of the master password: what                     *)
(* PasswordChangeCoordinator makes of the rows it read and of the backup    *)
(* before it saves the journal. PasswordChange has the protocol, in which   *)
(* the snapshot is a set of entries under a key; here are the tables, their *)
(* merge with the backup, their new encryption and the bytes in the         *)
(* journal. Stores, items and files are those of BackupFile; a row also has *)
(* what no backup carries, its id and the package it belongs to, and a      *)
(* category whether it is a default one. A text that is a number is a JSON  *)
(* value [digits], a number that is no integer is [fraction].               *)
(***************************************************************************)
EXTENDS BackupFile
LOCAL INSTANCE SequencesExt
LOCAL INSTANCE FiniteSetsExt
LOCAL INSTANCE TLC

ByUuid(items) == [u \in {items[i].uuid : i \in DOMAIN items} |-> CHOOSE x \in ToSet(items) : x.uuid = u]
Distinct(items) == Cardinality({items[i].uuid : i \in DOMAIN items}) = Len(items)

-----------------------------------------------------------------------------
(* The rows as bytes: a count before each table, and its cells.             *)

EntryFields == <<"id", "uuid", "title", "secret", "iv", "package", "cat", "fav", "created", "stamp", "del">>
CategoryFields == <<"id", "uuid", "name", "default", "order", "created", "stamp", "del">>
MarkerFields == <<"uuid", "at">>

Cells(rows, fields) ==
  <<Len(rows)>> \o FlattenSeq([i \in DOMAIN rows |-> [f \in DOMAIN fields |-> rows[i][fields[f]]]])

SerializeSnapshot(s) ==
  Cells(s.entries, EntryFields) \o Cells(s.categories, CategoryFields) \o Cells(s.markers, MarkerFields)

\* A table at the head of the cells and what follows it. A stream that ends
\* early is bad.
Table(cells, fields) ==
  LET width == Len(fields)
      end == 1 + Head(cells) * width
      row(i) == SubSeq(cells, 2 + (i - 1) * width, 1 + i * width)
      named(cell) == [f \in ToSet(fields) |-> cell[CHOOSE k \in DOMAIN fields : fields[k] = f]]
  IN  IF cells = <<>> \/ Len(cells) < end THEN Refused
      ELSE [ok |-> TRUE, it |-> [i \in 1..Head(cells) |-> named(row(i))], rest |-> SubSeq(cells, end + 1, Len(cells))]

ParseSnapshot(cells) ==
  LET entries == Table(cells, EntryFields)
      categories == Table(entries.rest, CategoryFields)
      markers == Table(categories.rest, MarkerFields)
  IN  IF entries.ok /\ categories.ok /\ markers.ok /\ markers.rest = <<>>
      THEN Just([entries |-> entries.it, categories |-> categories.it, markers |-> markers.it]) ELSE Refused

-----------------------------------------------------------------------------
(* The rows as a payload. Nothing is left out or guessed: an empty or double *)
(* uuid, a category that has no row or a secret that does not open is an     *)
(* error.                                                                    *)

ToPayload(s, key) ==
  LET uuidOf == [i \in {0} \cup {s.categories[c].id : c \in DOMAIN s.categories} |->
                   IF i = 0 THEN "" ELSE (CHOOSE c \in ToSet(s.categories) : c.id = i).uuid]
      held == s.entries \o s.markers
      opens(e) == DecryptGcm(key, e.iv, e.secret).ok
      item(e) == PasswordEntryToSyncItem(e, uuidOf, key).it
  IN  IF /\ Distinct(s.categories) /\ \A c \in ToSet(s.categories) : HasUuid(c)
         /\ Distinct(held) /\ \A x \in ToSet(held) : HasUuid(x)
         /\ \A e \in ToSet(s.entries) : e.cat \in DOMAIN uuidOf /\ opens(e)
      THEN Just([version |-> PayloadVersion,
                 passwords |-> Mapped(s.entries, item)
                               \o Mapped(s.markers, LAMBDA m : DeletionMarkerToSyncItem(m.uuid, m.at)),
                 categories |-> Mapped(s.categories, CategoryToSyncItem)])
      ELSE Refused

ValidPayload(p) ==
  /\ Distinct(p.categories) /\ \A c \in ToSet(p.categories) : HasUuid(c)
  /\ Distinct(p.passwords)
  /\ \A x \in ToSet(p.passwords) :
       HasUuid(x) /\ x.categoryUuid \in {""} \cup {p.categories[c].uuid : c \in DOMAIN p.categories}

-----------------------------------------------------------------------------
(* The payload of the backup. Unlike a synchronisation, which reads a field  *)
(* that is missing as empty and drops an item without a uuid, a change reads *)
(* everything or nothing.                                                    *)

ValueOf(o, key) == IF key \in DOMAIN o THEN o[key] ELSE [undefined |-> TRUE]
Is(v, types) == DOMAIN v \cap types # {}

StrictTimestamp(v) ==
  CASE Is(v, {"digits"}) -> Just(v.digits)
    [] Is(v, {"number"}) -> Just(v.number)
    [] OTHER -> Refused

Times == {"createdAt", "updatedAt"}
PasswordTexts == {"uuid", "title", "password", "categoryUuid"}
CategoryTexts == {"uuid", "name"}

Strict(item, texts, flags, integers) ==
  /\ \A f \in texts : Is(ValueOf(item, f), {"string", "digits"})
  /\ \A f \in flags : Is(ValueOf(item, f), {"bool"})
  /\ \A f \in integers : Is(ValueOf(item, f), {"number"})
  /\ \A f \in Times : StrictTimestamp(ValueOf(item, f)).ok

\* The shared parser takes the times as texts.
NormalizeTimestamps(item) ==
  [f \in DOMAIN item |-> IF f \in Times THEN [digits |-> StrictTimestamp(item[f]).it] ELSE item[f]]

\* `kept` is the object as it was read.
ParseMigrationPayload(bytes) ==
  LET object == FromJsonBytes(bytes)
      o == object.it
      strict == /\ ValueOf(o, "version") = [number |-> PayloadVersion]
                /\ Is(ValueOf(o, "passwords"), {"array"}) /\ Is(ValueOf(o, "categories"), {"array"})
                /\ "syncTimestamp" \in DOMAIN o => StrictTimestamp(o.syncTimestamp).ok
                /\ \A x \in ToSet(o.passwords.array) : Strict(x, PasswordTexts, {"isDeleted", "isFavorite"}, {})
                /\ \A c \in ToSet(o.categories.array) : Strict(c, CategoryTexts, {"isDeleted"}, {"sortOrder"})
      payload == PayloadFromJson(
        [o EXCEPT !.passwords.array = Mapped(@, NormalizeTimestamps),
                  !.categories.array = Mapped(@, NormalizeTimestamps)])
  IN  IF /\ object.ok /\ strict /\ ValidPayload(payload)
         /\ Len(payload.passwords) = Len(o.passwords.array)
         /\ Len(payload.categories) = Len(o.categories.array)
      THEN Just([payload |-> payload, kept |-> o]) ELSE Refused

\* What the payload says replaces what was read; what it does not know stays.
MigrationPayloadBytes(p, kept) ==
  LET known == PayloadToJson(p)
      old(name) == [u \in {i.uuid.string : i \in ToSet(kept[name].array)} |->
                      CHOOSE i \in ToSet(kept[name].array) : i.uuid.string = u]
      with(name, item) ==
        IF item.uuid.string \in DOMAIN old(name) THEN item @@ old(name)[item.uuid.string] ELSE item
      merged(name) == [array |-> Mapped(known[name].array, LAMBDA item : with(name, item))]
  IN  [known EXCEPT !.passwords = merged("passwords"), !.categories = merged("categories")] @@ kept

-----------------------------------------------------------------------------
(* Merge: the newer item of each uuid, the local one of two as new; then of   *)
(* the live categories of one name the oldest stays, of several as old as     *)
(* each other the one whose uuid comes first.                                 *)

MergeByUuid(mine, theirs) ==
  LET a == ByUuid(mine)
      b == ByUuid(theirs)
      newer(u) == IF u \notin DOMAIN a \/ (u \in DOMAIN b /\ b[u].updatedAt > a[u].updatedAt) THEN b[u] ELSE a[u]
  IN  {newer(u) : u \in DOMAIN a \cup DOMAIN b}

NameKey(name) == IF name = "N" THEN "n" ELSE name      \* trimmed().toLower()
UuidOrder == <<"c1", "c2", "c3">>
Rank(u) == CHOOSE i \in DOMAIN UuidOrder : UuidOrder[i] = u
Older(c, d) == c.createdAt < d.createdAt \/ (c.createdAt = d.createdAt /\ Rank(c.uuid) < Rank(d.uuid))

Merge(local, cloud, snapshot, now) ==
  LET categories == MergeByUuid(local.categories, cloud.categories)
      exempt == {c.uuid : c \in {d \in ToSet(snapshot.categories) : d.default \/ d.id = 0}}
      same(c) == {d \in categories : ~d.isDeleted /\ d.uuid \notin exempt /\ NameKey(d.name) = NameKey(c.name)}
      winner(c) == CHOOSE d \in same(c) : \A e \in same(c) : e = d \/ Older(d, e)
      losers == {c \in categories : c \in same(c) /\ c # winner(c)}
      winnerOf == [u \in {c.uuid : c \in losers} |-> winner(CHOOSE c \in losers : c.uuid = u).uuid]
      moved(p) == IF ~p.isDeleted /\ p.categoryUuid \in DOMAIN winnerOf
                  THEN [p EXCEPT !.categoryUuid = winnerOf[@], !.updatedAt = now] ELSE p
      left(c) == IF c \in losers THEN [c EXCEPT !.isDeleted = TRUE, !.updatedAt = now] ELSE c
  IN  [version |-> PayloadVersion,
       passwords |-> SetToSeq({moved(p) : p \in MergeByUuid(local.passwords, cloud.passwords)}),
       categories |-> SetToSeq({left(c) : c \in categories})]

\* The uuids that are markers and not rows, by the side whose item was taken.
SelectedMarkers(snapshot, local, cloud) ==
  LET mine == ByUuid(local.passwords)
      taken == {p \in ToSet(cloud.passwords) :
                  p.uuid \notin DOMAIN mine \/ mine[p.uuid].updatedAt < p.updatedAt}
      markers == {p \in taken : IsContentlessTombstone(p)}
  IN  ({m.uuid : m \in ToSet(snapshot.markers)} \ {p.uuid : p \in taken}) \cup {p.uuid : p \in markers}

\* The rows of the payload under the new key; ids and what the payload does not
\* carry are the old rows'. New ids follow the largest one.
EncryptCandidate(p, old, markers, key, iv) ==
  LET oldCats == ByUuid(old.categories)
      oldRows == ByUuid(old.entries)
      top(rows) == Max({0} \cup {rows[i].id : i \in DOMAIN rows})
      new(items, i, had, rows) == top(rows) + Cardinality({k \in 1..i : items[k].uuid \notin had})
      category(i) ==
        LET c == p.categories[i] IN
        [id |-> IF c.uuid \in DOMAIN oldCats THEN oldCats[c.uuid].id
                ELSE new(p.categories, i, DOMAIN oldCats, old.categories),
         default |-> c.uuid \in DOMAIN oldCats /\ oldCats[c.uuid].default,
         uuid |-> c.uuid, name |-> c.name, order |-> c.sortOrder, created |-> c.createdAt,
         stamp |-> c.updatedAt, del |-> c.isDeleted]
      categories == [i \in DOMAIN p.categories |-> category(i)]
      idOf == [u \in {""} \cup DOMAIN ByUuid(categories) |-> IF u = "" THEN 0 ELSE ByUuid(categories)[u].id]
      rows == SelectSeq(p.passwords, LAMBDA x : x.uuid \notin markers)
      entry(i) ==
        EntryOfItem(rows[i], idOf, key, iv)
          @@ [id |-> IF rows[i].uuid \in DOMAIN oldRows THEN oldRows[rows[i].uuid].id
                     ELSE new(rows, i, DOMAIN oldRows, old.entries),
              package |-> IF rows[i].uuid \in DOMAIN oldRows THEN oldRows[rows[i].uuid].package ELSE ""]
  IN  IF \A x \in ToSet(rows) : x.categoryUuid \in DOMAIN idOf
      THEN Just([entries |-> [i \in DOMAIN rows |-> entry(i)], categories |-> categories,
                 markers |-> Mapped(SelectSeq(p.passwords, LAMBDA x : x.uuid \in markers),
                                    LAMBDA x : [uuid |-> x.uuid, at |-> x.updatedAt])])
      ELSE Refused

-----------------------------------------------------------------------------
(* Change up to the saving of the journal, with the backup when the vault is *)
(* bound to one, and what LoadJournal asks of a journal.                     *)

CandidateIv == [size |-> IvSize, random |-> "candidate"]
CandidateSalt == [size |-> SaltSize, random |-> "candidate"]

Prepare(snapshot, old, new, bound, file, version, now) ==
  LET local == ToPayload(snapshot, old.key)
      backup == BackupFromJson(FromJsonBytes(file).it)
      plain == DecryptFromCloud(backup.it, old.master)
      cloud == ParseMigrationPayload(ToJsonBytes(plain.it.plain))
      readable == /\ version # "" /\ FromJsonBytes(file).ok /\ backup.ok /\ plain.ok /\ cloud.ok
      merged == IF bound THEN Merge(local.it, cloud.it.payload, snapshot, now) ELSE local.it
      markers == IF bound THEN SelectedMarkers(snapshot, local.it, cloud.it.payload)
                 ELSE {m.uuid : m \in ToSet(snapshot.markers)}
      rows == EncryptCandidate(merged, snapshot, markers, new.key, CandidateIv)
      sealed == EncryptForCloud(Plain(MigrationPayloadBytes(merged, cloud.it.kept), 20), new.master,
                                CandidateSalt, CandidateIv)
  IN  IF local.ok /\ (bound => readable) /\ rows.ok
      THEN Just([phase |-> "prepared", cloud |-> bound, oldRecord |-> "old", newRecord |-> "new",
                 oldRows |-> SerializeSnapshot(snapshot), newRows |-> SerializeSnapshot(rows.it),
                 oldCloud |-> IF bound THEN file ELSE NoBytes,
                 newCloud |-> IF bound THEN ToJsonBytes(BackupToJson(sealed)) ELSE NoBytes,
                 version |-> IF bound THEN version ELSE ""])
      ELSE Refused

LoadJournal(j) ==
  j.phase # "empty" =>
    /\ j.oldRecord # "" /\ j.newRecord # "" /\ ParseSnapshot(j.oldRows).ok /\ ParseSnapshot(j.newRows).ok
    /\ j.cloud => NoBytes \notin {j.oldCloud, j.newCloud} /\ j.version # ""

-----------------------------------------------------------------------------
OldSide == [master |-> "old", key |-> LocalKey("old")]
NewSide == [master |-> "new", key |-> LocalKey("new")]
Now == 5

\* This device: an entry in a category or in none, in the trash or not, or a
\* marker in its place, and one or two categories, which may have one name or be
\* a default one.
SmallRow(stamp, cat, del, key) ==
  [id |-> 3, uuid |-> "e1", title |-> "t", package |-> "p", cat |-> cat, fav |-> FALSE, created |-> 1,
   stamp |-> stamp, del |-> del] @@ EncryptLocalPassword("secret", key, Iv(1))
SmallCategory(id, name, created, default) ==
  [id |-> id, uuid |-> UuidOrder[id], name |-> name, default |-> default, order |-> 0, created |-> created,
   stamp |-> 1, del |-> FALSE]
SmallLocals ==
  {[entries |-> held.rows, markers |-> held.marks, categories |-> cats] :
     held \in {[rows |-> <<SmallRow(2, c, d, OldSide.key)>>, marks |-> <<>>] : c \in {0, 1}, d \in BOOLEAN}
              \cup {[rows |-> <<>>, marks |-> <<[uuid |-> "e1", at |-> 2]>>]},
     cats \in {<<SmallCategory(1, "n", 2, default)>> : default \in BOOLEAN}
              \cup {<<SmallCategory(1, "n", 2, FALSE), SmallCategory(2, "m", 1, FALSE)>>}}

\* The backup another device wrote: its version of the entry, or its marker, and
\* another entry in a category of its own; with something in it that this
\* program does not know.
OtherDevice == LocalKey("other")
SmallClouds ==
  {[entries |-> held.rows \o <<[SmallRow(1, 3, FALSE, OtherDevice) EXCEPT !.id = 9, !.uuid = "e2"]>>,
    markers |-> held.marks,
    categories |-> <<SmallCategory(3, name, created, FALSE)>>] :
     held \in {[rows |-> <<SmallRow(at, 3, FALSE, OtherDevice)>>, marks |-> <<>>] : at \in 1..3}
              \cup {[rows |-> <<>>, marks |-> <<[uuid |-> "e1", at |-> at]>>] : at \in 1..3},
     name \in {"n", "N", "x"}, created \in 1..3}

PayloadOf(s) == PayloadOfFile(FileOf(s, OtherDevice, "old", Salt(1), Iv(2)).it, "old").it
Extended(o) ==
  [o EXCEPT !.passwords.array = Mapped(@, LAMBDA i : i @@ [extra |-> [string |-> i.uuid.string]])]
    @@ [extra |-> [string |-> "all"]]
CloudFile(s) ==
  ToJsonBytes(BackupToJson(EncryptForCloud(Plain(Extended(PayloadToJson(PayloadOf(s))), 20), "old", Salt(1), Iv(2))))

\* The journal of a change can always be loaded again: one that could not would
\* lock the vault for good. It holds every entry of both sides once, as a row or
\* as a marker; the rows open with the new key, keep what no backup carries, and
\* are what the new backup says, so that the next synchronisation has nothing to
\* do, not even a category to remove, and no live entry lies in a category that
\* was removed; the backup opens with the new password only and has lost nothing
\* that this program does not know.
ASSUME PreparedIsWhole ==
  \A s \in SmallLocals, c \in SmallClouds :
    LET journal == Prepare(s, OldSide, NewSide, TRUE, CloudFile(c), "v1", Now)
        rows == ParseSnapshot(journal.it.newRows).it
        backup == PayloadOfFile(journal.it.newCloud, "new").it
        own == PayloadOfFile(FileOf(rows, NewSide.key, "new", Salt(4), Iv(4)).it, "new").it
        raw == DecryptFromCloud(BackupFromJson(journal.it.newCloud.json).it, "new").it.plain
        live == {d \in ToSet(rows.categories) : ~d.del /\ ~d.default}
    IN  /\ journal.ok /\ LoadJournal(journal.it)
        /\ ParseSnapshot(journal.it.oldRows).it = s
        /\ Distinct(rows.entries \o rows.markers)
        /\ {x.uuid : x \in ToSet(rows.entries \o rows.markers)} = {"e1", "e2"}
        /\ ToSet(own.passwords) = ToSet(backup.passwords) /\ ToSet(own.categories) = ToSet(backup.categories)
        /\ \A d \in live, e \in live : d # e => NameKey(d.name) # NameKey(e.name)
        /\ \A e \in ToSet(rows.entries) : e.del \/ e.cat = 0 \/ \E d \in ToSet(rows.categories) : d.id = e.cat /\ ~d.del
        /\ \A e \in ToSet(rows.entries) : e.uuid = "e1" => e.package = (IF s.entries = <<>> THEN "" ELSE "p")
        /\ \A d \in ToSet(s.categories), e \in ToSet(rows.categories) :
             d.uuid = e.uuid <=> d.id = e.id
        /\ ~PayloadOfFile(journal.it.newCloud, "old").ok
        /\ ValueOf(raw, "extra") = [string |-> "all"]
        /\ \A i \in ToSet(raw.passwords.array) :
             i.uuid.string \in {p.uuid : p \in ToSet(PayloadOf(c).passwords)}
               => ValueOf(i, "extra") = [string |-> i.uuid.string]

\* A vault that was never bound is only encrypted anew.
ASSUME UnboundIsOnlyEncryptedAnew ==
  \A s \in SmallLocals :
    LET journal == Prepare(s, OldSide, NewSide, FALSE, NoBytes, "", Now)
        rows == ParseSnapshot(journal.it.newRows).it
    IN  /\ journal.ok /\ LoadJournal(journal.it)
        /\ ToPayload(rows, NewSide.key) = ToPayload(s, OldSide.key)
        /\ rows.categories = s.categories /\ rows.markers = s.markers

\* The rows in a journal that was cut short or has something behind them do not
\* count as other rows.
ASSUME CutSnapshotIsRefused ==
  \A s \in SmallLocals :
    LET cells == SerializeSnapshot(s)
    IN  /\ \A n \in 0..(Len(cells) - 1) : ~ParseSnapshot(SubSeq(cells, 1, n)).ok
        /\ ~ParseSnapshot(Append(cells, 0)).ok

FieldValues == {[undefined |-> TRUE], [number |-> 1], [fraction |-> 1], [string |-> ""], [digits |-> 1], [bool |-> TRUE]}

\* An item of the backup that lost a field, or holds something else there, stops
\* the change or is read in full: never is an item left out of the backup that
\* replaces it, and never is a time read as none.
ASSUME DamagedItemStopsTheChange ==
  \A c \in SmallClouds :
    LET whole == PayloadToJson(PayloadOf(c))
        damaged(name, f, v) == [whole EXCEPT ![name].array[1][f] = v]
        lost(name, f) == [whole EXCEPT ![name].array[1] = [k \in DOMAIN @ \ {f} |-> @[k]]]
        read(o) == ParseMigrationPayload(ToJsonBytes(o))
        sized(o) == read(o).ok =>
          /\ Len(read(o).it.payload.passwords) = Len(whole.passwords.array)
          /\ Len(read(o).it.payload.categories) = Len(whole.categories.array)
          /\ \A p \in ToSet(read(o).it.payload.passwords) : p.updatedAt > 0
    IN  \A name \in {"passwords", "categories"} : \A f \in DOMAIN whole[name].array[1] :
          ~read(lost(name, f)).ok /\ \A v \in FieldValues : sized(damaged(name, f, v))
=============================================================================
