----------------------------- MODULE CsvFormat ------------------------------
(***************************************************************************)
(* The CSV files of src/csv: what CsvExporter writes, what CsvReader makes  *)
(* of the bytes of a file and what CsvValidator makes of its records. What  *)
(* Apply does with the result is in Workspace.                              *)
(*                                                                         *)
(* A text is a sequence of characters; the words that the code looks for (a *)
(* uuid, the names in a header) count as one. An absent format is           *)
(* "unknown". The assumptions at the end are statements about these         *)
(* operators that TLC evaluates over all small files and vaults.            *)
(***************************************************************************)
EXTENDS Naturals, FiniteSets, Sequences
LOCAL INSTANCE SequencesExt
LOCAL INSTANCE FiniteSetsExt
LOCAL INSTANCE TLC

Quote == "quote"
Comma == "comma"
Cr == "cr"
Lf == "lf"
Bom == "bom"
LineEnd == {Cr, Lf}
White == LineEnd \cup {"space"}

-----------------------------------------------------------------------------
(* CsvReader. The parser's state: the rows so far, the current row and      *)
(* field, whether it is inside quotes, whether the row has begun, and       *)
(* whether the next character belongs to the one before.                    *)

StripBom(t) == IF t # <<>> /\ Head(t) = Bom THEN Tail(t) ELSE t

NoRows == [rows |-> <<>>, row |-> <<>>, field |-> <<>>, quoted |-> FALSE, content |-> FALSE, skip |-> FALSE]
Appended(p, c) == [p EXCEPT !.field = Append(@, c)]
FieldEnds(p) == [p EXCEPT !.row = Append(@, p.field), !.field = <<>>]
RowEnds(p) == [NoRows EXCEPT !.rows = Append(p.rows, FieldEnds(p).row)]

\* Two quotes are one; a single one ends the quoting, not the field.
InQuotes(p, c, next) ==
  CASE c # Quote -> Appended(p, c)
    [] c = Quote /\ next = Quote -> [Appended(p, c) EXCEPT !.skip = TRUE]
    [] OTHER -> [p EXCEPT !.quoted = FALSE]

OutsideQuotes(p, c, next) ==
  CASE c = Quote -> [p EXCEPT !.quoted = TRUE, !.content = TRUE]
    [] c = Comma -> [FieldEnds(p) EXCEPT !.content = TRUE]
    [] c \in LineEnd -> [RowEnds(p) EXCEPT !.skip = (c = Cr /\ next = Lf)]
    [] OTHER -> [Appended(p, c) EXCEPT !.content = TRUE]

ReadAll(data) ==
  LET t == StripBom(data)
      step(p, i) ==
        LET next == IF i < Len(t) THEN t[i + 1] ELSE "end"
        IN  CASE p.skip -> [p EXCEPT !.skip = FALSE]
              [] ~p.skip /\ p.quoted -> InQuotes(p, t[i], next)
              [] OTHER -> OutsideQuotes(p, t[i], next)
      last == FoldLeftDomain(step, NoRows, t)
  IN  IF last.content THEN RowEnds(last).rows ELSE last.rows

-----------------------------------------------------------------------------
(* CsvWriter.                                                               *)

NeedsQuoting(field) == ToSet(field) \cap ({Quote, Comma} \cup LineEnd) # {}

EncodeField(field) ==
  LET doubled == [i \in DOMAIN field |-> IF field[i] = Quote THEN <<Quote, Quote>> ELSE <<field[i]>>]
  IN  IF NeedsQuoting(field) THEN <<Quote>> \o FlattenSeq(doubled) \o <<Quote>> ELSE field

WriteRow(fields) ==
  LET cells == [i \in DOMAIN fields |-> (IF i > 1 THEN <<Comma>> ELSE <<>>) \o EncodeField(fields[i])]
  IN  FlattenSeq(cells) \o <<Cr, Lf>>

WriteRows(rows) == FlattenSeq([i \in DOMAIN rows |-> WriteRow(rows[i])])

-----------------------------------------------------------------------------
(* CsvExporter. A vault here is a set of entries and a function from the    *)
(* category ids there are, deleted ones too, to their names and order.      *)

NoCategory == 0
UncategorizedText == <<"uncategorized">>
ExtendedHeaders ==
  << <<"ID">>, <<"category">>, <<"title">>, <<"username">>, <<"password">>, <<"website">>, <<"notes">> >>

CategoryName(e, cats) == IF e.cat = NoCategory THEN UncategorizedText ELSE cats[e.cat].name

\* Nothing is exported when one entry's category has no row.
CanCollect(entries, cats) == \A e \in entries : e.cat \in DOMAIN cats \cup {NoCategory}

\* Uncategorised first, then by the order of the categories and by age.
SortKey(e, cats) == <<IF e.cat = NoCategory THEN 0 ELSE cats[e.cat].order + 1, e.cat, e.created>>
NotAfter(a, b) ==
  \A i \in 1..3 : a[i] > b[i] => \E j \in 1..(i - 1) : a[j] < b[j]

\* std::sort leaves the order of equal keys open.
ExportOrders(entries, cats) ==
  {s \in SetToSeqs(entries) : \A i, j \in DOMAIN s : i < j => NotAfter(SortKey(s[i], cats), SortKey(s[j], cats))}

Exported(s, cats) ==
  <<Bom>> \o WriteRow(ExtendedHeaders)
    \o WriteRows([i \in DOMAIN s |->
         <<s[i].uuid, CategoryName(s[i], cats), s[i].title, s[i].username, s[i].password, s[i].website, s[i].notes>>])

-----------------------------------------------------------------------------
(* CsvValidator.                                                            *)

Uuids == {<<"u1">>, <<"u2">>}
LooksLikeUuid(cell) == cell \in Uuids

Trimmed(t) ==
  LET kept == {i \in DOMAIN t : t[i] \notin White}
  IN  IF kept = {} THEN <<>> ELSE SubSeq(t, Min(kept), Max(kept))

LowerChar(c) == IF c = "X" THEN "x" ELSE IF c = "ID" THEN "id" ELSE c
Lowered(t) == [i \in DOMAIN t |-> LowerChar(t[i])]
Cell(record, i) == IF i \in DOMAIN record THEN record[i] ELSE <<>>

\* A second byte order mark, in the first cell.
StripLeadingBom(records) ==
  IF records # <<>> THEN [records EXCEPT ![1][1] = StripBom(@)] ELSE records

DetectFormat(records) ==
  LET first == records[1]
      id == Trimmed(first[1])
  IN  CASE records = <<>> -> "unknown"
        [] records # <<>> /\ Len(first) \in 4..6 -> "legacy"
        [] records # <<>> /\ Len(first) >= 7
             /\ (\/ Lowered(id) = <<"id">> \/ LooksLikeUuid(id)
                 \/ Contains(first[3], "title") \/ Contains(first[6], "website")) -> "extended"
        [] OTHER -> "unknown"

IsHeaderRow(record, format) ==
  IF format = "extended"
  THEN Lowered(Trimmed(Cell(record, 1))) = <<"id">> \/ Contains(Cell(record, 3), "title")
  ELSE Contains(Cell(record, 1), "category") \/ Contains(Cell(record, 2), "name")

Fields == {"category", "title", "username", "password", "website", "notes"}

ParseRow(record, format) ==
  LET cell(i) == Trimmed(record[i]) IN
  IF format = "extended"
  THEN [uuid |-> IF LooksLikeUuid(cell(1)) THEN cell(1) ELSE <<>>, category |-> cell(2), title |-> cell(3),
        username |-> cell(4), password |-> cell(5), website |-> cell(6), notes |-> cell(7)]
  ELSE [uuid |-> <<>>, category |-> cell(1), title |-> cell(2), username |-> cell(3),
        password |-> cell(4), website |-> <<>>, notes |-> <<>>]

LongEnough(record, format) == Len(record) >= (IF format = "extended" THEN 7 ELSE 4)
Acceptable(row) == row.title # <<>> /\ (row.username # <<>> \/ row.password # <<>>)

\* The key of by_title_user: nothing keeps the separator out of a title.
Key(r) == Lowered(r.title) \o <<"bar">> \o Lowered(r.username)

\* The snapshot a row is about, by uuid before title and username; of several
\* the last. Snapshots are the live entries, in the order of the table.
Matches(row, existing) ==
  LET with(Test(_)) == {i \in DOMAIN existing : Test(existing[i])}
      byUuid == with(LAMBDA s : row.uuid # <<>> /\ s.uuid = row.uuid)
      byKey == with(LAMBDA s : Key(s) = Key(row))
  IN  IF byUuid # {} THEN {Max(byUuid)} ELSE IF byKey # {} THEN {Max(byKey)} ELSE {}

\* ImportCsv takes neither the password nor the category of a live entry along.
Snapshot(row) == [row EXCEPT !.password = <<>>, !.category = <<>>]

ComputeDiffs(old, row) == {f \in Fields : old[f] # row[f]}

ValidRow(record, format, existing) ==
  LET parsed == ParseRow(record, format)
      row == [parsed EXCEPT !.category = IF @ = <<>> THEN UncategorizedText ELSE @]
      match == Matches(parsed, existing)
  IN  [row |-> row, existing |-> match, diffs |-> UNION {ComputeDiffs(existing[i], row) : i \in match}]

Validate(raw, existing, categoryNames) ==
  LET records == StripLeadingBom(raw)
      format == DetectFormat(records)
      first == IF IsHeaderRow(records[1], format) THEN 2 ELSE 1
      valid(r) == LongEnough(r, format) /\ Acceptable(ParseRow(r, format))
      rest == SubSeq(records, first, Len(records))
      accepted == SelectSeq(rest, valid)
      rows == [i \in DOMAIN accepted |-> ValidRow(accepted[i], format, existing)]
      known == {Lowered(n) : n \in categoryNames \cup {UncategorizedText}}
  IN  IF format = "unknown" THEN [format |-> format, valid |-> <<>>, invalid |-> 0, new |-> {}]
      ELSE [format |-> format, valid |-> rows, invalid |-> Len(rest) - Len(accepted),
            new |-> {n \in {rows[i].row.category : i \in DOMAIN rows} : Lowered(n) \notin known}]

-----------------------------------------------------------------------------
(* What these promise together, over small files and vaults.                *)

Chars == {Quote, Comma, Cr, Lf, "x"}
SmallFields == BoundedSeq(Chars, 2)
SmallRows == {<<f>> : f \in SmallFields} \cup {<<f, g>> : f, g \in SmallFields}

\* Whatever separators, quotes and line ends a field holds, a file that CsvWriter
\* wrote is read as the rows that were written, with a byte order mark or without,
\* and, unless the last row is empty, without the last line end.
ASSUME ReadsWhatWasWritten ==
  \A r \in SmallRows, s \in {<< <<>> >>, << <<Cr>>, <<"x">> >>} :
    /\ ReadAll(WriteRows(<<r, s>>)) = <<r, s>>
    /\ ReadAll(<<Bom>> \o WriteRows(<<s, r>>)) = <<s, r>>
    /\ r # << <<>> >> =>
         LET file == WriteRows(<<s, r>>) IN ReadAll(SubSeq(file, 1, Len(file) - 2)) = <<s, r>>

\* Every file can be read, however its quotes are placed, and what was read keeps
\* its meaning when it is written again.
ASSUME ReadingIsStable ==
  \A data \in BoundedSeq(Chars, 5) : ReadAll(WriteRows(ReadAll(data))) = ReadAll(data)

SmallTexts == {<<>>, <<"x">>, <<"X", Comma>>, <<"space", "x", Lf>>, <<Quote>>}
SmallVaults ==
  LET entry == [uuid : {<<"u1">>}, cat : {NoCategory, 1}, created : {1}, title : {<<"x">>, <<Quote, "bar">>},
                username : SmallTexts, password : SmallTexts, website : {<<Comma>>}, notes : {<<>>, <<Cr, "x">>}]
      other == [uuid |-> <<"u2">>, cat |-> 2, created |-> 1, title |-> <<"X">>, username |-> <<"x">>,
                password |-> <<"x">>, website |-> <<>>, notes |-> <<>>]
  IN  {{e, other} : e \in entry}
SmallCats == (1 :> [name |-> <<"x", Comma>>, order |-> 1]) @@ (2 :> [name |-> <<"y">>, order |-> 0])

\* What an export holds of an entry after an import: white space around a text
\* is lost, in passwords too.
Kept(e, cats) ==
  [uuid |-> e.uuid, category |-> Trimmed(CategoryName(e, cats)), title |-> Trimmed(e.title),
   username |-> Trimmed(e.username), password |-> Trimmed(e.password), website |-> Trimmed(e.website),
   notes |-> Trimmed(e.notes)]

\* Importing an export into an empty vault asks for every entry once, with its
\* uuid, and for exactly the categories in use; only an entry without a username
\* and a password is refused. Importing it into the vault it came from updates
\* each entry by the row of its uuid, though titles and usernames collide, and
\* changes nothing but what the snapshots lack.
ASSUME ExportCanBeImported ==
  \A V \in SmallVaults : \A s \in ExportOrders(V, SmallCats) :
    LET file == ReadAll(Exported(s, SmallCats))
        fresh == Validate(file, <<>>, {})
        own == [i \in DOMAIN s |-> Snapshot(Kept(s[i], SmallCats))]
        again == Validate(file, own, {SmallCats[c].name : c \in DOMAIN SmallCats})
        fit == {e \in V : Acceptable(Kept(e, SmallCats))}
    IN  /\ CanCollect(V, SmallCats)
        /\ {v.row : v \in ToSet(fresh.valid)} = {Kept(e, SmallCats) : e \in fit}
        /\ fresh.invalid = Cardinality(V \ fit)
        /\ fresh.new = {CategoryName(e, SmallCats) : e \in {f \in fit : f.cat # NoCategory}}
        /\ again.new = {}
        /\ \A v \in ToSet(again.valid) :
             /\ v.diffs \subseteq {"password", "category"}
             /\ \E i \in v.existing : v.existing = {i} /\ own[i].uuid = v.row.uuid
=============================================================================
