----------------------------- MODULE EntryForm ------------------------------
(***************************************************************************)
(* The fields of an entry as the editor makes them: the checks and the      *)
(* result of EditorPanel, the generator of passwords (src/generator and the *)
(* dialog on it) and what the strength estimate counts. Texts are those of  *)
(* CsvFormat, with ":" and "/" for websites; a letter's code is a number.   *)
(***************************************************************************)
EXTENDS CsvFormat
LOCAL INSTANCE SequencesExt
LOCAL INSTANCE FiniteSetsExt

-----------------------------------------------------------------------------
(* EditorPanel.                                                             *)

EndsWith(t, tail) == IsSuffix(tail, t)

\* Slashes at the end go, but not those of a bare scheme.
NormalizeWebsite(text) ==
  LET t == Trimmed(text)
      cut[n \in 0..Len(t)] ==
        LET value == SubSeq(t, 1, n)
            shorter == SubSeq(t, 1, n - 1)
        IN  IF EndsWith(value, <<"/">>) /\ ~EndsWith(shorter, <<":">>) /\ ~EndsWith(shorter, <<":", "/">>)
            THEN cut[n - 1] ELSE value
  IN  cut[Len(t)]

\* OnSaveClicked: the fields that keep the form from being saved.
FormErrors(form) ==
  {f \in {"title", "credentials"} :
     CASE f = "title" -> Trimmed(form.title) = <<>>
       [] f = "credentials" -> Trimmed(form.username) = <<>> /\ form.password = <<>>}

\* Only the title and the website are trimmed.
FormResult(form) ==
  [form EXCEPT !.title = Trimmed(@), !.website = NormalizeWebsite(@)]

-----------------------------------------------------------------------------
(* PasswordGenerator. A character is its class and its place in it; the      *)
(* random bytes it will draw are given as a sequence.                       *)

Classes == <<"upper", "lower", "number", "symbol">>
ClassSize == [upper |-> 26, lower |-> 26, number |-> 10, symbol |-> 26]
MaxPool == 88

BuildCharPool(included) ==
  LET classes == SelectSeq(Classes, LAMBDA c : c \in included)
  IN  FlattenSeq([i \in DOMAIN classes |-> [k \in 1..ClassSize[classes[i]] |-> <<classes[i], k>>]])

\* UniformIndex draws again when a byte is not below the threshold.
Threshold(upper) == 256 - (256 % upper)
Draws(upper, bytes) ==
  LET good == SelectSeq(bytes, LAMBDA b : b < Threshold(upper))
  IN  [i \in DOMAIN good |-> good[i] % upper]

\* Nothing without a class of characters; the bytes must suffice.
Generate(length, included, bytes) ==
  LET pool == BuildCharPool(included)
      drawn == Draws(Len(pool), bytes)
  IN  IF length = 0 \/ pool = <<>> THEN <<>>
      ELSE [i \in 1..length |-> pool[drawn[i] + 1]]

\* The dialog of the generator and the editor's page of it: what is shown, what
\* may be copied or put into the form.
Regenerated(length, included, bytes) ==
  LET password == Generate(length, included, bytes)
  IN  [preview |-> password, error |-> password = <<>>, usable |-> password # <<>>]

-----------------------------------------------------------------------------
(* CalculatePasswordStrength, up to the logarithm: the pattern that repeats *)
(* (by the failure function of string matching) and the characters of it    *)
(* that neither repeat nor continue a run up or down. Texts are sequences   *)
(* of codes here.                                                           *)

\* prefix[i]: the longest proper border of the first i characters.
PrefixFunction(text) ==
  LET prefix[i \in 0..Len(text)] ==
        IF i <= 1 THEN 0
        ELSE LET matched[k \in 0..Len(text)] ==
                   IF k > 0 /\ text[i] # text[k + 1] THEN matched[prefix[k]] ELSE k
                 m == matched[prefix[i - 1]]
             IN  IF text[i] = text[m + 1] THEN m + 1 ELSE m
  IN  prefix

PatternLength(text) ==
  LET period == Len(text) - PrefixFunction(text)[Len(text)]
  IN  IF 2 * period <= Len(text) THEN period ELSE Len(text)

EffectiveLength(text) ==
  LET up(i) == text[i] = text[i - 1] + 1
      down(i) == text[i] + 1 = text[i - 1]
      counts(i) == /\ text[i] # text[i - 1]
                   /\ ~(i > 2 /\ ((up(i) /\ up(i - 1)) \/ (down(i) /\ down(i - 1))))
  IN  1 + Cardinality({i \in 2..PatternLength(text) : counts(i)})

-----------------------------------------------------------------------------
FormChars == {"x", "space", ":", "/", Comma}

\* A website that was saved stays as it is when the entry is opened and saved
\* again (unless there was white space in front of the slashes that were cut off),
\* and never loses the slashes of a bare scheme.
ASSUME WebsiteIsStable ==
  \A t \in BoundedSeq(FormChars, 5) :
    LET w == NormalizeWebsite(t)
    IN  /\ Trimmed(w) = w => NormalizeWebsite(w) = w
        /\ IsPrefix(w, Trimmed(t))
        /\ EndsWith(Trimmed(t), <<":", "/", "/">>) => EndsWith(w, <<":", "/", "/">>)

FormTexts == BoundedSeq({"x", "space", Quote}, 2)

\* What the editor saves can be exported and imported again, but for an entry
\* without a username whose password is nothing but white space.
ASSUME SavedIsImportable ==
  \A t, u, p \in FormTexts :
    LET form == [uuid |-> <<"u1">>, cat |-> NoCategory, created |-> 1, title |-> t, username |-> u,
                 password |-> p, website |-> <<"x", "/">>, notes |-> <<>>]
        entry == FormResult(form)
        file == ReadAll(Exported(<<entry>>, <<>>))
        checked == Validate(file, <<>>, {})
    IN  FormErrors(form) = {} =>
          \/ /\ checked.invalid = 0 /\ Len(checked.valid) = 1
             /\ checked.valid[1].row.title = entry.title /\ checked.valid[1].row.website = <<"x">>
          \/ Trimmed(u) = <<>> /\ Trimmed(p) = <<>>

\* For every pool the generator can have, each character has as many of the bytes
\* that are not drawn again as any other.
ASSUME EveryCharacterIsAsLikely ==
  \A n \in 1..MaxPool : \A i \in 0..(n - 1) :
    Cardinality({b \in 0..255 : Draws(n, <<b>>) = <<i>>}) = 256 \div n

\* A password has the length that was asked for and characters of the classes that
\* were chosen only; without a class there is nothing to copy or to use.
ASSUME OnlyChosenCharacters ==
  \A included \in SUBSET ToSet(Classes) :
    LET made == Regenerated(8, included, [i \in 1..20 |-> (i * 37) % 256])
    IN  IF included = {} THEN made.error /\ ~made.usable
        ELSE /\ made.usable /\ Len(made.preview) = 8
             /\ \A i \in 1..8 : made.preview[i][1] \in included

\* The failure function finds the shortest period of every text, and a text that
\* repeats a pattern is never estimated longer than the pattern.
ASSUME PatternIsShortestPeriod ==
  \A t \in UNION {[1..n -> 1..3] : n \in 1..6} :
    LET period(p) == \A i \in (p + 1)..Len(t) : t[i] = t[i - p]
        shortest == Min({p \in 1..Len(t) : period(p)})
    IN  /\ PatternLength(t) = IF 2 * shortest <= Len(t) THEN shortest ELSE Len(t)
        /\ EffectiveLength(t \o t) <= Len(t) /\ EffectiveLength(t) <= PatternLength(t)
=============================================================================
