---------------------------- MODULE AtomicVault ----------------------------
(***************************************************************************)
(* What a master password change promises, whatever happens on the way: a  *)
(* vault has ONE master record and a set of rows, all of them encrypted    *)
(* under that record's key; a change of password replaces the record and   *)
(* re-encrypts every row in one indivisible step that loses no entry; the  *)
(* vault is only ever opened with the key of its current record.           *)
(*                                                                         *)
(* PasswordChange, the journalled protocol of the code, implements this    *)
(* specification across crashes, failed writes and lost cloud replies.     *)
(***************************************************************************)
EXTENDS Integers

CONSTANTS
  Item      \* the entries the vault may hold

VARIABLES
  rec,      \* generation of the master record: which password opens the vault
  rows,     \* the stored entries, each with the generation that encrypts it
  key       \* generation of the key an open session holds, NoKey when locked

vars == <<rec, rows, key>>

NoKey == -1

\* The rows that hold the entries `items`, all encrypted under generation g.
Sealed(items, g) == { [item |-> i, key |-> g] : i \in items }

ItemsOf(rs) == { r.item : r \in rs }

Init ==
  /\ rec = 0
  /\ rows \in { Sealed(items, 0) : items \in SUBSET Item }
  /\ key = NoKey

Unlock == key' = rec /\ UNCHANGED <<rec, rows>>

Lock == key' = NoKey /\ UNCHANGED <<rec, rows>>

Edit(i) ==
  /\ key = rec
  /\ rows' = rows \cup Sealed({i}, rec)
  /\ UNCHANGED <<rec, key>>

\* The whole change: a new generation, every old entry kept and resealed (a
\* cloud-bound change may bring in the other devices' entries as well).
ChangePassword ==
  /\ key = NoKey
  /\ rec' \in Nat /\ rec' # rec
  /\ \E more \in SUBSET Item : rows' = Sealed(ItemsOf(rows) \cup more, rec')
  /\ UNCHANGED key

Next == Unlock \/ Lock \/ ChangePassword \/ \E i \in Item : Edit(i)

Spec == Init /\ [][Next]_vars
=============================================================================
