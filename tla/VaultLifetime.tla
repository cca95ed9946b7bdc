---------------------------- MODULE VaultLifetime ----------------------------
(***************************************************************************)
(* What the user is promised about the vault of a computer, with its files, *)
(* its locks and its crashes left out: there is at most one vault at a      *)
(* time; only the vault that is open can be cleared, in one step, and what  *)
(* is opened later is always a vault that was created after it.             *)
(***************************************************************************)
EXTENDS Naturals

VARIABLES
  made,   \* how many vaults were ever created
  held,   \* the vault the computer holds, 0 for none
  open    \* the vault that is open, 0 for none

vars == <<made, held, open>>

Init == made = 0 /\ held = 0 /\ open = 0

Create == /\ held = 0
          /\ made' = made + 1
          /\ held' = made + 1
          /\ open' = 0

Open == /\ open = 0
        /\ held # 0
        /\ open' = held
        /\ UNCHANGED <<made, held>>

Close == /\ open # 0
         /\ open' = 0
         /\ UNCHANGED <<made, held>>

Clear == /\ open # 0
         /\ open' = 0
         /\ held' = 0
         /\ UNCHANGED made

Next == Create \/ Open \/ Close \/ Clear

Spec == Init /\ [][Next]_vars
=============================================================================
