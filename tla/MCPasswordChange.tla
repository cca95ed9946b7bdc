-------------------------- MODULE MCPasswordChange --------------------------
(***************************************************************************)
(* PasswordChange for TLC. Entries are interchangeable.                    *)
(***************************************************************************)
EXTENDS PasswordChange, TLC

ItemSymmetry == Permutations(Item)
=============================================================================
