---------------------------- MODULE MCInvoicing ----------------------------
(* Small instances of Invoicing: two server actions at a time. *)
EXTENDS Invoicing, TLC

CONSTANTS alice, bob, q1, q2, tiles, skylight

\* Actions and ids are told apart by nothing but their names.
Alike == Permutations(Workers) \cup Permutations(Quotes)
=============================================================================
