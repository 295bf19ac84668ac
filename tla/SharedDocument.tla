--------------------------- MODULE SharedDocument ---------------------------
(***************************************************************************)
(* What the versioned document promises to the people who share it: it is  *)
(* replaced as a whole, one version at a time, and whatever somebody put   *)
(* into it is in every later version.  The one operation that may take     *)
(* something away is the deliberate replacement of the register by an      *)
(* export (POST /erp/import?overwrite=true).                               *)
(*                                                                         *)
(* No reads, requests, clients or conflicts are visible here: those belong *)
(* to the implementation (ErpState), which is shown to implement this.     *)
(***************************************************************************)
EXTENDS Naturals

CONSTANTS Items,            \* what can be written into the document
          Replaceable       \* a Boolean: whether the document has an import

VARIABLES document,         \* the items the stored document holds
          version,          \* 0 while nothing is stored
          imported          \* whether this version came from an import

sharedVars == <<document, version, imported>>

SharedInit == document = {} /\ version = 0 /\ imported = FALSE

\* A save, or a command: everything that was there stays.
Extend == /\ \E added \in SUBSET Items : document' = document \cup added
          /\ version' = version + 1
          /\ imported' = FALSE

\* An import: the register becomes the imported one.
Replace == /\ Replaceable
           /\ \E export \in Items : document' = {export}
           /\ version' = version + 1
           /\ imported' = TRUE

SharedNext == Extend \/ Replace

SharedSpec == SharedInit /\ [][SharedNext]_sharedVars

=============================================================================
