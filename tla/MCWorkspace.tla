---------------------------- MODULE MCWorkspace ----------------------------
(* Small instances of Workspace: one or two tabs with up to two edits each. *)
EXTENDS Workspace

CONSTANTS laptop, phone, l1, l2, p1, p2

MCAuthor == [e \in Edits |-> IF e \in {l1, l2} THEN laptop ELSE phone]
=============================================================================
