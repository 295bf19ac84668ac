------------------------------ MODULE Documents ------------------------------
(***************************************************************************)
(* The documents that pages read, keep and write back: those of the        *)
(* auxiliary screens, and the register under the schemas of the builds     *)
(* that read it.  They share no state.                                     *)
(***************************************************************************)
EXTENDS AuxDocs, Ladder

\* What a page calls saved is stored, no page is refused over its own save, and every
\* stored record has climbed each rung its row claims.
DocumentsHold ==
    /\ AuxHolds
    /\ LadderHolds
=============================================================================
