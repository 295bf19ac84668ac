---------------------------- MODULE Capabilities ----------------------------
(***************************************************************************)
(* The packages of the factory that keep no state of their own: the        *)
(* ledgers they turn into the next ones, and what they propose for the     *)
(* lines of the bank.  They share no state.                                *)
(***************************************************************************)
EXTENDS Ledgers, Matching

\* The ledgers of the capabilities, and what they propose for the lines of the bank.
CapabilitiesHold ==
    /\ LedgersHold
    /\ MatchingHolds
=============================================================================
