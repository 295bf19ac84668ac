----------------------------- MODULE MCErpState -----------------------------
(* Small instances of ErpState: a back-office account, the administrator's  *)
(* and a site worker's, with an edit or two each.                           *)
EXTENDS ErpState

CONSTANTS office, admin, worker,        \* accounts
          o1, o2, a1, a2, w1, w2        \* edits; o1 approves the worker's week

MCAuthor == [e \in Edits |-> IF e \in {o1, o2} THEN office
                             ELSE IF e \in {a1, a2} THEN admin ELSE worker]
MCGrants == [c \in Clients |-> IF c = admin THEN Permissions
                               ELSE IF c = office THEN {"erp.read.all", "erp.write"}
                               ELSE {"erp.write.site"}]
MCApprovals == {o1} \cap Edits
=============================================================================
