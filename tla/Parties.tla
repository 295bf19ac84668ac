------------------------------ MODULE Parties ------------------------------
(***************************************************************************)
(* The file of parties: who is a customer, under whom a client's invoices  *)
(* go out, which tax number is whose, and who may leave the file, while    *)
(* one job takes payers and invoices them (erp-engine.js 2548-2900,        *)
(* 7560-7684; the drawers of erp.html).                                    *)
(***************************************************************************)
EXTENDS Naturals, FiniteSets

CONSTANTS TaxIds,      \* tax numbers, normalised
          Manners,     \* liberties the code takes that a run allows
          MaxParties, MaxMeetings

ASSUME PartiesAssumption ==
    /\ 0 \notin TaxIds
    /\ MaxParties \in Nat \ {0} /\ MaxMeetings \in Nat

VARIABLES file,      \* parties: id -> record
          chosen,    \* id -> under whom the operator last chose to put it
          jobOf,     \* the customer of the job, 0 while there is none
          billing,   \* the job's billing rows
          invoiced,  \* the parties that an invoice of the job names
          met,       \* ids handed out
          meetings

partyVars == <<file, chosen, jobOf, billing, invoiced, met, meetings>>

NoParty == 0
PartyIds == 1..MaxParties
Party == [code : PartyIds, tax : TaxIds \cup {0}, active : BOOLEAN, customer : BOOLEAN,
          under : PartyIds \cup {0}]

PartiesTypeOK ==
    /\ DOMAIN file \subseteq 1..met /\ met <= MaxParties
    /\ \A p \in DOMAIN file : file[p] \in Party
    /\ DOMAIN chosen = DOMAIN file
    /\ jobOf # NoParty => jobOf \in billing
    /\ invoiced \subseteq DOMAIN file

PartiesInit ==
    /\ file = <<>> /\ chosen = <<>> /\ jobOf = NoParty
    /\ billing = {} /\ invoiced = {} /\ met = 0 /\ meetings = 0

Meeting == meetings < MaxMeetings /\ meetings' = meetings + 1
OnFile == Meeting /\ UNCHANGED <<jobOf, billing, invoiced>>
OnJob == Meeting /\ UNCHANGED <<file, chosen, met>>

(* billingEntitiesOf, _billingScopeOwner *)
ClientsUnder(p) == {x \in DOMAIN file : file[x].under = p}
ScopeOwner(p) == IF p \in DOMAIN file /\ file[p].under # NoParty THEN file[p].under ELSE p

(* _assertTaxIdFree *)
TaxFree(tax, p) ==
    tax = 0 \/ \A x \in DOMAIN file \ {p} : file[x].active => file[x].tax # tax

\* Fault: a client that invoices under another may have clients of its own.
MayBearAny(p) == file[p].customer

MayBear(p) == file[p].customer /\ file[p].under = NoParty

(* addParty *)
AddParty(tax, customer, under) ==
    /\ met < MaxParties
    /\ under # NoParty => under \in DOMAIN file /\ customer /\ MayBear(under)
    /\ "retired manager" \notin Manners /\ under # NoParty => file[under].active
    /\ TaxFree(tax, met + 1)
    /\ met' = met + 1
    /\ file' = [x \in DOMAIN file \cup {met + 1} |-> IF x # met + 1 THEN file[x] ELSE
                   [code |-> Cardinality(DOMAIN file) + 1, tax |-> tax, active |-> TRUE,
                    customer |-> customer, under |-> under]]
    /\ chosen' = [x \in DOMAIN file \cup {met + 1} |-> IF x # met + 1 THEN chosen[x] ELSE under]
    /\ OnFile

(* setBillingParent and _assertBillingParent *)
MaySetParent(p, q) ==
    /\ p \notin invoiced
    /\ q # NoParty => q # p /\ MayBear(q) /\ file[p].customer /\ ClientsUnder(p) = {}

(* partyBillingField: the select offers the active clients that stand alone, *)
(* and is disabled while others invoice under this one. *)
Offered(p) == {x \in DOMAIN file \ {p} : file[x].active /\ MayBear(x)}
Selected(p) == IF file[p].under \in Offered(p) THEN file[p].under ELSE NoParty

(* The save of the drawer: updateParty with every field, and with the select *)
(* when it is offered.  It is left as it opened, or another is picked. *)
SaveParty(p, tax, customer, under) ==
    /\ TaxFree(tax, p)
    /\ under # file[p].under => MaySetParent(p, under)
    /\ file' = [file EXCEPT ![p].tax = tax, ![p].customer = customer, ![p].under = under]
    /\ OnFile /\ UNCHANGED met
RolesFit(p, customer, under) ==
    "loses its role" \notin Manners => customer \/ (ClientsUnder(p) = {} /\ under = NoParty)
SaveAsOpened(p, tax, customer) ==
    LET under == IF ClientsUnder(p) = {} THEN Selected(p) ELSE file[p].under
    IN /\ RolesFit(p, customer, under)
       /\ SaveParty(p, tax, customer, under)
       /\ UNCHANGED chosen
PutUnder(p, under, customer) ==
    /\ ClientsUnder(p) = {} /\ under \in Offered(p) \cup {NoParty}
    /\ RolesFit(p, customer, under)
    /\ SaveParty(p, file[p].tax, customer, under)
    /\ chosen' = [chosen EXCEPT ![p] = under]

(* deactivateParty *)
Deactivate(p) ==
    /\ "retired manager" \notin Manners => ClientsUnder(p) = {}
    /\ file' = [file EXCEPT ![p].active = FALSE]
    /\ OnFile /\ UNCHANGED <<met, chosen>>

(* The button of a retired party: updateParty(id, {active: true}), which asks *)
(* for the number only when the patch carries one. *)
Reactivate(p) ==
    /\ ~file[p].active
    /\ "brought back" \notin Manners => TaxFree(file[p].tax, p)
    /\ file' = [file EXCEPT ![p].active = TRUE]
    /\ OnFile /\ UNCHANGED <<met, chosen>>

(* partyEconomicRefs: the documents and the clients under it hold a party; *)
(* the billing rows of a job are not looked at. *)
ReferredTo(p) == p = jobOf \/ p \in invoiced \/ ClientsUnder(p) # {}
DeleteParty(p) ==
    /\ ~ReferredTo(p)
    /\ "pays a job" \notin Manners => p \notin billing
    /\ "an older one" \notin Manners => file[p].code = Cardinality(DOMAIN file)
    /\ file' = [x \in DOMAIN file \ {p} |-> file[x]]
    /\ chosen' = [x \in DOMAIN file \ {p} |-> chosen[x]]
    /\ OnFile /\ UNCHANGED met

(* createQuickProject, addProjectPayer *)
OpenJob(p) == jobOf = NoParty /\ jobOf' = p /\ billing' = {p} /\ OnJob /\ UNCHANGED invoiced
AddPayer(p) ==
    /\ jobOf # NoParty /\ p \notin billing
    /\ billing' = billing \cup {p} /\ OnJob /\ UNCHANGED <<jobOf, invoiced>>

(* issueInvoice names a payer of the job, or a client of one (_payerFor); *)
(* undoLastInvoice takes it away (which invoice is the last is not kept). *)
BillTo(p) ==
    /\ {p, ScopeOwner(p)} \cap billing # {} /\ p \notin invoiced
    /\ invoiced' = invoiced \cup {p} /\ OnJob /\ UNCHANGED <<jobOf, billing>>
TakeBill(p) ==
    p \in invoiced /\ invoiced' = invoiced \ {p} /\ OnJob /\ UNCHANGED <<jobOf, billing>>

PartiesNext ==
    \/ \E t \in TaxIds \cup {0}, c \in BOOLEAN, u \in DOMAIN file \cup {NoParty} : AddParty(t, c, u)
    \/ \E p \in DOMAIN file, t \in TaxIds \cup {0}, c \in BOOLEAN : SaveAsOpened(p, t, c)
    \/ \E p \in DOMAIN file, u \in DOMAIN file \cup {NoParty}, c \in BOOLEAN : PutUnder(p, u, c)
    \/ \E p \in DOMAIN file : Deactivate(p) \/ Reactivate(p) \/ DeleteParty(p)
    \/ \E p \in DOMAIN file : OpenJob(p) \/ AddPayer(p) \/ BillTo(p) \/ TakeBill(p)

PartiesSpec == PartiesInit /\ [][PartiesNext]_partyVars
-----------------------------------------------------------------------------
(* MDM-03: "no two ACTIVE parties may share a tax identifier". *)
TaxIdsAreUnique ==
    \A p, q \in DOMAIN file :
        file[p].active /\ file[q].active /\ file[p].tax = file[q].tax /\ file[p].tax # 0 => p = q

(* MDM-09: a code, and the accounting code made from it, names one party. *)
CodesAreUnique == \A p, q \in DOMAIN file : file[p].code = file[q].code => p = q

(* "One level, and only between customers": whoever invoices under another   *)
(* is a customer, and the other one is there, is a customer and stands alone. *)
OneLevel ==
    \A p \in DOMAIN file : file[p].under # NoParty =>
        /\ file[p].customer /\ file[p].under \in DOMAIN file
        /\ file[file[p].under].customer /\ file[file[p].under].under = NoParty

(* Who pays the job is in the file, or it cannot be invoiced ("Party not     *)
(* found"). *)
PayersExist == billing \subseteq DOMAIN file

(* A client invoices under whom somebody put it, whatever else was saved of  *)
(* it meanwhile. *)
LinksAreChosen == \A p \in DOMAIN file : file[p].under = chosen[p]

(* setBillingParent: "moving an entity that already has documents would      *)
(* change what its job counts as billed": the scope an invoice counts          *)
(* against is the one it was issued for, as long as it stands. *)
ScopeStands ==
    [][\A p \in invoiced \cap invoiced' : ScopeOwner(p)' = ScopeOwner(p)]_partyVars

\* What the file of parties promises after any sequence of registering, editing,
\* retiring, bringing back, deleting and invoicing.
PartiesHold ==
    /\ PartiesTypeOK
    /\ TaxIdsAreUnique
    /\ CodesAreUnique
    /\ OneLevel
    /\ PayersExist
    /\ LinksAreChosen
=============================================================================
