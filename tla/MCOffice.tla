------------------------------ MODULE MCOffice ------------------------------
(***************************************************************************)
(* What stands beside the register, each on its own: the documents of the  *)
(* auxiliary screens, the commands of a crew account, the plan of a job,   *)
(* the ledgers of the factory, the accounts of the people, the margins of  *)
(* a job, the quarter's package, the messages that wait, the alerts, what  *)
(* is proposed for a bank line and the schema of the stored document.      *)
(* Each behaviour is about one of them.                                    *)
(***************************************************************************)
EXTENDS Documents, Crew, Planning, Capabilities, Accounts, Margins, Closing, Outbox, Agenda

CONSTANTS a, b, mon, tue, acme, bolt, ana, eva, k1, k2, w1, w2, i1, i2, prl, iso, b1, b2,
          chq, sav, crd,
          Parts      \* the parts a run is about

VARIABLE part

MCLags == {-1, 0, 1}
\* What a line moves, who its text names and whose number it quotes.
BankLine(account, cents, day, names, quotes) ==
    [account |-> account, cents |-> cents, day |-> day, names |-> names, quotes |-> quotes]
MCShapes ==
    {BankLine(chq, -20, 1, {}, {}), BankLine(sav, -20, 2, {}, {}),
     BankLine(chq, 20, 2, {}, {}), BankLine(sav, 20, 1, {}, {}), BankLine(crd, 20, 2, {}, {}),
     BankLine(chq, -30, 1, {acme}, {}), BankLine(chq, -31, 2, {acme}, {1}),
     BankLine(chq, -30, 1, {}, {4}), BankLine(chq, -10, 2, {acme}, {1})}
MCDue == <<30, 10, 20, 30>>
MCPaidTo == <<acme, acme, bolt, bolt>>
MCPaperDay == <<1, 1, 2, 1>>
MCDueDay == [i \in Receivable |-> 0]

outsideVars == <<auxVars, ladderVars, crewVars, planningVars, ledgerVars>>
adviceVars == <<agendaVars, matchingVars>>
insideVars == <<vars, marginVars, closingVars, outboxVars, adviceVars>>
officeVars == <<part, outsideVars, insideVars>>

\* The parts that a behaviour is not about start in one state; the founders have their
\* rows, and whose a link is before it is minted says nothing.
OfficeInit ==
    /\ part \in Parts /\ AuxInit /\ LadderInit /\ CrewInit /\ PlanningInit /\ LedgersInit
    /\ Init /\ MarginsInit /\ ClosingInit /\ OutboxInit /\ AgendaInit /\ MatchingInit
    /\ part # "plan" => budget = CHOOSE days \in [Chapters -> Durations] : TRUE
    /\ part # "ledgers" => service = "projects"
    /\ \A e \in People : rows[e].role = "admin" <=> e \in Founders
    /\ \A l \in Links : links[l].email = CHOOSE e \in People : TRUE
    /\ part # "accounts" => env = {}
    /\ part # "margins" => underContract
    /\ part # "outbox" => reachable = {}

OfficeNext ==
    \/ /\ part = "aux" /\ AuxNext
       /\ UNCHANGED <<part, ladderVars, crewVars, planningVars, ledgerVars, insideVars>>
    \/ /\ part = "ladder" /\ LadderNext
       /\ UNCHANGED <<part, auxVars, crewVars, planningVars, ledgerVars, insideVars>>
    \/ /\ part = "crew" /\ CrewNext
       /\ UNCHANGED <<part, auxVars, ladderVars, planningVars, ledgerVars, insideVars>>
    \/ /\ part = "plan" /\ PlanningNext
       /\ UNCHANGED <<part, auxVars, ladderVars, crewVars, ledgerVars, insideVars>>
    \/ /\ part = "ledgers" /\ deeds < MaxDeeds /\ LedgersNext
       /\ UNCHANGED <<part, auxVars, ladderVars, crewVars, planningVars, insideVars>>
    \/ /\ part = "accounts" /\ Next
       /\ UNCHANGED <<part, outsideVars, marginVars, closingVars, outboxVars, adviceVars>>
    \/ /\ part = "margins" /\ MarginsNext
       /\ UNCHANGED <<part, outsideVars, vars, closingVars, outboxVars, adviceVars>>
    \/ /\ part = "closing" /\ ClosingNext
       /\ UNCHANGED <<part, outsideVars, vars, marginVars, outboxVars, adviceVars>>
    \/ /\ part = "outbox" /\ OutboxNext
       /\ UNCHANGED <<part, outsideVars, vars, marginVars, closingVars, adviceVars>>
    \/ /\ part = "agenda" /\ AgendaNext
       /\ UNCHANGED <<part, outsideVars, vars, marginVars, closingVars, outboxVars, matchingVars>>
    \/ /\ part = "matching" /\ MatchingNext
       /\ UNCHANGED <<part, outsideVars, vars, marginVars, closingVars, outboxVars, agendaVars>>

OfficeSpec ==
    /\ OfficeInit /\ [][OfficeNext]_officeVars
    /\ \A s \in Screens : WF_officeVars(part = "aux" /\ AuxProgress(s) /\
            UNCHANGED <<part, ladderVars, crewVars, planningVars, ledgerVars, insideVars>>)
    /\ WF_officeVars(part = "outbox" /\ OutboxProgress /\
            UNCHANGED <<part, outsideVars, vars, marginVars, closingVars, adviceVars>>)

\* What no step may do, whichever part it is about: an auxiliary document is never
\* overwritten unread and no edit of it vanishes in silence, no build undoes what another
\* stored, the frozen baselines of a plan and its pinned dates stay, a decided change
\* stays decided, and the figures of a filed quarter stay as filed.
StandingStands ==
    /\ NothingOverwritten
    /\ NoEditVanishes
    /\ StoredWorkStays
    /\ SchemaNeverFalls
    /\ FrozenStays
    /\ PinsSurviveDerivation
    /\ DecisionsStand
    /\ FiledFiguresStand

\* What must end: an edit of an auxiliary screen is saved or refused, and a sweep of the
\* outbox that has begun comes to its end.
WorkSettles ==
    /\ EveryEditAnswered
    /\ SweepEnds
=============================================================================
