------------------------------ MODULE Accounts ------------------------------
(***************************************************************************)
(* The accounts of a company: lib/user-admin.ts over PrismaUserStore, with *)
(* the routes under api/[tenant]/users, api/auth/activate and login.       *)
(*                                                                         *)
(* A request checks in one transaction and writes in a later one, and      *)
(* other requests come in between.  Rows are never deleted.  The accounts  *)
(* configured in ERP_USERS are admins without a row; a row takes their     *)
(* place.  Passwords are reduced to whether there is one, sessions and the *)
(* dates they are measured by are left out.                                *)
(***************************************************************************)
EXTENDS Naturals, FiniteSets

CONSTANTS
    People,         \* addresses
    Founders,       \* those who may have an active admin row to begin with
    EnvAdmins,      \* those who may have a line in ERP_USERS
    Links,          \* the tokens mintToken hands out
    NoLink,
    Workers,        \* requests in progress at once
    Crashes,        \* a Boolean: whether the process may die
    MaxRequests     \* bound: requests begun over a behaviour

ASSUME PeopleAssumption == Founders \subseteq People /\ EnvAdmins \subseteq People
ASSUME LinkAssumption == NoLink \notin Links
ASSUME CrashAssumption == Crashes \in BOOLEAN
ASSUME BoundAssumption == MaxRequests \in Nat

VARIABLES
    env,        \* the accounts configured in ERP_USERS; read at start-up
    rows,       \* erp_user
    links,      \* erp_user_token
    job,        \* what each request is doing
    spent,      \* history: how often each link has been accepted
    meanwhile,  \* history: the accounts and links that other requests have
                \* changed in the course of each
    begun       \* requests so far

vars == <<env, rows, links, job, spent, meanwhile, begun>>

Roles == {"admin", "other"}
NoRow == [role |-> "none", state |-> "none", password |-> FALSE]
Row == [role : Roles, state : {"invited", "active", "disabled"}, password : BOOLEAN]
Link == [status : {"unminted", "live", "expired", "used"}, email : People]

\* The people who held the keys before there was a screen (envUsers).
Bootstrap == [role |-> "admin", state |-> "active", password |-> TRUE]

\* role and state are those of the request's body, "" when it names none.
Idle == [stage |-> "idle"]
Job == [stage : {"create", "patch", "insert", "write", "retire", "mint",
                 "credential", "holding", "allowed", "spend", "promote"},
        email : People, role : Roles \cup {""}, state : {"active", "disabled", ""},
        link : Links \cup {NoLink}]

TypeOK ==
    /\ env \subseteq People
    /\ rows \in [People -> Row \cup {NoRow}]
    /\ links \in [Links -> Link]
    /\ job \in [Workers -> Job \cup {Idle}]
    /\ spent \in [Links -> Nat]
    /\ meanwhile \in [Workers -> SUBSET (People \cup Links)]
    /\ begun \in 0..MaxRequests

Init ==
    /\ env \in SUBSET EnvAdmins
    /\ \E founders \in SUBSET Founders :
        /\ founders \cup env # {}
        /\ rows = [e \in People |-> IF e \in founders THEN Bootstrap ELSE NoRow]
    /\ \E e \in People : links = [l \in Links |-> [status |-> "unminted", email |-> e]]
    /\ job = [w \in Workers |-> Idle]
    /\ spent = [l \in Links |-> 0]
    /\ meanwhile = [w \in Workers |-> {}]
    /\ begun = 0

-----------------------------------------------------------------------------
\* findUser: the row, or else the environment's account.
UserOf(e) == IF rows[e] # NoRow THEN rows[e]
             ELSE IF e \in env THEN Bootstrap ELSE NoRow

MayManage(e) == UserOf(e).role = "admin" /\ UserOf(e).state = "active"

Become(w, next) == job' = [job EXCEPT ![w] = next]
Advance(w, stage) == job' = [job EXCEPT ![w].stage = stage]

Begin(w, stage, e, role, state, link) ==
    /\ job[w] = Idle
    /\ begun < MaxRequests
    /\ begun' = begun + 1
    /\ Become(w, [stage |-> stage, email |-> e, role |-> role, state |-> state, link |-> link])
    /\ UNCHANGED <<env, rows, links, spent>>

-----------------------------------------------------------------------------
(* The screen of the administrators. *)

\* requireUser and require_(user.manage): somebody may ask for this.
Ask(w) ==
    /\ \E by \in People : MayManage(by)
    /\ \E e \in People :
        \/ \E role \in Roles : Begin(w, "create", e, role, "", NoLink)
        \/ \E role \in Roles : Begin(w, "patch", e, role, "", NoLink)
        \/ \E state \in {"active", "disabled"} : Begin(w, "patch", e, "", state, NoLink)
        \/ Begin(w, "retire", e, "", "", NoLink)

Taken(e) == UserOf(e) # NoRow

CheckCreate(w) ==
    /\ job[w].stage = "create"
    /\ IF Taken(job[w].email) THEN Become(w, Idle) ELSE Advance(w, "insert")
    /\ UNCHANGED <<env, rows, links, spent, begun>>

\* PrismaUserStore.create, whose key is unique; the invitation follows.
Insert(w) ==
    LET e == job[w].email
    IN  /\ job[w].stage = "insert"
        /\ IF rows[e] = NoRow
           THEN /\ rows' = [rows EXCEPT ![e] = [role |-> job[w].role, state |-> "invited",
                                                password |-> FALSE]]
                /\ Advance(w, "retire")
           ELSE UNCHANGED rows /\ Become(w, Idle)
        /\ UNCHANGED <<env, links, spent, begun>>

\* Fault: a disabled admin still counts as one.
WouldOrphanOfRole(e, role, state) ==
    ~ \E u \in People : (IF u = e /\ role # "" THEN role ELSE UserOf(u).role) = "admin"

\* wouldOrphanAdmins, for everybody allUsers lists.
WouldOrphanAdmins(e, role, state) ==
    ~ \E u \in People :
        /\ (IF u = e /\ role # "" THEN role ELSE UserOf(u).role) = "admin"
        /\ (IF u = e /\ state # "" THEN state ELSE UserOf(u).state) # "disabled"

\* updateUser up to the write: the refusals leave no trace.
CheckPatch(w) ==
    LET j == job[w]
    IN  /\ j.stage = "patch"
        /\ IF \/ UserOf(j.email) = NoRow
              \/ WouldOrphanAdmins(j.email, j.role, j.state)
              \/ rows[j.email] = NoRow
           THEN Become(w, Idle)
           ELSE Advance(w, "write")
        /\ UNCHANGED <<env, rows, links, spent, begun>>

\* Only the fields the request named are written.
WritePatch(w) ==
    LET j == job[w]
    IN  /\ j.stage = "write"
        /\ rows' = [rows EXCEPT ![j.email].role = IF j.role = "" THEN @ ELSE j.role,
                                ![j.email].state = IF j.state = "" THEN @ ELSE j.state]
        /\ Become(w, Idle)
        /\ UNCHANGED <<env, links, spent, begun>>

-----------------------------------------------------------------------------
(* issueInvitation: three transactions. *)

\* Fault: the older links of this person are left as they are.
RetireNothing(w) ==
    /\ job[w].stage = "retire"
    /\ Advance(w, "mint")
    /\ UNCHANGED <<env, rows, links, spent, begun>>

Retire(w) ==
    /\ job[w].stage = "retire"
    /\ links' = [l \in Links |-> IF /\ links[l].email = job[w].email
                                    /\ links[l].status \in {"live", "expired"}
                                 THEN [links[l] EXCEPT !.status = "used"]
                                 ELSE links[l]]
    /\ Advance(w, "mint")
    /\ UNCHANGED <<env, rows, spent, begun>>

\* Fresh tokens are alike, and one of them is taken.
Mint(w, l) ==
    /\ job[w].stage = "mint"
    /\ links[l].status = "unminted"
    /\ l = CHOOSE k \in Links : links[k].status = "unminted"
    /\ links' = [links EXCEPT ![l] = [status |-> "live", email |-> job[w].email]]
    /\ Advance(w, "credential")
    /\ UNCHANGED <<env, rows, spent, begun>>

\* The temporary password, when there is a row to write it to.
Credential(w) ==
    LET e == job[w].email
    IN  /\ job[w].stage = "credential"
        /\ rows' = IF rows[e] = NoRow THEN rows ELSE [rows EXCEPT ![e].password = TRUE]
        /\ Become(w, Idle)
        /\ UNCHANGED <<env, links, spent, begun>>

\* Seven days pass.
Expire(l) ==
    /\ links[l].status = "live"
    /\ links' = [links EXCEPT ![l].status = "expired"]
    /\ UNCHANGED <<env, rows, job, spent, begun>>

-----------------------------------------------------------------------------
(* activate, and the first sign-in. *)

Follow(w, l) ==
    /\ links[l].status = "live"
    /\ Begin(w, "holding", links[l].email, "", "", l)

\* Fault: a disabled account may still be activated.
AllowAnybody(w) ==
    /\ job[w].stage = "holding"
    /\ IF UserOf(job[w].email) = NoRow THEN Become(w, Idle) ELSE Advance(w, "allowed")
    /\ UNCHANGED <<env, rows, links, spent, begun>>

Allow(w) ==
    /\ job[w].stage = "holding"
    /\ IF UserOf(job[w].email).state \in {"none", "disabled"}
       THEN Become(w, Idle)
       ELSE Advance(w, "allowed")
    /\ UNCHANGED <<env, rows, links, spent, begun>>

\* An account without a row has nothing to update, and the request fails.
SetPassword(w) ==
    LET e == job[w].email
    IN  /\ job[w].stage = "allowed"
        /\ IF rows[e] = NoRow
           THEN UNCHANGED rows /\ Become(w, Idle)
           ELSE /\ rows' = [rows EXCEPT ![e].password = TRUE, ![e].state = "active"]
                /\ Advance(w, "spend")
        /\ UNCHANGED <<env, links, spent, begun>>

\* Fault: the link is not stamped.
SpendNothing(w) ==
    /\ job[w].stage = "spend"
    /\ spent' = [spent EXCEPT ![job[w].link] = @ + 1]
    /\ Become(w, Idle)
    /\ UNCHANGED <<env, rows, links, begun>>

Spend(w) ==
    /\ job[w].stage = "spend"
    /\ links' = [links EXCEPT ![job[w].link].status = "used"]
    /\ spent' = [spent EXCEPT ![job[w].link] = @ + 1]
    /\ Become(w, Idle)
    /\ UNCHANGED <<env, rows, begun>>

\* authenticateUser for an invited account; the others write nothing.
SignIn(w, e) ==
    /\ UserOf(e).state = "invited"
    /\ UserOf(e).password
    /\ Begin(w, "promote", e, "", "", NoLink)

Promote(w) ==
    LET e == job[w].email
    IN  /\ job[w].stage = "promote"
        /\ rows' = [rows EXCEPT ![e].state = "active"]
        /\ Become(w, Idle)
        /\ UNCHANGED <<env, links, spent, begun>>

Crash(w) ==
    /\ Crashes
    /\ job[w] # Idle
    /\ Become(w, Idle)
    /\ UNCHANGED <<env, rows, links, spent, begun>>

-----------------------------------------------------------------------------
Step(w) ==
    \/ Ask(w)
    \/ CheckCreate(w) \/ Insert(w)
    \/ CheckPatch(w) \/ WritePatch(w)
    \/ Retire(w) \/ Credential(w)
    \/ \E l \in Links : Mint(w, l) \/ Follow(w, l)
    \/ Allow(w) \/ SetPassword(w) \/ Spend(w)
    \/ \E e \in People : SignIn(w, e)
    \/ Promote(w)
    \/ Crash(w)

\* What a step changes of the accounts and the links is noted for every other
\* request in progress.
Changed == {e \in People : rows'[e] # rows[e]} \cup {l \in Links : links'[l] # links[l]}
Note(w) ==
    meanwhile' = [v \in Workers |-> IF job'[v] = Idle THEN {}
                                    ELSE meanwhile[v] \cup IF v = w THEN {} ELSE Changed]

Next == \/ \E w \in Workers : Step(w) /\ Note(w)
        \/ \E l \in Links : Expire(l) /\ UNCHANGED meanwhile

Spec == Init /\ [][Next]_vars

-----------------------------------------------------------------------------
(* Properties. *)

\* There is always somebody who can administer the system: the last admin can
\* neither step down nor be disabled (updateUser, wouldOrphanAdmins), and an
\* account of the environment cannot be taken over by a lesser row (createUser).
SomebodyAdministers ==
    \E e \in People : UserOf(e).role = "admin" /\ UserOf(e).state # "disabled"

\* The last admin goes only when two requests overlap: the one that takes the keys
\* away found another holder, and an account was changed between its check and its
\* write (updateUser, wouldOrphanAdmins, createUser).
LastAdminStays ==
    [][(SomebodyAdministers /\ ~SomebodyAdministers') =>
           \E w \in Workers : job[w].stage = "write" /\ meanwhile[w] \cap People # {}]_vars

\* A link that set a password sets none again, but for a form that was sent while
\* another request used or replaced that very link (activate, PrismaUserStore.useToken).
AcceptedOnce ==
    [][\A l \in Links : (spent[l] > 0 /\ spent'[l] # spent[l]) =>
           \E w \in Workers : job[w].stage = "spend" /\ job[w].link = l /\ l \in meanwhile[w]]_vars

\* A person has one link that works: issuing one retires the others, but for those that
\* another request issues while this one is under way (issueInvitation, revokeTokens).
OneWorks ==
    [][\A k, l \in Links :
           (/\ links[k].status = "live" /\ links[l].status # "live"
            /\ links'[l] = links[k]) =>
           \E w \in Workers : /\ job[w].stage = "mint" /\ job[w].email = links[k].email
                              /\ k \in meanwhile[w]]_vars

\* The links of the mails, whatever is sent, used and sent again.
LinksHold == AcceptedOnce /\ OneWorks

\* Only an administrator gives a disabled account back.  A link or a sign-in does so
\* only when the account is disabled in the middle of it, between the test of its state
\* and the write (activate, authenticateAgainst).
DisabledStaysDisabled ==
    [][\A e \in People :
        (rows[e].state = "disabled" /\ rows'[e].state # "disabled") =>
            \E w \in Workers :
                /\ job[w].stage \in {"write", "allowed", "promote"} /\ job[w].email = e
                /\ IF job[w].stage = "write" THEN job[w].state = "active"
                                             ELSE e \in meanwhile[w]]_vars
=============================================================================
