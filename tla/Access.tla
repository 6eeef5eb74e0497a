------------------------------- MODULE Access -------------------------------
(***************************************************************************)
(* Signing in, sessions, memberships and their roles, and the principal    *)
(* the API acts for.                                                       *)
(*                                                                         *)
(* A login is an auth transaction: a row the callback reads and deletes in *)
(* one database transaction before it asks the identity provider who       *)
(* signed in.  A browser may deliver the same callback twice.  A request   *)
(* reads its session, the user and the memberships in one query and then   *)
(* works with what it read, however long it takes; an administration       *)
(* command reads the membership it changes and writes it in a second step  *)
(* of the same READ COMMITTED transaction.                                  *)
(***************************************************************************)
EXTENDS Commands, FiniteSets, FiniteSetsExt

CONSTANTS
    Users, ActiveUsers,         \* the people and those whose profile is active
    Logins, Callbacks,          \* auth transactions; callbacks in flight
    Requests,                   \* requests in flight
    Organizations, TypeOf,      \* organizations and their kind
    Memberships, UserOf,        \* memberships: of whom
    OrganizationOf,             \* and in which organization
    InitialMemberships,         \* those that exist at the start
    InitialRoles,               \* [Memberships -> role sets] at the start
    RoleChoices,                \* the role sets an administrator assigns
    Assigned,                   \* memberships assigned to the project
    Managed,                    \* bound: the memberships that are changed
    MaxChanges                  \* bound: no change begins after so many

ASSUME AccessAssumption ==
    /\ ActiveUsers \subseteq Users
    /\ TypeOf \in [Organizations -> {"INTERNAL", "SUPPLIER"}]
    /\ UserOf \in [Memberships -> Users]
    /\ OrganizationOf \in [Memberships -> Organizations]
    /\ InitialMemberships \subseteq Memberships
    /\ InitialRoles \in [Memberships -> SUBSET RoleCodes]
    /\ \A m \in Memberships : Assignable(InitialRoles[m], TypeOf[OrganizationOf[m]])
    /\ RoleChoices \subseteq SUBSET RoleCodes
    /\ Assigned \subseteq Memberships /\ Managed \subseteq Memberships
    /\ MaxChanges \in Nat

VARIABLES
    login,          \* the auth transaction rows
    callback,       \* the callbacks in flight
    session,        \* the sessions each login led to, by callback
    profile,        \* users with a profile row
    organization,   \* organizations that exist
    membership,     \* the membership rows and their roles
    request         \* the requests in flight

vars == <<login, callback, session, profile, organization, membership, request>>

None == "none"

NoRequest == [pc |-> "idle", session |-> None, principal |-> {},
              target |-> None, roles |-> {}, status |-> None, seen |-> 0,
              before |-> {}]

\* The initial state is a seeded database nobody has signed in to.
Init ==
    /\ login = [l \in Logins |-> "ABSENT"]
    /\ callback = [c \in Callbacks |-> [pc |-> "idle", login |-> None]]
    /\ session = [c \in Callbacks |-> [status |-> "ABSENT", user |-> None,
                                       login |-> None]]
    /\ profile = {UserOf[m] : m \in InitialMemberships}
    /\ organization = {OrganizationOf[m] : m \in InitialMemberships}
    /\ membership = [m \in Memberships |->
            [status |-> IF m \in InitialMemberships THEN "ACTIVE" ELSE "ABSENT",
             roles |-> IF m \in InitialMemberships THEN InitialRoles[m] ELSE {},
             version |-> 1]]
    /\ request = [r \in Requests |-> NoRequest]

-----------------------------------------------------------------------------
(* Signing in. *)

BeginLogin(l) ==
    /\ login[l] = "ABSENT"
    /\ login' = [login EXCEPT ![l] = "PENDING"]
    /\ UNCHANGED <<callback, session, profile, organization, membership, request>>

\* Ten minutes pass.
ExpireLogin(l) ==
    /\ login[l] = "PENDING"
    /\ login' = [login EXCEPT ![l] = "EXPIRED"]
    /\ UNCHANGED <<callback, session, profile, organization, membership, request>>

\* The callback's transaction finds the row of the state it was given.
FindLogin(c, l) ==
    /\ callback[c].pc = "idle"
    /\ login[l] \in {"PENDING", "EXPIRED"}
    /\ callback' = [callback EXCEPT ![c] = [pc |-> "found", login |-> l]]
    /\ UNCHANGED <<login, session, profile, organization, membership, request>>

\* Slip: deleteMany in place of delete, which would not mind a missing row.
DeletedQuietly(l) == TRUE

\* It deletes the row.  A delete that finds no row throws, and the callback
\* ends; so does an expired login.
StillThere(l) == login[l] \in {"PENDING", "EXPIRED"}

DeleteLogin(c) ==
    LET l == callback[c].login
    IN /\ callback[c].pc = "found"
       /\ login' = [login EXCEPT ![l] = "CONSUMED"]
       /\ callback' = [callback EXCEPT ![c].pc =
              IF StillThere(l) /\ login[l] # "EXPIRED" THEN "consumed" ELSE "failed"]
       /\ UNCHANGED <<session, profile, organization, membership, request>>

\* The identity provider says who signed in, or the exchange fails.
ExchangeFails(c) ==
    /\ callback[c].pc = "consumed"
    /\ callback' = [callback EXCEPT ![c].pc = "failed"]
    /\ UNCHANGED <<login, session, profile, organization, membership, request>>

SynchronizeIdentity(c, u) ==
    /\ callback[c].pc = "consumed"
    /\ profile' = profile \cup {u}
    /\ callback' = [callback EXCEPT ![c].pc = "identified"]
    /\ session' = [session EXCEPT ![c].user = u]
    /\ UNCHANGED <<login, organization, membership, request>>

CreateSession(c) ==
    /\ callback[c].pc = "identified"
    /\ session' = [session EXCEPT ![c].status = "LIVE",
                                  ![c].login = callback[c].login]
    /\ callback' = [callback EXCEPT ![c].pc = "done"]
    /\ UNCHANGED <<login, profile, organization, membership, request>>

ExpireSession(c) ==
    /\ session[c].status = "LIVE"
    /\ session' = [session EXCEPT ![c].status = "EXPIRED"]
    /\ UNCHANGED <<login, callback, profile, organization, membership, request>>

-----------------------------------------------------------------------------
(* Requests. *)

PrincipalOf(u) ==
    {[id |-> m, organization |-> OrganizationOf[m],
      type |-> TypeOf[OrganizationOf[m]], roles |-> membership[m].roles] :
        m \in {n \in Memberships : /\ UserOf[n] = u
                                   /\ membership[n].status = "ACTIVE"}}

ProjectOf(org) == [organization |-> org, assigned |-> Assigned]

Authenticate(r, c) ==
    LET principal == PrincipalOf(session[c].user)
    IN /\ request[r].pc = "idle"
       /\ session[c].status = "LIVE"
       /\ session[c].user \in ActiveUsers
       /\ principal # {}
       /\ request' = [request EXCEPT ![r] =
              [NoRequest EXCEPT !.pc = "authenticated", !.session = c,
                                !.principal = principal]]
       /\ UNCHANGED <<login, callback, session, profile, organization, membership>>

\* A request that only reads, whose command another module describes, or that
\* is refused.
Answer(r) ==
    /\ request[r].pc \in {"authenticated", "read"}
    /\ request' = [request EXCEPT ![r] = NoRequest]
    /\ UNCHANGED <<login, callback, session, profile, organization, membership>>

Logout(r) ==
    LET c == request[r].session
    IN /\ request[r].pc = "authenticated"
       /\ session' = [session EXCEPT ![c].status =
                         IF @ = "LIVE" THEN "REVOKED" ELSE @]
       /\ request' = [request EXCEPT ![r] = NoRequest]
       /\ UNCHANGED <<login, callback, profile, organization, membership>>

Changed == MapThenSumSet(LAMBDA m : membership[m].version - 1, Memberships)

May(r, method, org) ==
    Permits(AdministrationService[method], request[r].principal, ProjectOf(org))

CreateOrganization(r, o) ==
    /\ request[r].pc = "authenticated"
    /\ May(r, "createOrganization", o)
    /\ o \notin organization
    /\ organization' = organization \cup {o}
    /\ request' = [request EXCEPT ![r] = NoRequest]
    /\ UNCHANGED <<login, callback, session, profile, membership>>

\* The table's unique key refuses a second membership of the user.
CreateMembership(r, m) ==
    /\ request[r].pc = "authenticated"
    /\ May(r, "createMembership", OrganizationOf[m])
    /\ OrganizationOf[m] \in organization
    /\ UserOf[m] \in profile
    /\ membership[m].status = "ABSENT"
    /\ membership' = [membership EXCEPT ![m] =
                         [status |-> "ACTIVE", roles |-> {}, version |-> 1]]
    /\ request' = [request EXCEPT ![r] = NoRequest]
    /\ UNCHANGED <<login, callback, session, profile, organization>>

\* The version the client saw is compared with the one that is read; the
\* update that follows names the row only.
ReadStatus(r, m, status) ==
    /\ request[r].pc = "authenticated"
    /\ May(r, "updateMembershipStatus", OrganizationOf[m])
    /\ membership[m].status \notin {"ABSENT", status}
    /\ Changed < MaxChanges
    /\ request' = [request EXCEPT ![r] =
           [@ EXCEPT !.pc = "read", !.target = m, !.status = status,
                     !.principal = {}]]
    /\ UNCHANGED <<login, callback, session, profile, organization, membership>>

WriteStatus(r) ==
    LET m == request[r].target
    IN /\ request[r].pc = "read" /\ request[r].status # None
       /\ membership' = [membership EXCEPT
              ![m].status = request[r].status, ![m].version = @ + 1]
       /\ request' = [request EXCEPT ![r] = NoRequest]
       /\ UNCHANGED <<login, callback, session, profile, organization>>

ReadRoles(r, m, roles) ==
    /\ request[r].pc = "authenticated"
    /\ May(r, "assignRoles", OrganizationOf[m])
    /\ membership[m].status # "ABSENT"
    /\ Assignable(roles, TypeOf[OrganizationOf[m]])
    /\ roles # membership[m].roles
    /\ Changed < MaxChanges
    /\ request' = [request EXCEPT ![r] =
           [@ EXCEPT !.pc = "read", !.target = m, !.roles = roles,
                     !.before = membership[m].roles,
                     !.seen = membership[m].version, !.principal = {}]]
    /\ UNCHANGED <<login, callback, session, profile, organization, membership>>

\* Slip: the update names the row only, as that of the status does.
UpdatedBlindly(r) == TRUE

\* assignRoles updates the version only where it is still the one that was
\* read.
Unchanged(r) == membership[request[r].target].version = request[r].seen

\* It deletes the roles it read that are not asked for and inserts those
\* asked for that it did not read.
WriteRoles(r) ==
    LET m == request[r].target
        removed == request[r].before \ request[r].roles
        added == request[r].roles \ request[r].before
    IN /\ request[r].pc = "read" /\ request[r].status = None
       /\ Unchanged(r)
       /\ membership' = [membership EXCEPT
              ![m].roles = (@ \ removed) \cup added, ![m].version = @ + 1]
       /\ request' = [request EXCEPT ![r] = NoRequest]
       /\ UNCHANGED <<login, callback, session, profile, organization>>

Next ==
    \/ \E l \in Logins : BeginLogin(l) \/ ExpireLogin(l)
    \/ \E c \in Callbacks :
          \/ \E l \in Logins : FindLogin(c, l)
          \/ DeleteLogin(c) \/ ExchangeFails(c)
          \/ \E u \in Users : SynchronizeIdentity(c, u)
          \/ CreateSession(c) \/ ExpireSession(c)
    \/ \E r \in Requests :
          \/ \E c \in Callbacks : Authenticate(r, c)
          \/ Answer(r) \/ Logout(r)
          \/ \E o \in Organizations : CreateOrganization(r, o)
          \/ \E m \in Managed :
                \/ CreateMembership(r, m)
                \/ \E status \in {"ACTIVE", "INACTIVE"} : ReadStatus(r, m, status)
                \/ \E roles \in RoleChoices : ReadRoles(r, m, roles)
          \/ WriteStatus(r) \/ WriteRoles(r)

Spec == Init /\ [][Next]_vars

-----------------------------------------------------------------------------
(* Properties. *)

\* A login leads to one session at most, however often its callback is
\* delivered: the transaction that consumes it succeeds once.
OneSessionPerLogin ==
    \A c, d \in Callbacks :
        /\ session[c].status # "ABSENT" /\ session[d].status # "ABSENT"
        /\ session[c].login = session[d].login
        => c = d

\* Two administrators who give a membership roles at the same time do not
\* leave it with a mixture of what they asked for: what is written is one of
\* the choices, whole.
RolesAreOneChoice ==
    [][\A r \in Requests :
          request[r].pc = "read" /\ request[r].status = None
            /\ membership' # membership /\ request'[r].pc = "idle"
          => membership'[request[r].target].roles = request[r].roles]_vars

\* The duties docs/AUTHORIZATION_MATRIX.md gives the seeded roles, by what
\* they change: a command of this list is for these roles only.
Duties ==
    LET all == {"SYSTEM_ADMIN", "PROJECT_MANAGER"}
    IN [administration |-> {"SYSTEM_ADMIN"},
        items |-> {"SYSTEM_ADMIN", "ENGINEERING"},
        boms |-> all \cup {"ENGINEERING", "PPIC"},
        requisitions |-> all \cup {"PURCHASING"},
        purchaseOrders |-> all \cup {"PURCHASING", "SUPPLIER_ADMIN", "SUPPLIER_USER"},
        receiving |-> all \cup {"WAREHOUSE", "SUPPLIER_ADMIN", "SUPPLIER_USER"},
        inspections |-> all \cup {"QA_QC", "WAREHOUSE"},
        documents |-> all \cup {"ENGINEERING", "PURCHASING", "WAREHOUSE", "QA_QC",
                                "SUPPLIER_ADMIN", "SUPPLIER_USER"},
        ncrs |-> all \cup {"QA_QC", "PURCHASING", "SUPPLIER_ADMIN", "SUPPLIER_USER"},
        allocations |-> all \cup {"QA_QC", "PPIC", "WAREHOUSE", "PRODUCTION"},
        projects |-> all \cup {"ENGINEERING", "PPIC", "PURCHASING", "WAREHOUSE", "QA_QC"}]

\* These commands are for fewer, and a download is for every reader.
Reserved ==
    [requisitions |-> [approve |-> {"SYSTEM_ADMIN", "PROJECT_MANAGER"}],
     boms |-> [release |-> {"SYSTEM_ADMIN", "PROJECT_MANAGER"}],
     inspections |-> [createDefinition |-> {"SYSTEM_ADMIN", "QA_QC"},
                      finalizeConditional |-> {"SYSTEM_ADMIN", "QA_QC"}],
     allocations |->
        [createConditional |-> {"SYSTEM_ADMIN", "QA_QC"},
         consume |-> {"SYSTEM_ADMIN", "PROJECT_MANAGER", "QA_QC", "PRODUCTION"}],
     documents |->
        [approve |-> {"SYSTEM_ADMIN", "PROJECT_MANAGER", "QA_QC"},
         download |-> RoleCodes,
         downloadInReview |->
            {"SYSTEM_ADMIN", "PROJECT_MANAGER", "ENGINEERING", "PPIC", "QA_QC"}],
     ncrs |-> [close |-> {"SYSTEM_ADMIN", "PROJECT_MANAGER", "QA_QC", "PURCHASING"}]]

RolesFor(command) ==
    IF command[1] \in DOMAIN Reserved /\ command[2] \in DOMAIN Reserved[command[1]]
    THEN Reserved[command[1]][command[2]]
    ELSE Duties[command[1]]

\* What a principal may change besides the user's own inbox, as the policies
\* decide it.
Changes(principal, org) ==
    {c \in Commands : /\ Unsafe(c) /\ c[1] # "notifications"
                      /\ Permits(PolicyOf(c), principal, ProjectOf(org))}

\* Whoever signs in and whatever administrators assign meanwhile, a request
\* can change only what the matrix gives one of the user's roles: the seeded
\* permissions, the policies of fifteen services, the scopes of roles and the
\* kinds of organizations agree with the documented duties.
ChangesAreDuties ==
    \A r \in Requests : request[r].pc = "authenticated" =>
        \A o \in Organizations : \A c \in Changes(request[r].principal, o) :
            \E m \in request[r].principal : m.roles \cap RolesFor(c) # {}

=============================================================================
