---------------------------- MODULE Access_proofs ----------------------------
(***************************************************************************)
(* One session per login, whole role sets, and no change without the duty  *)
(* for it, for any number of users, callbacks, requests and memberships.    *)
(***************************************************************************)
EXTENDS Access, TLAPS

Callings == {"idle", "found", "consumed", "failed", "identified", "done"}

Calls == [pc : Callings, login : Logins \cup {None}]

Sessions ==
  [status : {"ABSENT", "LIVE", "EXPIRED", "REVOKED"}, user : Users \cup {None},
   login : Logins \cup {None}]

Rows ==
  [status : {"ABSENT", "ACTIVE", "INACTIVE"}, roles : SUBSET RoleCodes, version : Nat]

(***************************************************************************)
(* Logins.                                                                 *)
(***************************************************************************)

\* The callback whose transaction deleted the row.
Consumed(c) == callback[c].pc \in {"consumed", "identified", "done"}

LoginsTyped ==
  /\ login \in [Logins -> {"ABSENT", "PENDING", "EXPIRED", "CONSUMED"}]
  /\ callback \in [Callbacks -> Calls]
  /\ session \in [Callbacks -> Sessions]

\* A callback beyond its transaction had a row to delete, and nobody else
\* deleted the same one.
RowsAreConsumedOnce ==
  /\ \A c \in Callbacks :
        callback[c].pc = "found" \/ Consumed(c) => callback[c].login \in Logins
  /\ \A c \in Callbacks : Consumed(c) => login[callback[c].login] = "CONSUMED"
  /\ \A c, d \in Callbacks :
        Consumed(c) /\ Consumed(d) /\ callback[c].login = callback[d].login => c = d

\* A session stands for the callback that made it.
SessionsHaveCallbacks ==
  \A c \in Callbacks : session[c].status # "ABSENT" =>
      callback[c].pc = "done" /\ session[c].login = callback[c].login

LoginInv == LoginsTyped /\ RowsAreConsumedOnce /\ SessionsHaveCallbacks

\* No login has been begun at the beginning.
LEMMA LoginInvAtStart == Init => LoginInv
BY DEF Init, LoginInv, LoginsTyped, RowsAreConsumedOnce, SessionsHaveCallbacks,
       Consumed, Calls, Callings, Sessions

\* The invariant of logins is inductive: a row is deleted by one callback.
LEMMA LoginInvKept ==
  ASSUME LoginInv, [Next]_vars
  PROVE  LoginInv'
<1> USE DEF LoginInv, LoginsTyped, Calls, Callings, Sessions
<1>1. CASE \E l \in Logins : BeginLogin(l) \/ ExpireLogin(l)
  <2> PICK l \in Logins : BeginLogin(l) \/ ExpireLogin(l)
    BY <1>1
  <2>1. login[l] # "CONSUMED" /\ UNCHANGED <<callback, session>>
    BY DEF BeginLogin, ExpireLogin
  <2>2. /\ login' \in [Logins -> {"ABSENT", "PENDING", "EXPIRED", "CONSUMED"}]
        /\ \A k \in Logins : k # l => login'[k] = login[k]
    BY DEF BeginLogin, ExpireLogin
  <2>3. RowsAreConsumedOnce'
    BY <2>1, <2>2 DEF RowsAreConsumedOnce, Consumed
  <2> QED
    BY <2>1, <2>2, <2>3 DEF SessionsHaveCallbacks
<1>2. ASSUME NEW c \in Callbacks, NEW l \in Logins, FindLogin(c, l)
      PROVE  LoginInv'
  <2>1. callback' \in [Callbacks -> Calls] /\ UNCHANGED <<login, session>>
    BY <1>2 DEF FindLogin
  <2>2. RowsAreConsumedOnce'
    BY <1>2 DEF FindLogin, RowsAreConsumedOnce, Consumed
  <2>3. SessionsHaveCallbacks'
    BY <1>2 DEF FindLogin, SessionsHaveCallbacks
  <2> QED
    BY <2>1, <2>2, <2>3
<1>3. ASSUME NEW c \in Callbacks, DeleteLogin(c)
      PROVE  LoginInv'
  <2> DEFINE l == callback[c].login
  <2>1. l \in Logins /\ callback[c].pc = "found"
    BY <1>3 DEF DeleteLogin, RowsAreConsumedOnce
  <2>2. /\ login' = [login EXCEPT ![l] = "CONSUMED"]
        /\ callback' = [callback EXCEPT ![c].pc = callback'[c].pc]
        /\ callback'[c].pc \in {"consumed", "failed"}
        /\ UNCHANGED session
    BY <1>3 DEF DeleteLogin
  <2>3. callback'[c].pc = "consumed" => login[l] # "CONSUMED"
    BY <1>3, <2>1 DEF DeleteLogin, StillThere
  <2>4. LoginsTyped'
    BY <2>1, <2>2
  <2>5. RowsAreConsumedOnce'
    <3>1. /\ \A d \in Callbacks : callback'[d].login = callback[d].login
          /\ \A d \in Callbacks : d # c => callback'[d] = callback[d]
      BY <2>1, <2>2
    <3>2. Consumed(c)' => \A d \in Callbacks : Consumed(d) => callback[d].login # l
      BY <2>2, <2>3 DEF RowsAreConsumedOnce, Consumed
    <3>3. \A d \in Callbacks :
            (callback[d].pc = "found" \/ Consumed(d))' => callback[d].login \in Logins
      BY <2>1, <3>1 DEF RowsAreConsumedOnce, Consumed
    <3>4. \A d \in Callbacks : Consumed(d)' => login'[callback[d].login] = "CONSUMED"
      BY <2>1, <2>2, <3>1 DEF RowsAreConsumedOnce, Consumed
    <3>5. \A d, e \in Callbacks :
            Consumed(d)' /\ Consumed(e)' /\ callback[d].login = callback[e].login => d = e
      BY <3>1, <3>2 DEF RowsAreConsumedOnce, Consumed
    <3> QED
      BY <3>1, <3>3, <3>4, <3>5 DEF RowsAreConsumedOnce, Consumed
  <2>6. SessionsHaveCallbacks'
    BY <2>1, <2>2 DEF SessionsHaveCallbacks
  <2> QED
    BY <2>4, <2>5, <2>6
<1>4. ASSUME NEW c \in Callbacks,
             \/ ExchangeFails(c)
             \/ \E u \in Users : SynchronizeIdentity(c, u)
             \/ CreateSession(c)
      PROVE  LoginInv'
  <2>1. Consumed(c) /\ callback[c].pc # "done" /\ UNCHANGED login
    BY <1>4 DEF ExchangeFails, SynchronizeIdentity, CreateSession, Consumed
  <2>2. /\ callback' = [callback EXCEPT ![c].pc = callback'[c].pc]
        /\ callback'[c].pc \in {"failed", "identified", "done"}
    BY <1>4 DEF ExchangeFails, SynchronizeIdentity, CreateSession
  <2>3. session' \in [Callbacks -> Sessions]
    BY <1>4 DEF ExchangeFails, SynchronizeIdentity, CreateSession
  <2>4. /\ \A d \in Callbacks : d # c => session'[d] = session[d]
        /\ session'[c].status # "ABSENT" =>
              callback'[c].pc = "done" /\ session'[c].login = callback'[c].login
    BY <1>4, <2>1 DEF ExchangeFails, SynchronizeIdentity, CreateSession,
       SessionsHaveCallbacks
  <2>5. /\ callback' \in [Callbacks -> Calls]
        /\ \A d \in Callbacks : /\ callback'[d].login = callback[d].login
                                /\ callback'[d].pc = "found" => callback[d].pc = "found"
                                /\ Consumed(d)' => Consumed(d)
                                /\ d # c => callback'[d] = callback[d]
    BY <2>1, <2>2 DEF Consumed
  <2>6. RowsAreConsumedOnce'
    <3>1. \A d \in Callbacks :
            (callback[d].pc = "found" \/ Consumed(d))' => callback'[d].login \in Logins
      BY <2>5 DEF RowsAreConsumedOnce
    <3>2. \A d \in Callbacks : Consumed(d)' => login'[callback'[d].login] = "CONSUMED"
      BY <2>1, <2>5 DEF RowsAreConsumedOnce
    <3>3. \A d, e \in Callbacks :
            Consumed(d)' /\ Consumed(e)' /\ callback'[d].login = callback'[e].login => d = e
      BY <2>5 DEF RowsAreConsumedOnce
    <3> QED
      BY <3>1, <3>2, <3>3 DEF RowsAreConsumedOnce
  <2>7. SessionsHaveCallbacks'
    BY <2>4, <2>5 DEF SessionsHaveCallbacks
  <2> QED
    BY <2>1, <2>3, <2>5, <2>6, <2>7
<1>5. ASSUME NEW c \in Callbacks,
             ExpireSession(c) \/ \E r \in Requests : Logout(r) /\ request[r].session = c
      PROVE  LoginInv'
  <2>1. /\ UNCHANGED <<login, callback>>
        /\ session' \in [Callbacks -> Sessions]
        /\ \A d \in Callbacks : /\ session'[d].login = session[d].login
                                /\ session'[d].status # "ABSENT" => session[d].status # "ABSENT"
    <3>1. CASE ExpireSession(c)
      BY <3>1 DEF ExpireSession
    <3>2. ASSUME NEW r \in Requests, Logout(r), request[r].session = c
          PROVE  /\ UNCHANGED <<login, callback>>
                 /\ \/ UNCHANGED session
                    \/ session' = [session EXCEPT ![c].status = "REVOKED"]
                       /\ session[c].status = "LIVE"
      <4>1. CASE session[c].status = "LIVE"
        BY <3>2, <4>1 DEF Logout
      <4>2. CASE session[c].status # "LIVE"
        BY <3>2, <4>2 DEF Logout
      <4> QED
        BY <4>1, <4>2
    <3>3. CASE \E r \in Requests : Logout(r) /\ request[r].session = c
      <4>1. /\ UNCHANGED <<login, callback>>
            /\ \/ UNCHANGED session
               \/ session' = [session EXCEPT ![c].status = "REVOKED"]
                  /\ session[c].status = "LIVE"
        BY <3>2, <3>3
      <4>2. CASE UNCHANGED session
        BY <4>1, <4>2
      <4>3. CASE session' = [session EXCEPT ![c].status = "REVOKED"]
                 /\ session[c].status = "LIVE"
        <5>1. [session[c] EXCEPT !.status = "REVOKED"] \in Sessions
          OBVIOUS
        <5>2. session' = [session EXCEPT ![c] = [session[c] EXCEPT !.status = "REVOKED"]]
          BY <4>3
        <5>3. session' \in [Callbacks -> Sessions]
          BY <5>1, <5>2
        <5>4. \A d \in Callbacks : /\ session'[d].login = session[d].login
                                  /\ session'[d].status # "ABSENT" => session[d].status # "ABSENT"
          BY <4>3
        <5> QED
          BY <4>1, <5>3, <5>4
      <4> QED
        BY <4>1, <4>2, <4>3
    <3> QED
      BY <1>5, <3>1, <3>3
  <2> QED
    BY <2>1 DEF RowsAreConsumedOnce, Consumed, SessionsHaveCallbacks
<1>6. ASSUME NEW r \in Requests, Logout(r), request[r].session \notin Callbacks
      PROVE  LoginInv'
  <2>1. UNCHANGED <<login, callback, session>>
    BY <1>6 DEF Logout
  <2> QED
    BY <2>1 DEF RowsAreConsumedOnce, Consumed, SessionsHaveCallbacks
<1>7. CASE UNCHANGED <<login, callback, session>>
  BY <1>7 DEF RowsAreConsumedOnce, Consumed, SessionsHaveCallbacks
<1>8. ASSUME NEW r \in Requests,
             \/ \E c \in Callbacks : Authenticate(r, c)
             \/ Answer(r)
             \/ \E o \in Organizations : CreateOrganization(r, o)
             \/ \E m \in Managed :
                   \/ CreateMembership(r, m)
                   \/ \E status \in {"ACTIVE", "INACTIVE"} : ReadStatus(r, m, status)
                   \/ \E roles \in RoleChoices : ReadRoles(r, m, roles)
             \/ WriteStatus(r) \/ WriteRoles(r)
      PROVE  UNCHANGED <<login, callback, session>>
  BY <1>8 DEF Authenticate, Answer, CreateOrganization, CreateMembership, ReadStatus,
     ReadRoles, WriteStatus, WriteRoles
<1> QED
  BY <1>1, <1>2, <1>3, <1>4, <1>5, <1>6, <1>7, <1>8 DEF Next, vars

\* However often the callback of a login is delivered, by any number of
\* browsers, and whenever the login expires in between: it leads to one
\* session at most.
THEOREM OneSession == Spec => []OneSessionPerLogin
<1>1. LoginInv => OneSessionPerLogin
  BY DEF LoginInv, OneSessionPerLogin, SessionsHaveCallbacks, RowsAreConsumedOnce, Consumed
<1> QED
  BY <1>1, LoginInvAtStart, LoginInvKept, PTL DEF Spec

-----------------------------------------------------------------------------
(***************************************************************************)
(* Roles.                                                                  *)
(***************************************************************************)

\* A request that is about to write the roles of a membership.
Assigning(r) == request[r].pc = "read" /\ request[r].status = None

Principals ==
  [id : Memberships, organization : Organizations, type : {"INTERNAL", "SUPPLIER"},
   roles : SUBSET RoleCodes]

Works ==
  [pc : {"idle", "authenticated", "read"}, session : Callbacks \cup {None},
   principal : SUBSET Principals, target : Memberships \cup {None},
   roles : SUBSET RoleCodes, status : {"ACTIVE", "INACTIVE", None}, seen : Nat,
   before : SUBSET RoleCodes]

RequestsTyped ==
  /\ membership \in [Memberships -> Rows]
  /\ request \in [Requests -> Works]
  /\ \A r \in Requests : request[r].pc = "read" => request[r].target \in Memberships

\* As long as the version is the one that was read, so are the roles.
Current(work, row) ==
  /\ row.status # "ABSENT"
  /\ work.seen <= row.version
  /\ work.seen = row.version => work.before = row.roles

VersionsTellRoles ==
  \A r \in Requests : Assigning(r) => Current(request[r], membership[request[r].target])

RoleInv == RequestsTyped /\ VersionsTellRoles

\* No request is at work at the beginning.
LEMMA RoleInvAtStart == Init => RoleInv
<1> SUFFICES ASSUME Init PROVE RoleInv
  OBVIOUS
<1>1. membership \in [Memberships -> Rows]
  BY AccessAssumption DEF Init, Rows
<1>2. request = [r \in Requests |-> NoRequest] /\ NoRequest \in Works
  BY DEF Init, NoRequest, Works
<1> QED
  BY <1>1, <1>2 DEF RoleInv, RequestsTyped, VersionsTellRoles, Assigning, NoRequest

\* A row changes roles only with its version, and is never taken away.
Advances(row, next) ==
  \/ next = row
  \/ row.status = "ABSENT"
  \/ next.status # "ABSENT" /\ next.version = row.version + 1

\* What was read of a membership is still so, or its version has moved on.
LEMMA AdvancingKeepsCurrent ==
  ASSUME NEW work \in Works, NEW row \in Rows, NEW next \in Rows,
         Current(work, row), Advances(row, next)
  PROVE  Current(work, next)
<1>1. CASE next = row
  BY <1>1
<1>2. CASE next.status # "ABSENT" /\ next.version = row.version + 1
  <2>1. work.seen \in Nat /\ row.version \in Nat /\ work.seen <= row.version
    BY DEF Works, Rows, Current
  <2>2. work.seen <= row.version + 1 /\ work.seen # row.version + 1
    BY <2>1
  <2> QED
    BY <1>2, <2>2 DEF Current
<1> QED
  BY <1>1, <1>2 DEF Advances, Current

\* Every write of a membership advances its version.
LEMMA MembershipsAdvance ==
  ASSUME RoleInv, [Next]_vars
  PROVE  /\ membership' \in [Memberships -> Rows]
         /\ \A m \in Memberships : Advances(membership[m], membership'[m])
<1> USE DEF RoleInv, RequestsTyped, Advances
<1>1. ASSUME NEW r \in Requests, NEW m \in Managed, CreateMembership(r, m)
      PROVE  /\ membership' \in [Memberships -> Rows]
             /\ \A n \in Memberships : Advances(membership[n], membership'[n])
  BY <1>1, AccessAssumption DEF CreateMembership, Rows
<1>2. ASSUME NEW r \in Requests, WriteStatus(r)
      PROVE  /\ membership' \in [Memberships -> Rows]
             /\ \A n \in Memberships : Advances(membership[n], membership'[n])
  <2> DEFINE m == request[r].target
             row == [membership[m] EXCEPT !.status = request[r].status,
                                          !.version = membership[m].version + 1]
  <2>1. m \in Memberships /\ request[r].status \in {"ACTIVE", "INACTIVE"}
    BY <1>2 DEF WriteStatus, Works
  <2>2. membership' = [membership EXCEPT ![m] = row]
    BY <1>2, <2>1 DEF WriteStatus
  <2>3. membership[m] \in Rows /\ membership[m].version + 1 \in Nat
    BY <2>1 DEF Rows
  <2>4. row \in Rows /\ row.status # "ABSENT" /\ row.version = membership[m].version + 1
    BY <2>1, <2>3 DEF Rows
  <2> HIDE DEF row
  <2> QED
    BY <2>1, <2>2, <2>4
<1>3. ASSUME NEW r \in Requests, WriteRoles(r)
      PROVE  /\ membership' \in [Memberships -> Rows]
             /\ \A n \in Memberships : Advances(membership[n], membership'[n])
  <2> DEFINE m == request[r].target
             written == (membership[m].roles \ (request[r].before \ request[r].roles))
                          \cup (request[r].roles \ request[r].before)
             row == [membership[m] EXCEPT !.roles = written,
                                          !.version = membership[m].version + 1]
  <2>1. m \in Memberships /\ request[r].roles \in SUBSET RoleCodes
        /\ membership[m].status # "ABSENT"
    BY <1>3 DEF WriteRoles, Works, VersionsTellRoles, Assigning, Current
  <2>2. membership' = [membership EXCEPT ![m] = row]
    BY <1>3, <2>1 DEF WriteRoles
  <2>3. /\ membership[m] \in Rows /\ membership[m].version + 1 \in Nat
        /\ written \in SUBSET RoleCodes
    BY <2>1 DEF Rows
  <2>4. row \in Rows /\ row.status # "ABSENT" /\ row.version = membership[m].version + 1
    BY <2>1, <2>3 DEF Rows
  <2> HIDE DEF row
  <2> QED
    BY <2>1, <2>2, <2>4
<1>4. CASE UNCHANGED membership
  BY <1>4
<1>5. ASSUME \/ \E l \in Logins : BeginLogin(l) \/ ExpireLogin(l)
             \/ \E c \in Callbacks :
                   \/ \E l \in Logins : FindLogin(c, l)
                   \/ DeleteLogin(c) \/ ExchangeFails(c)
                   \/ \E u \in Users : SynchronizeIdentity(c, u)
                   \/ CreateSession(c) \/ ExpireSession(c)
      PROVE  UNCHANGED membership
  BY <1>5 DEF BeginLogin, ExpireLogin, FindLogin, DeleteLogin, ExchangeFails,
     SynchronizeIdentity, CreateSession, ExpireSession
<1>6. ASSUME NEW r \in Requests,
             \/ \E c \in Callbacks : Authenticate(r, c)
             \/ Answer(r) \/ Logout(r)
             \/ \E o \in Organizations : CreateOrganization(r, o)
             \/ \E m \in Managed :
                   \/ \E status \in {"ACTIVE", "INACTIVE"} : ReadStatus(r, m, status)
                   \/ \E roles \in RoleChoices : ReadRoles(r, m, roles)
      PROVE  UNCHANGED membership
  BY <1>6 DEF Authenticate, Answer, Logout, CreateOrganization, ReadStatus, ReadRoles
<1> QED
  BY <1>1, <1>2, <1>3, <1>4, <1>5, <1>6 DEF Next, vars

\* A principal is made of the memberships and their roles.
LEMMA PrincipalsTyped ==
  ASSUME RoleInv, NEW u
  PROVE  PrincipalOf(u) \in SUBSET Principals
BY AccessAssumption DEF PrincipalOf, Principals, RoleInv, RequestsTyped, Rows

\* A request goes on with its own work only, which is whole when it reads a
\* membership: what it notes down is what it finds.
LEMMA RequestsProceed ==
  ASSUME RoleInv, [Next]_vars
  PROVE  /\ request' \in [Requests -> Works]
         /\ \A r \in Requests : request'[r] = request[r] \/ request'[r].pc # "read"
               \/ /\ request'[r].target \in Memberships
                  /\ \/ request'[r].status # None
                     \/ Current(request'[r], membership[request'[r].target])
<1> DEFINE Proceeds ==
        /\ request' \in [Requests -> Works]
        /\ \A r \in Requests : request'[r] = request[r] \/ request'[r].pc # "read"
               \/ /\ request'[r].target \in Memberships
                  /\ \/ request'[r].status # None
                     \/ Current(request'[r], membership[request'[r].target])
<1> USE DEF RoleInv, RequestsTyped
<1>1. ASSUME NEW r \in Requests, request' = [request EXCEPT ![r] = NoRequest]
      PROVE  Proceeds
  BY <1>1 DEF NoRequest, Works
<1>2. ASSUME NEW r \in Requests, NEW c \in Callbacks, Authenticate(r, c)
      PROVE  Proceeds
  <2> DEFINE work == [NoRequest EXCEPT !.pc = "authenticated", !.session = c,
                                       !.principal = PrincipalOf(session[c].user)]
  <2>1. request' = [request EXCEPT ![r] = work]
    BY <1>2 DEF Authenticate
  <2>2. work \in Works /\ work.pc # "read"
    BY PrincipalsTyped DEF NoRequest, Works
  <2> HIDE DEF work
  <2> QED
    BY <2>1, <2>2
<1>3. ASSUME NEW r \in Requests, NEW m \in Managed, NEW status \in {"ACTIVE", "INACTIVE"},
             ReadStatus(r, m, status)
      PROVE  Proceeds
  <2> DEFINE work == [request[r] EXCEPT !.pc = "read", !.target = m, !.status = status,
                                        !.principal = {}]
  <2>1. request' = [request EXCEPT ![r] = work]
    BY <1>3 DEF ReadStatus
  <2>2. m \in Memberships /\ request[r] \in Works /\ status # None
    BY AccessAssumption DEF None
  <2>3. work \in Works /\ work.target = m /\ work.status = status
    BY <2>2 DEF Works
  <2> HIDE DEF work
  <2> QED
    BY <2>1, <2>2, <2>3
<1>4. ASSUME NEW r \in Requests, NEW m \in Managed, NEW roles \in RoleChoices,
             ReadRoles(r, m, roles)
      PROVE  Proceeds
  <2> DEFINE work == [request[r] EXCEPT !.pc = "read", !.target = m, !.roles = roles,
                                        !.before = membership[m].roles,
                                        !.seen = membership[m].version, !.principal = {}]
  <2>1. request' = [request EXCEPT ![r] = work] /\ membership[m].status # "ABSENT"
    BY <1>4 DEF ReadRoles
  <2>2. /\ m \in Memberships /\ request[r] \in Works /\ roles \in SUBSET RoleCodes
        /\ membership[m].roles \in SUBSET RoleCodes /\ membership[m].version \in Nat
    BY AccessAssumption DEF Rows
  <2>3. /\ work \in Works /\ work.target = m /\ work.seen = membership[m].version
        /\ work.before = membership[m].roles
    BY <2>2 DEF Works
  <2> HIDE DEF work
  <2>4. Current(work, membership[m])
    BY <2>1, <2>2, <2>3 DEF Current
  <2> QED
    BY <2>1, <2>2, <2>3, <2>4
<1>5. ASSUME UNCHANGED request
      PROVE  Proceeds
  BY <1>5
<1>6. ASSUME \/ \E l \in Logins : BeginLogin(l) \/ ExpireLogin(l)
             \/ \E c \in Callbacks :
                   \/ \E l \in Logins : FindLogin(c, l)
                   \/ DeleteLogin(c) \/ ExchangeFails(c)
                   \/ \E u \in Users : SynchronizeIdentity(c, u)
                   \/ CreateSession(c) \/ ExpireSession(c)
      PROVE  UNCHANGED request
  BY <1>6 DEF BeginLogin, ExpireLogin, FindLogin, DeleteLogin, ExchangeFails,
     SynchronizeIdentity, CreateSession, ExpireSession
<1>7. ASSUME NEW r \in Requests,
             \/ Answer(r) \/ Logout(r)
             \/ \E o \in Organizations : CreateOrganization(r, o)
             \/ \E m \in Managed : CreateMembership(r, m)
             \/ WriteStatus(r) \/ WriteRoles(r)
      PROVE  request' = [request EXCEPT ![r] = NoRequest]
  BY <1>7 DEF Answer, Logout, CreateOrganization, CreateMembership, WriteStatus, WriteRoles
<1> HIDE DEF Proceeds
<1>8. Proceeds
  <2>1. ASSUME NEW r \in Requests,
               \/ \E c \in Callbacks : Authenticate(r, c)
               \/ Answer(r) \/ Logout(r)
               \/ \E o \in Organizations : CreateOrganization(r, o)
               \/ \E m \in Managed :
                     \/ CreateMembership(r, m)
                     \/ \E status \in {"ACTIVE", "INACTIVE"} : ReadStatus(r, m, status)
                     \/ \E roles \in RoleChoices : ReadRoles(r, m, roles)
               \/ WriteStatus(r) \/ WriteRoles(r)
        PROVE  Proceeds
    <3>1. CASE \/ Answer(r) \/ Logout(r)
               \/ \E o \in Organizations : CreateOrganization(r, o)
               \/ \E m \in Managed : CreateMembership(r, m)
               \/ WriteStatus(r) \/ WriteRoles(r)
      BY <1>1, <1>7, <3>1
    <3>2. CASE \E c \in Callbacks : Authenticate(r, c)
      BY <1>2, <3>2
    <3>3. CASE \E m \in Managed :
                  \/ \E status \in {"ACTIVE", "INACTIVE"} : ReadStatus(r, m, status)
                  \/ \E roles \in RoleChoices : ReadRoles(r, m, roles)
      BY <1>3, <1>4, <3>3
    <3> QED
      BY <2>1, <3>1, <3>2, <3>3
  <2> HIDE DEF RoleInv, RequestsTyped
  <2>2. CASE \/ \E l \in Logins : BeginLogin(l) \/ ExpireLogin(l)
             \/ \E c \in Callbacks :
                   \/ \E l \in Logins : FindLogin(c, l)
                   \/ DeleteLogin(c) \/ ExchangeFails(c)
                   \/ \E u \in Users : SynchronizeIdentity(c, u)
                   \/ CreateSession(c) \/ ExpireSession(c)
    BY <1>5, <1>6, <2>2
  <2>3. CASE UNCHANGED vars
    BY <1>5, <2>3 DEF vars
  <2> QED
    BY <2>1, <2>2, <2>3 DEF Next
<1> QED
  BY <1>8 DEF Proceeds

\* The invariant of roles is inductive.
LEMMA RoleInvKept ==
  ASSUME RoleInv, [Next]_vars
  PROVE  RoleInv'
<1>1. RequestsTyped'
  BY MembershipsAdvance, RequestsProceed DEF RoleInv, RequestsTyped
<1>2. ASSUME NEW r \in Requests, Assigning(r)'
      PROVE  Current(request[r], membership[request[r].target])'
  <2> DEFINE work == request'[r]
             m == request'[r].target
  <2>1. work \in Works /\ m \in Memberships
    BY <1>1, <1>2 DEF RequestsTyped, Assigning
  <2>2. membership[m] \in Rows /\ membership'[m] \in Rows
    BY <1>1, <2>1 DEF RoleInv, RequestsTyped
  <2>3. Current(work, membership[m])
    BY <1>2, RequestsProceed DEF RoleInv, VersionsTellRoles, Assigning
  <2>4. Advances(membership[m], membership'[m])
    BY <2>1, MembershipsAdvance
  <2> HIDE DEF work, m
  <2>5. Current(work, membership'[m])
    BY <2>1, <2>2, <2>3, <2>4, AdvancingKeepsCurrent
  <2> QED
    BY <2>5 DEF work, m, Current
<1> QED
  BY <1>1, <1>2 DEF RoleInv, VersionsTellRoles

\* Whatever number of administrators change roles and states of memberships at
\* the same time: who writes roles writes the set that was asked for, and no
\* mixture with another's, although the rows are deleted and inserted one by
\* one from what was read before.
THEOREM RolesAreWhole == Spec => RolesAreOneChoice
<1>1. RoleInv /\ [Next]_vars =>
        [\A r \in Requests :
           request[r].pc = "read" /\ request[r].status = None
             /\ membership' # membership /\ request'[r].pc = "idle"
           => membership'[request[r].target].roles = request[r].roles]_vars
  <2> SUFFICES ASSUME RoleInv, Next, NEW r \in Requests, Assigning(r),
                      membership' # membership, request'[r].pc = "idle"
               PROVE  membership'[request[r].target].roles = request[r].roles
    BY DEF Assigning, vars
  <2>1. request[r] \in Works /\ request[r].target \in Memberships
    BY DEF RoleInv, RequestsTyped, Assigning
  <2>2. WriteRoles(r)
    <3>1. ASSUME NEW s \in Requests, s # r,
                 \/ \E m \in Managed : CreateMembership(s, m)
                 \/ WriteStatus(s) \/ WriteRoles(s)
          PROVE  FALSE
      <4>1. request' = [request EXCEPT ![s] = NoRequest]
        BY <3>1 DEF CreateMembership, WriteStatus, WriteRoles
      <4>2. request'[r] = request[r]
        BY <3>1, <4>1 DEF RoleInv, RequestsTyped
      <4> QED
        BY <4>2 DEF Assigning
    <3>2. ~WriteStatus(r) /\ \A m \in Managed : ~CreateMembership(r, m)
      BY DEF WriteStatus, CreateMembership, Assigning
    <3> QED
      BY <3>1, <3>2 DEF Next, BeginLogin, ExpireLogin, FindLogin, DeleteLogin,
         ExchangeFails, SynchronizeIdentity, CreateSession, ExpireSession, Authenticate,
         Answer, Logout, CreateOrganization, ReadStatus, ReadRoles
  <2> DEFINE m == request[r].target
  <2>3. request[r].before = membership[m].roles
    BY <2>2 DEF RoleInv, VersionsTellRoles, WriteRoles, Unchanged, Current
  <2>4. membership'[m].roles = (membership[m].roles \ (request[r].before \ request[r].roles))
                                 \cup (request[r].roles \ request[r].before)
    BY <2>1, <2>2 DEF WriteRoles, RoleInv, RequestsTyped, Rows
  <2> QED
    BY <2>3, <2>4
<1> QED
  BY <1>1, RoleInvAtStart, RoleInvKept, PTL DEF Spec, RolesAreOneChoice

-----------------------------------------------------------------------------
(***************************************************************************)
(* Duties.  Who changes something holds a permission that its policy asks  *)
(* for, and each permission is given to few roles.                         *)
(***************************************************************************)
\* The roles the seed gives a permission.
Reaching(p) == {role \in RoleCodes : p \in PermissionsOf[role]}

\* The demands that one membership with the permission must meet.
Asks(policy, p) ==
  \E demand \in policy : /\ demand.scope \in {"ANY", "INTERNAL", "SUPPLIER", "OWN_INTERNAL"}
                         /\ p \in demand.permissions

\* Some role of the user's has the duty.
HasDuty(principal, part, method) ==
  \E m \in principal : m.roles \cap RolesFor(<<part, method>>) # {}

\* A method asks for a permission that only the duty's roles hold.
Guarded(part, method) ==
  \E p \in Permissions : /\ Asks(Services[part][method], p)
                         /\ Reaching(p) \subseteq RolesFor(<<part, method>>)

\* The seeded roles by name.
LEMMA CodesOfRoles ==
  RoleCodes = {"SYSTEM_ADMIN", "MECO_MANAGEMENT", "PROJECT_MANAGER", "ENGINEERING", "PPIC",
               "PURCHASING", "WAREHOUSE", "QA_QC", "PRODUCTION", "FINANCE_READONLY",
               "AUDITOR_READONLY", "SUPPLIER_ADMIN", "SUPPLIER_USER", "CUSTOMER_VIEWER"}
BY DEF RoleCodes, RoleScope

\* The two halves of the seeded table do not overlap.
LEMMA SeededPermissions ==
  /\ \A role \in DOMAIN OfficeRoles : PermissionsOf[role] = OfficeRoles[role]
  /\ \A role \in DOMAIN SiteAndOutsideRoles : PermissionsOf[role] = SiteAndOutsideRoles[role]
<1>1. DOMAIN OfficeRoles \cap DOMAIN SiteAndOutsideRoles = {}
  BY DEF OfficeRoles, SiteAndOutsideRoles
<1> QED
  BY <1>1 DEF PermissionsOf, Both

\* Whoever meets a demand for a permission has a role that holds it.
LEMMA AskedIsHeld ==
  ASSUME NEW principal \in SUBSET Principals, NEW project, NEW policy, NEW p,
         Permits(policy, principal, project), Asks(policy, p)
  PROVE  \E m \in principal : m.roles \cap Reaching(p) # {}
<1>1. PICK demand \in policy :
         /\ demand.scope \in {"ANY", "INTERNAL", "SUPPLIER", "OWN_INTERNAL"}
         /\ p \in demand.permissions
  BY DEF Asks
<1>2. Meets(principal, demand, project)
  BY DEF Permits
<1>3. \E m \in principal : demand.permissions \subseteq Granted(m.roles)
  <2>1. CASE demand.scope = "OWN_INTERNAL"
    BY <1>2, <2>1 DEF Meets
  <2>2. CASE demand.scope # "OWN_INTERNAL"
    BY <1>1, <1>2, <2>2 DEF Meets, Holds
  <2> QED
    BY <2>1, <2>2
<1>4. PICK m \in principal : p \in Granted(m.roles)
  BY <1>1, <1>3
<1>5. m.roles \subseteq RoleCodes
  BY DEF Principals
<1> QED
  BY <1>4, <1>5 DEF Granted, Reaching

\* A guarded method is for those who have the duty.
LEMMA GuardedIsDuty ==
  ASSUME NEW principal \in SUBSET Principals, NEW project, NEW part, NEW method,
         Guarded(part, method), Permits(Services[part][method], principal, project)
  PROVE  HasDuty(principal, part, method)
<1>1. PICK p \in Permissions : /\ Asks(Services[part][method], p)
                               /\ Reaching(p) \subseteq RolesFor(<<part, method>>)
  BY DEF Guarded
<1>2. \E m \in principal : m.roles \cap Reaching(p) # {}
  BY <1>1, AskedIsHeld
<1> QED
  BY <1>1, <1>2 DEF HasDuty

\* A policy asks for what any part of it asks for.
LEMMA WholeAsks ==
  ASSUME NEW policy, NEW other, NEW p, Asks(policy, p) \/ Asks(other, p)
  PROVE  Asks(policy \cup other, p)
BY DEF Asks

\* What the shared building blocks of policies ask for.
LEMMA BlocksAsk ==
  ASSUME NEW p
  PROVE  /\ Asks(AnyWith(p), p) /\ Asks(InternalWith(p), p) /\ Asks(SupplierWith(p), p)
         /\ Asks(ProjectWrite(p), p)
         /\ Asks(AdministrationWith(p), "administration.access")
         /\ Asks(OrganizationAdministrationWith(p), "administration.access")
<1>1. \A q : Asks(AnyWith(q), q) /\ Asks(InternalWith(q), q) /\ Asks(SupplierWith(q), q)
  BY DEF Asks, AnyWith, InternalWith, SupplierWith, Demand
<1>2. Asks(ProjectWrite(p), p)
  BY <1>1, WholeAsks DEF ProjectWrite
<1>3. /\ Asks(AdministrationWith(p), "administration.access")
      /\ Asks(OrganizationAdministrationWith(p), "administration.access")
  BY <1>1, WholeAsks DEF AdministrationWith, OrganizationAdministrationWith
<1> QED
  BY <1>1, <1>2, <1>3

\* Whom the table of duties names.
LEMMA RolesForIs ==
  ASSUME NEW part, NEW method
  PROVE  /\ part \notin DOMAIN Reserved \/ method \notin DOMAIN Reserved[part]
              => RolesFor(<<part, method>>) = Duties[part]
         /\ part \in DOMAIN Reserved /\ method \in DOMAIN Reserved[part]
              => RolesFor(<<part, method>>) = Reserved[part][method]
BY DEF RolesFor

\* No change of the part "administration" is open to a role without the duty.
LEMMA AdministrationGuarded ==
  ASSUME NEW method \in DOMAIN RouteTable["administration"], Unsafe(<<"administration", method>>)
  PROVE  Guarded("administration", method)
<1> DEFINE service == Services["administration"]
<1>1. method \in {"createOrganization", "createMembership", "updateMembershipStatus",
                  "assignRoles"}
  BY DEF Unsafe, RouteTable, Routes, AdministrationRoutes
<1>2. /\ Asks(service["createOrganization"], "administration.access")
      /\ Asks(service["createMembership"], "administration.access")
      /\ Asks(service["updateMembershipStatus"], "administration.access")
      /\ Asks(service["assignRoles"], "administration.access")
  BY BlocksAsk, WholeAsks DEF Services, AdministrationService
<1>3. /\ Reaching("administration.access") \subseteq Duties.administration
  BY CodesOfRoles, SeededPermissions DEF Duties, Reserved, Reaching, OfficeRoles,
     SiteAndOutsideRoles, Permissions, Reporting, Quality, 
     Viewing, Administration, InternalWork, SupplierWork, SupplierAdministration
<1>4. RolesFor(<<"administration", method>>) = Duties.administration
  BY RolesForIs DEF Reserved, Duties
<1>5. {"administration.access"} \subseteq Permissions
  BY DEF Permissions, Viewing, Administration, InternalWork, SupplierWork, SupplierAdministration
<1> HIDE DEF service
<1>6. \E p \in Permissions : Asks(service[method], p) /\ Reaching(p) \subseteq RolesFor(<<"administration", method>>)
  BY <1>1, <1>2, <1>3, <1>4, <1>5
<1> QED
  BY <1>6 DEF service, Guarded

\* No change of the part "items" is open to a role without the duty.
LEMMA ItemsGuarded ==
  ASSUME NEW method \in DOMAIN RouteTable["items"], Unsafe(<<"items", method>>)
  PROVE  Guarded("items", method)
<1> DEFINE service == Services["items"]
<1>1. method \in {"createItemCategory", "updateItemCategory", "createUnitOfMeasure",
                  "updateUnitOfMeasure", "createSpecificationAttribute",
                  "updateSpecificationAttribute", "createItem", "updateItem",
                  "deactivateItem"}
  BY DEF Unsafe, RouteTable, Routes, ItemSettingsRoutes, ItemsRoutes, Both
<1>2. /\ Asks(service["createItemCategory"], "item.write")
      /\ Asks(service["updateItemCategory"], "item.write")
      /\ Asks(service["createUnitOfMeasure"], "item.write")
      /\ Asks(service["updateUnitOfMeasure"], "item.write")
      /\ Asks(service["createSpecificationAttribute"], "item.write")
      /\ Asks(service["updateSpecificationAttribute"], "item.write")
      /\ Asks(service["createItem"], "item.write")
      /\ Asks(service["updateItem"], "item.write")
      /\ Asks(service["deactivateItem"], "item.write")
  BY BlocksAsk, WholeAsks DEF Services, ItemSettingsService, ItemAttributesService,
  ItemsService, Both, ItemAuthorization
<1>3. /\ Reaching("item.write") \subseteq Duties.items
  BY CodesOfRoles, SeededPermissions DEF Duties, Reserved, Reaching, OfficeRoles,
     SiteAndOutsideRoles, Permissions, Reporting, Quality, 
     Viewing, Administration, InternalWork, SupplierWork, SupplierAdministration
<1>4. RolesFor(<<"items", method>>) = Duties.items
  BY RolesForIs DEF Reserved, Duties
<1>5. {"item.write"} \subseteq Permissions
  BY DEF Permissions, Viewing, Administration, InternalWork, SupplierWork, SupplierAdministration
<1> HIDE DEF service
<1>6. \E p \in Permissions : Asks(service[method], p) /\ Reaching(p) \subseteq RolesFor(<<"items", method>>)
  BY <1>1, <1>2, <1>3, <1>4, <1>5
<1> QED
  BY <1>6 DEF service, Guarded

\* No change of the part "boms" is open to a role without the duty.
LEMMA BomsGuarded ==
  ASSUME NEW method \in DOMAIN RouteTable["boms"], Unsafe(<<"boms", method>>)
  PROVE  Guarded("boms", method)
<1> DEFINE service == Services["boms"]
<1>1. method \in {"createImport", "confirmImport", "updateLine", "review", "cancel",
                  "release", "supersede"}
  BY DEF Unsafe, RouteTable, Routes, BomImportRoutes, BomRevisionRoutes, Both
<1>2. /\ Asks(service["createImport"], "bom.import")
      /\ Asks(service["confirmImport"], "bom.import")
      /\ Asks(service["updateLine"], "bom.write")
      /\ Asks(service["review"], "bom.review")
      /\ Asks(service["cancel"], "bom.review")
      /\ Asks(service["release"], "bom.release")
      /\ Asks(service["supersede"], "bom.release")
  BY BlocksAsk, WholeAsks DEF Services, BomImportsService, BomRevisionsService, Both,
  BomAuthorization
<1>3. /\ Reaching("bom.import") \subseteq Duties.boms
      /\ Reaching("bom.write") \subseteq Duties.boms
      /\ Reaching("bom.review") \subseteq Duties.boms
      /\ Reaching("bom.release") \subseteq Reserved.boms.release
      /\ Reaching("bom.release") \subseteq Duties.boms
  BY CodesOfRoles, SeededPermissions DEF Duties, Reserved, Reaching, OfficeRoles,
     SiteAndOutsideRoles, Permissions, Reporting, Quality, 
     Viewing, Administration, InternalWork, SupplierWork, SupplierAdministration
<1>4. RolesFor(<<"boms", method>>) =
        IF method \in {"release"} THEN Reserved.boms[method] ELSE Duties.boms
  BY RolesForIs DEF Reserved, Duties
<1>5. {"bom.import", "bom.write", "bom.review", "bom.release"} \subseteq Permissions
  BY DEF Permissions, Viewing, Administration, InternalWork, SupplierWork, SupplierAdministration
<1> HIDE DEF service
<1>6. \E p \in Permissions : Asks(service[method], p) /\ Reaching(p) \subseteq RolesFor(<<"boms", method>>)
  BY <1>1, <1>2, <1>3, <1>4, <1>5
<1> QED
  BY <1>6 DEF service, Guarded

\* No change of the part "requisitions" is open to a role without the duty.
LEMMA RequisitionsGuarded ==
  ASSUME NEW method \in DOMAIN RouteTable["requisitions"], Unsafe(<<"requisitions", method>>)
  PROVE  Guarded("requisitions", method)
<1> DEFINE service == Services["requisitions"]
<1>1. method \in {"create", "submit", "approve", "reject", "cancel"}
  BY DEF Unsafe, RouteTable, Routes, RequisitionsRoutes
<1>2. /\ Asks(service["create"], "requisition.write")
      /\ Asks(service["submit"], "requisition.submit")
      /\ Asks(service["approve"], "requisition.approve")
      /\ Asks(service["reject"], "requisition.approve")
      /\ Asks(service["cancel"], "requisition.cancel")
  BY BlocksAsk, WholeAsks DEF Services, RequisitionsService, RequisitionAuthorization
<1>3. /\ Reaching("requisition.write") \subseteq Duties.requisitions
      /\ Reaching("requisition.submit") \subseteq Duties.requisitions
      /\ Reaching("requisition.approve") \subseteq Reserved.requisitions.approve
      /\ Reaching("requisition.approve") \subseteq Duties.requisitions
      /\ Reaching("requisition.cancel") \subseteq Duties.requisitions
  BY CodesOfRoles, SeededPermissions DEF Duties, Reserved, Reaching, OfficeRoles,
     SiteAndOutsideRoles, Permissions, Reporting, Quality, 
     Viewing, Administration, InternalWork, SupplierWork, SupplierAdministration
<1>4. RolesFor(<<"requisitions", method>>) =
        IF method \in {"approve"} THEN Reserved.requisitions[method] ELSE Duties.requisitions
  BY RolesForIs DEF Reserved, Duties
<1>5. {"requisition.write", "requisition.submit", "requisition.approve",
       "requisition.cancel"} \subseteq Permissions
  BY DEF Permissions, Viewing, Administration, InternalWork, SupplierWork, SupplierAdministration
<1> HIDE DEF service
<1>6. \E p \in Permissions : Asks(service[method], p) /\ Reaching(p) \subseteq RolesFor(<<"requisitions", method>>)
  BY <1>1, <1>2, <1>3, <1>4, <1>5
<1> QED
  BY <1>6 DEF service, Guarded

\* No change of the part "purchaseOrders" is open to a role without the duty.
LEMMA PurchaseOrdersGuarded ==
  ASSUME NEW method \in DOMAIN RouteTable["purchaseOrders"], Unsafe(<<"purchaseOrders", method>>)
  PROVE  Guarded("purchaseOrders", method)
<1> DEFINE service == Services["purchaseOrders"]
<1>1. method \in {"create", "revise", "send", "cancel", "acknowledge",
                  "appendCommitment"}
  BY DEF Unsafe, RouteTable, Routes, PurchaseOrdersRoutes, SupplierOrdersRoutes, Both
<1>2. /\ Asks(service["create"], "purchase-order.write")
      /\ Asks(service["revise"], "purchase-order.write")
      /\ Asks(service["send"], "purchase-order.send")
      /\ Asks(service["cancel"], "purchase-order.cancel")
      /\ Asks(service["acknowledge"], "supplier.purchase-order.acknowledge")
      /\ Asks(service["appendCommitment"], "supplier.commitment.write")
  BY BlocksAsk, WholeAsks DEF Services, PurchaseOrdersService, SupplierOrdersService,
  Both, PurchaseOrderAuthorization
<1>3. /\ Reaching("purchase-order.write") \subseteq Duties.purchaseOrders
      /\ Reaching("purchase-order.send") \subseteq Duties.purchaseOrders
      /\ Reaching("purchase-order.cancel") \subseteq Duties.purchaseOrders
      /\ Reaching("supplier.purchase-order.acknowledge") \subseteq Duties.purchaseOrders
      /\ Reaching("supplier.commitment.write") \subseteq Duties.purchaseOrders
  BY CodesOfRoles, SeededPermissions DEF Duties, Reserved, Reaching, OfficeRoles,
     SiteAndOutsideRoles, Permissions, Reporting, Quality, 
     Viewing, Administration, InternalWork, SupplierWork, SupplierAdministration
<1>4. RolesFor(<<"purchaseOrders", method>>) = Duties.purchaseOrders
  BY RolesForIs DEF Reserved, Duties
<1>5. {"purchase-order.write", "purchase-order.send", "purchase-order.cancel",
       "supplier.purchase-order.acknowledge", "supplier.commitment.write"} \subseteq Permissions
  BY DEF Permissions, Viewing, Administration, InternalWork, SupplierWork, SupplierAdministration
<1> HIDE DEF service
<1>6. \E p \in Permissions : Asks(service[method], p) /\ Reaching(p) \subseteq RolesFor(<<"purchaseOrders", method>>)
  BY <1>1, <1>2, <1>3, <1>4, <1>5
<1> QED
  BY <1>6 DEF service, Guarded

\* No change of the part "receiving" is open to a role without the duty.
LEMMA ReceivingGuarded ==
  ASSUME NEW method \in DOMAIN RouteTable["receiving"], Unsafe(<<"receiving", method>>)
  PROVE  Guarded("receiving", method)
<1> DEFINE service == Services["receiving"]
<1>1. method \in {"createAsn", "submitAsn", "dispatchAsn", "cancelAsn", "arriveAsn",
                  "createReceipt", "createCorrection", "postReceipt"}
  BY DEF Unsafe, RouteTable, Routes, SupplierShipmentsRoutes, ReceivingRoutes, Both
<1>2. /\ Asks(service["createAsn"], "supplier.asn.write")
      /\ Asks(service["submitAsn"], "supplier.asn.transition")
      /\ Asks(service["dispatchAsn"], "supplier.asn.transition")
      /\ Asks(service["cancelAsn"], "supplier.asn.transition")
      /\ Asks(service["arriveAsn"], "shipment.arrive")
      /\ Asks(service["createReceipt"], "receiving.write")
      /\ Asks(service["createCorrection"], "receiving.correct")
      /\ Asks(service["postReceipt"], "receiving.post")
  BY BlocksAsk, WholeAsks DEF Services, SupplierShipmentsService, ReceivingService,
  Both, ReceivingAuthorization
<1>3. /\ Reaching("supplier.asn.write") \subseteq Duties.receiving
      /\ Reaching("supplier.asn.transition") \subseteq Duties.receiving
      /\ Reaching("shipment.arrive") \subseteq Duties.receiving
      /\ Reaching("receiving.write") \subseteq Duties.receiving
      /\ Reaching("receiving.correct") \subseteq Duties.receiving
      /\ Reaching("receiving.post") \subseteq Duties.receiving
  BY CodesOfRoles, SeededPermissions DEF Duties, Reserved, Reaching, OfficeRoles,
     SiteAndOutsideRoles, Permissions, Reporting, Quality, 
     Viewing, Administration, InternalWork, SupplierWork, SupplierAdministration
<1>4. RolesFor(<<"receiving", method>>) = Duties.receiving
  BY RolesForIs DEF Reserved, Duties
<1>5. {"supplier.asn.write", "supplier.asn.transition", "shipment.arrive",
       "receiving.write", "receiving.correct", "receiving.post"} \subseteq Permissions
  BY DEF Permissions, Viewing, Administration, InternalWork, SupplierWork, SupplierAdministration
<1> HIDE DEF service
<1>6. \E p \in Permissions : Asks(service[method], p) /\ Reaching(p) \subseteq RolesFor(<<"receiving", method>>)
  BY <1>1, <1>2, <1>3, <1>4, <1>5
<1> QED
  BY <1>6 DEF service, Guarded

\* No change of the part "inspections" is open to a role without the duty.
LEMMA InspectionsGuarded ==
  ASSUME NEW method \in DOMAIN RouteTable["inspections"], Unsafe(<<"inspections", method>>)
  PROVE  Guarded("inspections", method)
<1> DEFINE service == Services["inspections"]
<1>1. method \in {"createDefinition", "updateDefinition", "createExplicit",
                  "saveResults", "finalize", "finalizeConditional"}
  BY DEF Unsafe, RouteTable, Routes, InspectionsRoutes
<1>2. /\ Asks(service["createDefinition"], "inspection.configure")
      /\ Asks(service["updateDefinition"], "inspection.configure")
      /\ Asks(service["createExplicit"], "inspection.create")
      /\ Asks(service["saveResults"], "inspection.write")
      /\ Asks(service["finalize"], "inspection.finalize")
      /\ Asks(service["finalizeConditional"], "inspection.conditional-accept")
  BY BlocksAsk, WholeAsks DEF Services, InspectionsService, InspectionRecordsService,
  Both, InspectionAuthorization
<1>3. /\ Reaching("inspection.configure") \subseteq Reserved.inspections.createDefinition
      /\ Reaching("inspection.configure") \subseteq Duties.inspections
      /\ Reaching("inspection.create") \subseteq Duties.inspections
      /\ Reaching("inspection.write") \subseteq Duties.inspections
      /\ Reaching("inspection.finalize") \subseteq Duties.inspections
      /\ Reaching("inspection.conditional-accept") \subseteq Reserved.inspections.finalizeConditional
  BY CodesOfRoles, SeededPermissions DEF Duties, Reserved, Reaching, OfficeRoles,
     SiteAndOutsideRoles, Permissions, Reporting, Quality, 
     Viewing, Administration, InternalWork, SupplierWork, SupplierAdministration
<1>4. RolesFor(<<"inspections", method>>) =
        IF method \in {"createDefinition", "finalizeConditional"} THEN Reserved.inspections[method] ELSE Duties.inspections
  BY RolesForIs DEF Reserved, Duties
<1>5. {"inspection.configure", "inspection.create", "inspection.write",
       "inspection.finalize", "inspection.conditional-accept"} \subseteq Permissions
  BY DEF Permissions, Viewing, Administration, InternalWork, SupplierWork, SupplierAdministration
<1> HIDE DEF service
<1>6. \E p \in Permissions : Asks(service[method], p) /\ Reaching(p) \subseteq RolesFor(<<"inspections", method>>)
  BY <1>1, <1>2, <1>3, <1>4, <1>5
<1> QED
  BY <1>6 DEF service, Guarded

\* No change of the part "ncrs" is open to a role without the duty.
LEMMA NcrsGuarded ==
  ASSUME NEW method \in DOMAIN RouteTable["ncrs"], Unsafe(<<"ncrs", method>>)
  PROVE  Guarded("ncrs", method)
<1> DEFINE service == Services["ncrs"]
<1>1. method \in {"create", "issue", "close", "cancel", "submitSupplierResponse"}
  BY DEF Unsafe, RouteTable, Routes, NcrsRoutes
<1>2. /\ Asks(service["create"], "ncr.create")
      /\ Asks(service["issue"], "ncr.issue")
      /\ Asks(service["close"], "ncr.close")
      /\ Asks(service["cancel"], "ncr.close")
      /\ Asks(service["submitSupplierResponse"], "supplier.ncr.respond")
  BY BlocksAsk, WholeAsks DEF Services, NcrsService, SupplierNcrsService, Both,
  NcrAuthorization
<1>3. /\ Reaching("ncr.create") \subseteq Duties.ncrs
      /\ Reaching("ncr.issue") \subseteq Duties.ncrs
      /\ Reaching("ncr.close") \subseteq Reserved.ncrs.close
      /\ Reaching("ncr.close") \subseteq Duties.ncrs
      /\ Reaching("supplier.ncr.respond") \subseteq Duties.ncrs
  BY CodesOfRoles, SeededPermissions DEF Duties, Reserved, Reaching, OfficeRoles,
     SiteAndOutsideRoles, Permissions, Reporting, Quality, 
     Viewing, Administration, InternalWork, SupplierWork, SupplierAdministration
<1>4. RolesFor(<<"ncrs", method>>) =
        IF method \in {"close"} THEN Reserved.ncrs[method] ELSE Duties.ncrs
  BY RolesForIs DEF Reserved, Duties
<1>5. {"ncr.create", "ncr.issue", "ncr.close", "supplier.ncr.respond"} \subseteq Permissions
  BY DEF Permissions, Viewing, Administration, InternalWork, SupplierWork, SupplierAdministration
<1> HIDE DEF service
<1>6. \E p \in Permissions : Asks(service[method], p) /\ Reaching(p) \subseteq RolesFor(<<"ncrs", method>>)
  BY <1>1, <1>2, <1>3, <1>4, <1>5
<1> QED
  BY <1>6 DEF service, Guarded

\* No change of the part "allocations" is open to a role without the duty.
LEMMA AllocationsGuarded ==
  ASSUME NEW method \in DOMAIN RouteTable["allocations"], Unsafe(<<"allocations", method>>)
  PROVE  Guarded("allocations", method)
<1> DEFINE service == Services["allocations"]
<1>1. method \in {"create", "createConditional", "release", "consume"}
  BY DEF Unsafe, RouteTable, Routes, AllocationsRoutes
<1>2. /\ Asks(service["create"], "allocation.create")
      /\ Asks(service["createConditional"], "allocation.conditional-use")
      /\ Asks(service["release"], "allocation.release")
      /\ Asks(service["consume"], "allocation.consume")
  BY BlocksAsk, WholeAsks DEF Services, AllocationsService, AllocationAuthorization
<1>3. /\ Reaching("allocation.create") \subseteq Duties.allocations
      /\ Reaching("allocation.conditional-use") \subseteq Reserved.allocations.createConditional
      /\ Reaching("allocation.release") \subseteq Duties.allocations
      /\ Reaching("allocation.consume") \subseteq Reserved.allocations.consume
  BY CodesOfRoles, SeededPermissions DEF Duties, Reserved, Reaching, OfficeRoles,
     SiteAndOutsideRoles, Permissions, Reporting, Quality, 
     Viewing, Administration, InternalWork, SupplierWork, SupplierAdministration
<1>4. RolesFor(<<"allocations", method>>) =
        IF method \in {"createConditional", "consume"} THEN Reserved.allocations[method] ELSE Duties.allocations
  BY RolesForIs DEF Reserved, Duties
<1>5. {"allocation.create", "allocation.conditional-use", "allocation.release",
       "allocation.consume"} \subseteq Permissions
  BY DEF Permissions, Viewing, Administration, InternalWork, SupplierWork, SupplierAdministration
<1> HIDE DEF service
<1>6. \E p \in Permissions : Asks(service[method], p) /\ Reaching(p) \subseteq RolesFor(<<"allocations", method>>)
  BY <1>1, <1>2, <1>3, <1>4, <1>5
<1> QED
  BY <1>6 DEF service, Guarded

\* No change of the part "projects" is open to a role without the duty.
LEMMA ProjectsGuarded ==
  ASSUME NEW method \in DOMAIN RouteTable["projects"], Unsafe(<<"projects", method>>)
  PROVE  Guarded("projects", method)
<1> DEFINE service == Services["projects"]
<1>1. method \in {"createProductCategory", "updateProductCategory", "createProject",
                  "updateProject", "transitionProject", "createMilestone",
                  "updateMilestone", "createWorkPackage", "updateWorkPackage",
                  "addProjectMember", "updateProjectMember"}
  BY DEF Unsafe, RouteTable, Routes, ProjectsRoutes, ProjectPlanRoutes, Both
<1>2. /\ Asks(service["createProductCategory"], "project.write")
      /\ Asks(service["updateProductCategory"], "project.write")
      /\ Asks(service["createProject"], "project.write")
      /\ Asks(service["updateProject"], "project.write")
      /\ Asks(service["transitionProject"], "project.write")
      /\ Asks(service["createMilestone"], "project.write")
      /\ Asks(service["updateMilestone"], "project.write")
      /\ Asks(service["createWorkPackage"], "project.write")
      /\ Asks(service["updateWorkPackage"], "project.write")
      /\ Asks(service["addProjectMember"], "project.membership.manage")
      /\ Asks(service["updateProjectMember"], "project.membership.manage")
  <2>1. /\ service["createProductCategory"] = ProjectAuthorization.requireCategoryWrite
        /\ service["updateProductCategory"] = ProjectAuthorization.requireCategoryWrite
        /\ service["createProject"] = ProjectAuthorization.requireCreate
        /\ \A m \in {"updateProject", "transitionProject"} :
              service[m] = ProjectAuthorization.requireProjectWrite
        /\ \A m \in {"createMilestone", "updateMilestone", "createWorkPackage",
                      "updateWorkPackage"} :
              service[m] = ProjectAuthorization.requireProjectWrite
        /\ service["addProjectMember"] = ProjectAuthorization.requireMemberManagement
        /\ service["updateProjectMember"] = ProjectAuthorization.requireMemberManagement
    BY DEF Services, ProjectsService, ProjectPlanService, ProjectScheduleService, Both
  <2>2. /\ Asks(ProjectAuthorization.requireCategoryWrite, "project.write")
        /\ Asks(ProjectAuthorization.requireProjectWrite, "project.write")
        /\ Asks(ProjectAuthorization.requireMemberManagement, "project.membership.manage")
    BY BlocksAsk, WholeAsks DEF ProjectAuthorization
  <2>3. Asks(ProjectAuthorization.requireCreate, "project.write")
    BY DEF ProjectAuthorization, Asks, Demand
  <2> HIDE DEF service
  <2> QED
    BY <2>1, <2>2, <2>3
<1>3. /\ Reaching("project.write") \subseteq Duties.projects
      /\ Reaching("project.membership.manage") \subseteq Duties.projects
  BY CodesOfRoles, SeededPermissions DEF Duties, Reserved, Reaching, OfficeRoles,
     SiteAndOutsideRoles, Permissions, Reporting, Quality, 
     Viewing, Administration, InternalWork, SupplierWork, SupplierAdministration
<1>4. RolesFor(<<"projects", method>>) = Duties.projects
  BY RolesForIs DEF Reserved, Duties
<1>5. {"project.write", "project.membership.manage"} \subseteq Permissions
  BY DEF Permissions, Viewing, Administration, InternalWork, SupplierWork, SupplierAdministration
<1> HIDE DEF service
<1>6. \E p \in Permissions : Asks(service[method], p) /\ Reaching(p) \subseteq RolesFor(<<"projects", method>>)
  BY <1>1, <1>2, <1>3, <1>4, <1>5
<1> QED
  BY <1>6 DEF service, Guarded

\* Whoever may upload a document holds one of two permissions.
LEMMA UploadingIsDuty ==
  ASSUME NEW principal \in SUBSET Principals, NEW project,
         CanUploadDocument(principal, project)
  PROVE  \E m \in principal : m.roles \cap Duties.documents # {}
<1>1. PICK m \in principal, p \in {"document.upload", "supplier.document.upload"} :
          p \in Granted(m.roles)
  BY DEF CanUploadDocument, Holds
<1>2. m.roles \subseteq RoleCodes
  BY DEF Principals
<1>3. PICK role \in m.roles : p \in PermissionsOf[role]
  BY <1>1 DEF Granted
<1>4. /\ Reaching("document.upload") \subseteq Duties.documents
      /\ Reaching("supplier.document.upload") \subseteq Duties.documents
  BY CodesOfRoles, SeededPermissions DEF Duties, Reaching, OfficeRoles, SiteAndOutsideRoles,
     Permissions, Reporting, Quality, Viewing, Administration, InternalWork, SupplierWork,
     SupplierAdministration
<1> QED
  BY <1>1, <1>2, <1>3, <1>4 DEF Reaching

\* No change of the part "documents" is open to a role without the duty.
LEMMA DocumentsAreDuty ==
  ASSUME NEW principal \in SUBSET Principals, NEW project,
         NEW method \in DOMAIN RouteTable["documents"], Unsafe(<<"documents", method>>),
         Permits(Services["documents"][method], principal, project)
  PROVE  HasDuty(principal, "documents", method)
<1> DEFINE service == Services["documents"]
           uploads == {"initiate", "supersede", "complete", "submit"}
<1>1. method \in uploads \cup {"approve", "reject", "download", "downloadInReview"}
  BY DEF Unsafe, RouteTable, Routes, DocumentsRoutes
<1>2. RolesFor(<<"documents", method>>) =
        IF method \in {"approve", "download", "downloadInReview"}
        THEN Reserved.documents[method] ELSE Duties.documents
  BY RolesForIs DEF Reserved, Duties
<1>3. CASE method \in uploads
  <2>1. service[method] = {Demand("UPLOAD", {})}
    <3>1. service[method] = DocumentAuthorization.requireUpload
      BY <1>3 DEF Services, DocumentUploadsService, DocumentReviewsService, Both
    <3> QED
      BY <3>1 DEF DocumentAuthorization
  <2>2. Meets(principal, Demand("UPLOAD", {}), project)
    BY <2>1 DEF Permits
  <2>3. CanUploadDocument(principal, project)
    BY <2>2 DEF Meets, Demand
  <2> QED
    BY <1>2, <1>3, <2>3, UploadingIsDuty DEF HasDuty
<1>4. CASE method \notin uploads
  <2>1. /\ Asks(service["approve"], "document.approve")
        /\ Asks(service["reject"], "document.approve")
        /\ Asks(service["downloadInReview"], "document.review")
    BY BlocksAsk, WholeAsks DEF Services, DocumentUploadsService, DocumentReviewsService,
       Both, DocumentAuthorization
  <2>2. Asks(service["download"], "project.read")
    <3>1. Asks(ProjectAuthorization.requireProjectRead, "project.read")
      BY BlocksAsk, WholeAsks DEF ProjectAuthorization
    <3>2. Asks(DocumentAuthorization.requireRead, "project.read")
      BY <3>1, WholeAsks DEF DocumentAuthorization
    <3>3. service["download"] = DocumentAuthorization.requireRead
      BY DEF Services, DocumentUploadsService, DocumentReviewsService, Both
    <3> QED
      BY <3>2, <3>3
  <2>3. /\ Reaching("document.approve") \subseteq Reserved.documents.approve
        /\ Reaching("document.approve") \subseteq Duties.documents
        /\ Reaching("document.review") \subseteq Reserved.documents.downloadInReview
        /\ Reaching("project.read") \subseteq Reserved.documents.download
    BY CodesOfRoles, SeededPermissions DEF Duties, Reserved, Reaching, OfficeRoles,
       SiteAndOutsideRoles, Permissions, Reporting, Quality, Viewing, Administration,
       InternalWork, SupplierWork, SupplierAdministration
  <2>4. {"document.approve", "document.review", "project.read"} \subseteq Permissions
    BY DEF Permissions, Viewing, InternalWork
  <2> HIDE DEF service
  <2>5. \E p \in Permissions : /\ Asks(service[method], p)
                               /\ Reaching(p) \subseteq RolesFor(<<"documents", method>>)
    BY <1>1, <1>2, <1>4, <2>1, <2>2, <2>3, <2>4
  <2> QED
    BY <2>5, GuardedIsDuty DEF service, Guarded
<1> QED
  BY <1>3, <1>4

\* Three parts only read.
LEMMA ThreePartsRead ==
  ASSUME NEW part \in {"readiness", "reports", "requirementStatus"},
         NEW method \in DOMAIN RouteTable[part]
  PROVE  ~Unsafe(<<part, method>>)
BY DEF Unsafe, RouteTable, Routes, ReadinessRoutes, ReportsRoutes, RequirementStatusRoutes

\* Whatever the user's memberships and the project, who is permitted a change
\* has the duty for it.
LEMMA ChangesNeedDuty ==
  ASSUME NEW principal \in SUBSET Principals, NEW o, NEW c \in Changes(principal, o)
  PROVE  HasDuty(principal, c[1], c[2])
<1>1. PICK part \in DOMAIN Services : \E method \in DOMAIN Services[part] : c = <<part, method>>
  BY DEF Changes, Commands
<1>2. PICK method \in DOMAIN Services[part] : c = <<part, method>>
  BY <1>1
<1>3. /\ part # "notifications" /\ Unsafe(<<part, method>>)
      /\ Permits(Services[part][method], principal, ProjectOf(o))
  BY <1>2 DEF Changes, PolicyOf
<1>4. method \in DOMAIN RouteTable[part]
  BY <1>2, RoutesReachServices
<1>5. part \in {"administration", "allocations", "boms", "documents", "inspections", "items",
                "ncrs", "projects", "purchaseOrders", "readiness", "receiving", "reports",
                "requirementStatus", "requisitions"}
  BY <1>2, <1>3 DEF Services
<1>6. part \notin {"readiness", "reports", "requirementStatus"}
  BY <1>3, <1>4, ThreePartsRead
<1>7. CASE part = "documents"
  BY <1>2, <1>3, <1>4, <1>7, DocumentsAreDuty
<1>8. CASE part # "documents"
  <2>1. Guarded(part, method)
    BY <1>3, <1>4, <1>5, <1>6, <1>8, AdministrationGuarded, AllocationsGuarded, BomsGuarded,
       InspectionsGuarded, ItemsGuarded, NcrsGuarded, ProjectsGuarded,
       PurchaseOrdersGuarded, ReceivingGuarded, RequisitionsGuarded
  <2>2. HasDuty(principal, part, method)
    BY <1>3, <2>1, GuardedIsDuty
  <2> QED
    BY <1>2, <2>2
<1> QED
  BY <1>7, <1>8

\* Whoever signs in, with whatever memberships and roles, and whatever
\* administrators assign meanwhile: what a request can change is a duty of one
\* of the user's roles.  The principal may be out of date when it is used, but
\* it is of seeded roles, and no policy is open to a seeded role without the
\* duty.
THEOREM ChangesStayDuties == Spec => []ChangesAreDuties
<1>1. RoleInv => ChangesAreDuties
  <2> SUFFICES ASSUME RoleInv, NEW r \in Requests, NEW o \in Organizations,
                      NEW c \in Changes(request[r].principal, o)
               PROVE  \E m \in request[r].principal : m.roles \cap RolesFor(c) # {}
    BY DEF ChangesAreDuties
  <2>1. request[r].principal \in SUBSET Principals
    BY DEF RoleInv, RequestsTyped, Works
  <2>2. HasDuty(request[r].principal, c[1], c[2])
    BY <2>1, ChangesNeedDuty
  <2>3. c = <<c[1], c[2]>>
    BY DEF Changes, Commands
  <2> QED
    BY <2>2, <2>3, Zenon DEF HasDuty
<1> QED
  BY <1>1, RoleInvAtStart, RoleInvKept, PTL DEF Spec

=============================================================================
