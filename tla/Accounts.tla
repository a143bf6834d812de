------------------------------- MODULE Accounts -------------------------------
(***************************************************************************)
(* Users, roles and sessions: app/services/admin and the authentication    *)
(* endpoints of app/security.  Each worker process keeps an administration *)
(* from the first request that needs it; signup and login each build a     *)
(* service of their own over the same file, and both kinds rewrite the     *)
(* whole file from what they have in memory.  No handler awaits, so a      *)
(* request is one step; a read or a write that meets the write of another  *)
(* process counts as a fault.  Passwords are right or wrong; names,        *)
(* departments, settings, dashboards and the demo mode are left out.       *)
(***************************************************************************)
EXTENDS Naturals, Sequences, FiniteSets

CONSTANTS Servers,      \* the worker processes
          NoDesk,       \* no administration was built yet
          Emails,
          SeedEmails,     \* accounts made when there is no user, in order
          BuiltInGrants,  \* the permission codes of each built-in role
          CustomRoles,    \* roles that may be created
          Grants,         \* sets of permission codes that a request may name
          Unreadable,     \* a file that is missing or cannot be loaded
          MaxAttempts, LockFor, TokenLife, \* settings of the authentication
          MaxUsers, MaxTokens, MaxAccountClock, \* bounds
          MaxAdminRequests, \* administrations' requests and failed logins
          AccountFaults, AccountCrashes

UserStatuses == {"active", "inactive"} \* suspended and locked count as inactive
RoleNames == DOMAIN BuiltInGrants \cup CustomRoles
Codes     == UNION (Grants \cup {BuiltInGrants[r] : r \in DOMAIN BuiltInGrants})
Accounts  == [email: Emails, status: UserStatuses, roles: SUBSET RoleNames]
\* What a store holds: users by number and the permissions of roles.
Directories == [users: UNION {[U -> Accounts] : U \in SUBSET (1..MaxUsers)},
                roles: UNION {[R -> SUBSET Codes] : R \in SUBSET RoleNames}]

ASSUME AccountsAssumption ==
  /\ SeedEmails \in Seq(Emails) /\ Len(SeedEmails) <= MaxUsers /\ "admin" \in DOMAIN BuiltInGrants
  /\ BuiltInGrants \in [DOMAIN BuiltInGrants -> SUBSET Codes] /\ Unreadable \notin Directories
  /\ NoDesk \notin Directories
  /\ CustomRoles \cap DOMAIN BuiltInGrants = {}
  /\ MaxAttempts \in Nat \ {0} /\ LockFor \in Nat /\ TokenLife \in Nat
  /\ MaxUsers \in Nat /\ MaxTokens \in Nat /\ MaxAdminRequests \in Nat
  /\ MaxAccountClock \in Nat /\ AccountFaults \in Nat /\ AccountCrashes \in Nat

VARIABLES desk,       \* the directory in the memory of each administration
          adminFile,  \* the directory that admin.jsonl holds
          userCount,  \* users made so far; the next one takes the next number
          dismissed,  \* history: users that an administration deleted, and no
                      \* other one that still knew them wrote back
          upToDate,   \* history: the servers whose administration knows the
                      \* last write of an administration
          attempts, lockedUntil, \* by server: failed logins, and the lockout
          tokens, revoked, \* refresh tokens that were issued; those a server
                           \* has seen used up
          accountClock, adminRequests, acFaults, acCrashes

directoryVars == <<desk, adminFile, userCount, dismissed, upToDate>>
sessionVars   == <<attempts, lockedUntil, tokens, revoked>>
accountVars   == <<desk, adminFile, userCount, dismissed, upToDate, attempts, lockedUntil, tokens,
                   revoked, accountClock, adminRequests, acFaults, acCrashes>>

-----------------------------------------------------------------------------
(* InMemoryAdminStore *)

\* A table with one entry more or another one, and one completed by another.
With(table, x, entry) == [y \in DOMAIN table \cup {x} |-> IF y = x THEN entry ELSE table[y]]
CompletedBy(table, other) ==
  [x \in DOMAIN table \cup DOMAIN other |-> IF x \in DOMAIN table THEN table[x] ELSE other[x]]

\* Mutant of LoadDirectory: of the roles only the built-in ones come back.
LoadUsersOnly(f) ==
  [users |-> IF f = Unreadable THEN <<>> ELSE f.users, roles |-> BuiltInGrants]

\* Built-in roles that are missing are added.
LoadDirectory(f) ==
  IF f = Unreadable THEN [users |-> <<>>, roles |-> BuiltInGrants]
  ELSE [f EXCEPT !.roles = CompletedBy(@, BuiltInGrants)]

\* The whole file is written again for each of some directories.  A write
\* that fails, or meets that of another process, leaves the file as it was, or
\* in a state that cannot be loaded, and is healed by the next.
RewriteFile(directories, faults) ==
  LET n == Len(directories)
  IN  IF n = 0 THEN acFaults' = faults /\ UNCHANGED adminFile
      ELSE \/ adminFile' = directories[n] /\ acFaults' = faults
           \/ /\ faults < AccountFaults /\ acFaults' = faults + 1
              /\ adminFile' \in {Unreadable, IF n = 1 THEN adminFile ELSE directories[n - 1]}

-----------------------------------------------------------------------------
(* build_default_admin_service and _ensure_default_users *)

WithUser(d, u, email, status, roles) ==
  [d EXCEPT !.users = With(@, u, [email |-> email, status |-> status, roles |-> roles])]

\* The directories that opening the store writes: one for each account that
\* it makes, and none if there are users already.
Seedings(d, first) ==
  LET grown[i \in 0..Len(SeedEmails)] ==
        IF i = 0 THEN d ELSE WithUser(grown[i - 1], first + i, SeedEmails[i], "active", {"admin"})
  IN  IF DOMAIN d.users # {} THEN <<>> ELSE [i \in 1..Len(SeedEmails) |-> grown[i]]

LastOf(directories, d) == IF directories = <<>> THEN d ELSE directories[Len(directories)]
SeededFrom(d, first) == LastOf(Seedings(d, first), d)
Born(d, first) == first + Len(Seedings(d, first))

\* What opening the store may find: the directory of the file, or nothing.
Openings ==
  {[found |-> LoadDirectory(adminFile), faults |-> acFaults]} \cup
  (IF acFaults < AccountFaults
   THEN {[found |-> LoadDirectory(Unreadable), faults |-> acFaults + 1]} ELSE {})

AccountsInit ==
  /\ desk = [s \in Servers |-> NoDesk] /\ adminFile = Unreadable
  /\ userCount = 0 /\ dismissed = {} /\ upToDate = {}
  /\ attempts = [s \in Servers |-> [e \in Emails |-> 0]]
  /\ lockedUntil = [s \in Servers |-> [e \in Emails |-> 0]]
  /\ tokens = {} /\ revoked = [s \in Servers |-> {}]
  /\ accountClock = 0 /\ adminRequests = 0 /\ acFaults = 0 /\ acCrashes = 0

\* get_admin_service: built once, at the startup or for a request.
OpenDesk(s) ==
  /\ desk[s] = NoDesk
  /\ \E o \in Openings :
       /\ userCount' = Born(o.found, userCount) /\ userCount' <= MaxUsers
       /\ desk' = [desk EXCEPT ![s] = SeededFrom(o.found, userCount)]
       /\ RewriteFile(Seedings(o.found, userCount), o.faults)
  /\ upToDate' = upToDate \cup {s}
  /\ UNCHANGED <<dismissed, sessionVars, accountClock, adminRequests, acCrashes>>

-----------------------------------------------------------------------------
(* Requests to the administration: the memory is changed and written. *)

DeskChange(s, d) ==
  /\ desk[s] # NoDesk
  /\ adminRequests < MaxAdminRequests /\ adminRequests' = adminRequests + 1
  /\ desk' = [desk EXCEPT ![s] = d] /\ RewriteFile(<<d>>, acFaults)
  /\ dismissed' = (dismissed \ DOMAIN desk[s].users) \cup (DOMAIN desk[s].users \ DOMAIN d.users)
  /\ upToDate' = {s}
  /\ UNCHANGED <<sessionVars, accountClock, acCrashes>>

\* UserManagement.create asks for no free address.
CreateUser(s) ==
  /\ userCount < MaxUsers /\ userCount' = userCount + 1
  /\ \E e \in Emails, status \in UserStatuses, r \in DOMAIN desk[s].roles :
       DeskChange(s, WithUser(desk[s], userCount', e, status, {r}))

UpdateUser(s) ==
  /\ \E u \in DOMAIN desk[s].users :
       \/ \E e \in Emails : DeskChange(s, [desk[s] EXCEPT !.users[u].email = e])
       \/ \E status \in UserStatuses : DeskChange(s, [desk[s] EXCEPT !.users[u].status = status])
  /\ UNCHANGED userCount

DeleteUser(s) ==
  /\ \E u \in DOMAIN desk[s].users :
       DeskChange(s, [desk[s] EXCEPT !.users = [v \in DOMAIN @ \ {u} |-> @[v]]])
  /\ UNCHANGED userCount

CreateRole(s) ==
  /\ \E r \in CustomRoles \ DOMAIN desk[s].roles, g \in Grants :
       DeskChange(s, [desk[s] EXCEPT !.roles = With(@, r, g)])
  /\ UNCHANGED userCount

UpdatePermissions(s) ==
  /\ \E r \in DOMAIN desk[s].roles, g \in Grants : DeskChange(s, [desk[s] EXCEPT !.roles[r] = g])
  /\ UNCHANGED userCount

\* Users keep the identifier of a role that is deleted.
DeleteRole(s) ==
  /\ \E r \in DOMAIN desk[s].roles \ DOMAIN BuiltInGrants :
       DeskChange(s, [desk[s] EXCEPT !.roles = [q \in DOMAIN @ \ {r} |-> @[q]]])
  /\ UNCHANGED userCount

GrantRole(s) ==
  /\ \E u \in DOMAIN desk[s].users : \E r \in DOMAIN desk[s].roles \ desk[s].users[u].roles :
       DeskChange(s, [desk[s] EXCEPT !.users[u].roles = @ \cup {r}])
  /\ UNCHANGED userCount

RevokeRole(s) ==
  /\ \E u \in DOMAIN desk[s].users : \E r \in desk[s].users[u].roles :
       DeskChange(s, [desk[s] EXCEPT !.users[u].roles = @ \ {r}])
  /\ UNCHANGED userCount

\* Setting or deleting a platform setting writes the file again.
ChangeSetting(s) == DeskChange(s, desk[s]) /\ UNCHANGED userCount

\* What an administration that is open may be asked.
DeskRequest(s) ==
  /\ desk[s] # NoDesk
  /\ \/ CreateUser(s) \/ UpdateUser(s) \/ DeleteUser(s) \/ CreateRole(s) \/ UpdatePermissions(s)
     \/ DeleteRole(s) \/ GrantRole(s) \/ RevokeRole(s) \/ ChangeSetting(s)

-----------------------------------------------------------------------------
(* signup and login: a service over the file, built for the request *)

\* An index by address that is built anew finds the user added last.
ByEmail(d, e) ==
  LET holders == {u \in DOMAIN d.users : d.users[u].email = e}
  IN  {u \in holders : \A v \in holders : v <= u}

\* JWTIssuer.issue: an access token, which is left out, and a refresh token.
Issue(u, roles) ==
  /\ Cardinality(tokens) < MaxTokens
  /\ tokens' = tokens \cup {[serial |-> Cardinality(tokens) + 1, sub |-> u, roles |-> roles,
                             expires |-> accountClock + TokenLife]}

\* An address that is taken is refused, after the store has been opened.
Signup(e) ==
  /\ \E o \in Openings :
       LET s == Seedings(o.found, userCount)
           d == SeededFrom(o.found, userCount)
           u == Born(o.found, userCount) + 1
       IN  /\ u <= MaxUsers
           /\ IF ByEmail(d, e) # {}
              THEN userCount' = u - 1 /\ RewriteFile(s, o.faults) /\ UNCHANGED tokens
              ELSE /\ userCount' = u /\ RewriteFile(Append(s, WithUser(d, u, e, "active", {})), o.faults)
                   /\ Issue(u, {"viewer"})
  /\ UNCHANGED <<desk, dismissed, upToDate, attempts, lockedUntil, revoked,
                 accountClock, adminRequests, acCrashes>>

\* What the session says of the roles that the directory has for a user.
SessionRole(r) ==
  CASE r = "admin" -> "admin" [] r = "auditor" -> "auditor"
    [] r \in {"compliance_officer", "risk_manager", "reviewer", "analyst"} -> "analyst"
    [] OTHER -> "viewer"
SessionRoles(d, u) ==
  LET known == d.users[u].roles \cap DOMAIN d.roles
  IN  IF known = {} THEN {"viewer"} ELSE {SessionRole(r) : r \in known}

LockedOut(s, e) == accountClock < lockedUntil[s][e]

\* The count is not reset when a lockout has run out; past the limit it
\* makes no difference.
RecordFailure(s, e) ==
  /\ adminRequests < MaxAdminRequests /\ adminRequests' = adminRequests + 1
  /\ attempts' = [attempts EXCEPT ![s][e] = IF @ < MaxAttempts THEN @ + 1 ELSE @]
  /\ lockedUntil' = IF attempts[s][e] + 1 >= MaxAttempts
                    THEN [lockedUntil EXCEPT ![s][e] = accountClock + LockFor] ELSE lockedUntil

\* A login that succeeds notes its time in the store it opened.
Login(s, e) ==
  /\ ~LockedOut(s, e)
  /\ \E o \in Openings :
       LET d == SeededFrom(o.found, userCount)
       IN  /\ userCount' = Born(o.found, userCount) /\ userCount' <= MaxUsers
           /\ \/ /\ RecordFailure(s, e) /\ RewriteFile(Seedings(o.found, userCount), o.faults)
                 /\ UNCHANGED tokens
              \/ \E u \in ByEmail(d, e) :
                   /\ d.users[u].status = "active"
                   /\ attempts' = [attempts EXCEPT ![s][e] = 0]
                   /\ lockedUntil' = [lockedUntil EXCEPT ![s][e] = 0]
                   /\ RewriteFile(Append(Seedings(o.found, userCount), d), o.faults)
                   /\ Issue(u, SessionRoles(d, u)) /\ UNCHANGED adminRequests
  /\ UNCHANGED <<desk, dismissed, upToDate, revoked, accountClock, acCrashes>>

\* decode_jwt: the token has not run out.  A signature is right or the
\* request is refused.
Valid(t) == t.expires >= accountClock

\* A refresh token is used up and replaced by one with the same roles.
Refresh(s) ==
  /\ \E t \in tokens :
       /\ Valid(t) /\ t.serial \notin revoked[s]
       /\ revoked' = [revoked EXCEPT ![s] = @ \cup {t.serial}]
       /\ Issue(t.sub, t.roles)
  /\ UNCHANGED <<directoryVars, attempts, lockedUntil, accountClock, adminRequests,
                 acFaults, acCrashes>>

AccountsTick ==
  /\ accountClock < MaxAccountClock /\ accountClock' = accountClock + 1
  /\ UNCHANGED <<directoryVars, sessionVars, adminRequests, acFaults, acCrashes>>

\* A worker process ends and is started again.  Its administration, its
\* lockouts and the tokens it knows to be used up were in memory only.
StopServer(s) ==
  /\ acCrashes < AccountCrashes /\ acCrashes' = acCrashes + 1
  /\ desk' = [desk EXCEPT ![s] = NoDesk] /\ upToDate' = upToDate \ {s}
  /\ attempts' = [attempts EXCEPT ![s] = [e \in Emails |-> 0]]
  /\ lockedUntil' = [lockedUntil EXCEPT ![s] = [e \in Emails |-> 0]]
  /\ revoked' = [revoked EXCEPT ![s] = {}]
  /\ UNCHANGED <<adminFile, userCount, dismissed, tokens, accountClock, adminRequests, acFaults>>

AccountsNext ==
  \/ \E s \in Servers : OpenDesk(s) \/ DeskRequest(s) \/ Refresh(s) \/ StopServer(s)
  \/ \E e \in Emails : Signup(e) \/ \E s \in Servers : Login(s, e)
  \/ AccountsTick

AccountsSpec == AccountsInit /\ [][AccountsNext]_accountVars

-----------------------------------------------------------------------------
(* Properties *)

IsDirectory(d) ==
  /\ \A u \in DOMAIN d.users : u \in 1..userCount /\ d.users[u] \in Accounts
  /\ DOMAIN BuiltInGrants \subseteq DOMAIN d.roles

AccountsTypeOK ==
  /\ \A s \in Servers : desk[s] = NoDesk \/ IsDirectory(desk[s])
  /\ adminFile = Unreadable \/ IsDirectory(adminFile)
  /\ userCount \in 0..MaxUsers /\ dismissed \subseteq 1..userCount
  /\ attempts \in [Servers -> [Emails -> 0..MaxAttempts]]
  /\ \A t \in tokens : t.sub \in 1..userCount /\ t.serial \in 1..MaxTokens
  /\ \A s \in Servers : revoked[s] \subseteq 1..MaxTokens

\* A login decides by what the administration decided, although each login,
\* each signup and each administration keeps a store of its own and writes
\* over the file of the others.  As long as no read or write fails or meets
\* another one, every user whom an administration knows is in the file as it
\* knows him, with the same roles, until the administration of another
\* process writes (which erases what it did not know); and no user that was
\* deleted comes back with a signup, a login or a restart.
DirectoryAgrees ==
  acFaults = 0 =>
    LET f == LoadDirectory(adminFile)
    IN  /\ dismissed \cap DOMAIN f.users = {}
        /\ \A s \in upToDate :
             /\ \A u \in DOMAIN desk[s].users : u \in DOMAIN f.users /\ f.users[u] = desk[s].users[u]
             /\ f.roles = desk[s].roles
=============================================================================
