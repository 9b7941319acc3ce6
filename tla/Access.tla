-------------------------------- MODULE Access --------------------------------
(***************************************************************************)
(* Who may sign in and who may administer: lib/access-control.ts, the      *)
(* NextAuth callbacks of lib/auth.ts, lib/authz.ts, and the admin-only     *)
(* routes PATCH /api/users, POST and DELETE /api/access-list.              *)
(*                                                                         *)
(* A request is a sign-in (AUTH_MODE=oidc) or a call of an admin route; it *)
(* takes one action per database statement.  The two counts of             *)
(* isFirstUser are one action: user rows are never deleted, so a pair of   *)
(* zeros read at two moments was also there at the earlier one.            *)
(***************************************************************************)
EXTENDS Naturals, FiniteSets

CONSTANTS
  Emails,      \* identities the provider can vouch for
  Domains,     \* their domains
  DomainOf,    \* the domain of each address
  Requests,    \* requests, each handled once
  AdminOps,    \* what administrators ask for
  Overlap,     \* "signIn": a sign-in may run while other requests do
  MaxCrashes,  \* bound on requests whose process dies
  MaxRestarts, \* bound on restarts with another AUTH_MODE
  Nobody       \* no holder of the lock

Roles == {"ADMIN", "DEVELOPER"}

Ops == {"add", "remove", "setRole"}

Entries == Emails \cup Domains

ASSUME AccessAssumption ==
  /\ DomainOf \in [Emails -> Domains]
  /\ Emails \cap Domains = {}
  /\ AdminOps \subseteq Ops
  /\ MaxCrashes \in Nat /\ MaxRestarts \in Nat
  /\ Nobody \notin Requests

VARIABLES
  users,    \* User rows: the role of each address, or "none"
  list,     \* AccessList rows: the role of each entry, or "none"
  tokens,   \* the roles in the live session tokens of each address
  mode,     \* AUTH_MODE of the running server
  pc,       \* where each request is
  who,      \* the identity that makes it
  lower,    \* the provider sends the domain in lower case
  role,     \* the role a sign-in has computed
  first,    \* whether it took itself for the first user
  lock,     \* holder of the advisory lock of bootstrapFirstProxyAdmin
  claims,   \* history: who became ADMIN for being first, since the list was emptied
  removed,  \* history: entries an administrator has removed
  crashes, restarts

tables  == <<users, list>>
history == <<claims, removed>>
reqVars == <<who, lower, role, first>>
counts  == <<crashes, restarts>>
vars    == <<tables, tokens, mode, pc, reqVars, lock, history, counts>>

Over == {"done", "denied", "crashed"}

SigningIn == {"checkEmail", "checkDomain", "admitted", "roleEmail", "roleDomain",
              "upsert", "claim", "issue"}

Bootstrapping == {"lockBoot", "recheck", "insert"}

PCs == {"idle", "admin", "proxyDomain", "precheck", "authorized", "adding"}
         \cup SigningIn \cup Bootstrapping \cup Over

InFlight(r) == pc[r] \notin Over \cup {"idle"}

Quiet == \A r \in Requests : ~InFlight(r)

NoEntries == \A e \in Entries : list[e] = "none"

Init ==
  /\ users = [e \in Emails |-> "none"]
  /\ list = [e \in Entries |-> "none"]
  /\ tokens = [e \in Emails |-> {}]
  /\ mode \in {"oidc", "proxy"}
  /\ pc = [r \in Requests |-> "idle"]
  /\ \E e \in Emails : who = [r \in Requests |-> e]
  /\ lower = [r \in Requests |-> TRUE]
  /\ role = [r \in Requests |-> "DEVELOPER"]
  /\ first = [r \in Requests |-> FALSE]
  /\ lock = Nobody
  /\ claims = {} /\ removed = {}
  /\ crashes = 0 /\ restarts = 0

Goto(r, from, to) == pc[r] = from /\ pc' = [pc EXCEPT ![r] = to]

-----------------------------------------------------------------------------
(* Sign-in: the signIn callback admits, the jwt callback writes the rows.   *)

IsFirstUser == NoEntries /\ \A e \in Emails : users[e] = "none"

\* The entry of the address's domain, as checkUserAccess looks it up: the stored
\* value is in lower case, what the provider sends is compared as it is.
DomainRole(r) == IF lower[r] THEN list[DomainOf[who[r]]] ELSE "none"

\* Environment: without "signIn" in Overlap a sign-in runs alone.
SignIn(r, e, low) ==
  /\ mode = "oidc"
  /\ "signIn" \in Overlap \/ Quiet
  /\ Goto(r, "idle", IF IsFirstUser THEN "admitted" ELSE "checkEmail")
  /\ who' = [who EXCEPT ![r] = e]
  /\ lower' = [lower EXCEPT ![r] = low]
  /\ UNCHANGED <<tables, tokens, mode, role, first, lock, history, counts>>

CheckEmail(r) ==
  /\ Goto(r, "checkEmail", IF list[who[r]] # "none" THEN "admitted" ELSE "checkDomain")
  /\ UNCHANGED <<tables, tokens, mode, reqVars, lock, history, counts>>

\* Slip: everyone is admitted.
CheckNoDomain(r) ==
  /\ Goto(r, "checkDomain", "admitted")
  /\ UNCHANGED <<tables, tokens, mode, reqVars, lock, history, counts>>

CheckDomain(r) ==
  /\ Goto(r, "checkDomain", IF DomainRole(r) # "none" THEN "admitted" ELSE "denied")
  /\ UNCHANGED <<tables, tokens, mode, reqVars, lock, history, counts>>

\* createOrUpdateUser asks again whether this is the first user.
Decide(r) ==
  /\ Goto(r, "admitted", IF IsFirstUser THEN "upsert" ELSE "roleEmail")
  /\ first' = [first EXCEPT ![r] = IsFirstUser]
  /\ role' = [role EXCEPT ![r] = IF IsFirstUser THEN "ADMIN" ELSE @]
  /\ UNCHANGED <<tables, tokens, mode, who, lower, lock, history, counts>>

\* getUserRoleFromAccessList: the entry of the address, else that of its domain.
RoleEmail(r) ==
  /\ Goto(r, "roleEmail", IF list[who[r]] # "none" THEN "upsert" ELSE "roleDomain")
  /\ role' = [role EXCEPT ![r] = IF list[who[r]] # "none" THEN list[who[r]] ELSE @]
  /\ UNCHANGED <<tables, tokens, mode, who, lower, first, lock, history, counts>>

RoleDomain(r) ==
  /\ Goto(r, "roleDomain", "upsert")
  /\ role' = [role EXCEPT ![r] =
                IF DomainRole(r) # "none" THEN DomainRole(r) ELSE "DEVELOPER"]
  /\ UNCHANGED <<tables, tokens, mode, who, lower, first, lock, history, counts>>

\* Slip: the first admin is not written to the access list.
UpsertUserOnly(r) ==
  /\ Goto(r, "upsert", "issue")
  /\ users' = [users EXCEPT ![who[r]] = role[r]]
  /\ claims' = IF first[r] THEN claims \cup {who[r]} ELSE claims
  /\ UNCHANGED <<list, tokens, mode, reqVars, lock, removed, counts>>

UpsertUser(r) ==
  /\ Goto(r, "upsert", IF first[r] THEN "claim" ELSE "issue")
  /\ users' = [users EXCEPT ![who[r]] = role[r]]
  /\ claims' = IF first[r] THEN claims \cup {who[r]} ELSE claims
  /\ UNCHANGED <<list, tokens, mode, reqVars, lock, removed, counts>>

\* accessList.upsert with an empty update.
Claim(r) ==
  /\ Goto(r, "claim", "issue")
  /\ list' = [list EXCEPT ![who[r]] = IF @ = "none" THEN "ADMIN" ELSE @]
  /\ UNCHANGED <<users, tokens, mode, reqVars, lock, history, counts>>

\* The token is in the response; later calls of the jwt callback leave it alone.
Issue(r) ==
  /\ Goto(r, "issue", "done")
  /\ tokens' = [tokens EXCEPT ![who[r]] = @ \cup {role[r]}]
  /\ UNCHANGED <<tables, mode, reqVars, lock, history, counts>>

\* A session ends: signed out, or unused for 14 days.
Expire(e) ==
  /\ \E t \in tokens[e] : tokens' = [tokens EXCEPT ![e] = @ \ {t}]
  /\ UNCHANGED <<tables, mode, pc, reqVars, lock, history, counts>>

-----------------------------------------------------------------------------
(* requireAdmin.                                                            *)

\* oidc: the role is the one in the session token.
AuthorizeSession(r, e) ==
  /\ mode = "oidc"
  /\ "signIn" \in Overlap \/ \A q \in Requests : pc[q] \notin SigningIn
  /\ \/ "ADMIN" \in tokens[e] /\ Goto(r, "idle", "authorized")
     \/ tokens[e] # {"ADMIN"} /\ Goto(r, "idle", "denied")
  /\ who' = [who EXCEPT ![r] = e]
  /\ UNCHANGED <<tables, tokens, mode, lower, role, first, lock, history, counts>>

\* proxy: normaliseEmail lower-cases the whole address; the list gives the role.
AuthorizeProxy(r, e) ==
  /\ mode = "proxy"
  /\ Goto(r, "idle", CASE list[e] = "ADMIN"     -> "authorized"
                       [] list[e] = "DEVELOPER" -> "precheck"
                       [] OTHER                 -> "proxyDomain")
  /\ who' = [who EXCEPT ![r] = e]
  /\ UNCHANGED <<tables, tokens, mode, lower, role, first, lock, history, counts>>

ProxyDomain(r) ==
  /\ Goto(r, "proxyDomain",
          IF list[DomainOf[who[r]]] = "ADMIN" THEN "authorized" ELSE "precheck")
  /\ UNCHANGED <<tables, tokens, mode, reqVars, lock, history, counts>>

\* No entry in the list and no ADMIN among the users.
Unclaimed == NoEntries /\ \A e \in Emails : users[e] # "ADMIN"

Precheck(r) ==
  /\ Goto(r, "precheck", IF Unclaimed THEN "lockBoot" ELSE "denied")
  /\ UNCHANGED <<tables, tokens, mode, reqVars, lock, history, counts>>

LockBootstrap(r) ==
  /\ Goto(r, "lockBoot", "recheck")
  /\ lock = Nobody
  /\ lock' = r
  /\ UNCHANGED <<tables, tokens, mode, reqVars, history, counts>>

\* Slip: what the unlocked check saw is trusted.
RecheckNothing(r) ==
  /\ Goto(r, "recheck", "insert")
  /\ UNCHANGED <<tables, tokens, mode, reqVars, lock, history, counts>>

Recheck(r) ==
  /\ Goto(r, "recheck", IF Unclaimed THEN "insert" ELSE "denied")
  /\ lock' = IF Unclaimed THEN lock ELSE Nobody
  /\ UNCHANGED <<tables, tokens, mode, reqVars, history, counts>>

\* Insert and COMMIT; an entry that exists already makes the insert throw.
InsertAdmin(r) ==
  /\ Goto(r, "insert", IF list[who[r]] = "none" THEN "authorized" ELSE "denied")
  /\ list' = [list EXCEPT ![who[r]] = IF @ = "none" THEN "ADMIN" ELSE @]
  /\ claims' = IF list[who[r]] = "none" THEN claims \cup {who[r]} ELSE claims
  /\ lock' = Nobody
  /\ UNCHANGED <<users, tokens, mode, reqVars, removed, counts>>

-----------------------------------------------------------------------------
(* The admin-only routes.                                                   *)

\* PATCH /api/users: a user row exists, and nobody demotes themselves.
SetRole(r, e, to) ==
  /\ "setRole" \in AdminOps
  /\ users[e] # "none"
  /\ ~(e = who[r] /\ to = "DEVELOPER")
  /\ Goto(r, "authorized", "done")
  /\ users' = [users EXCEPT ![e] = to]
  /\ UNCHANGED <<list, tokens, mode, reqVars, lock, history, counts>>

\* DELETE /api/access-list: any row, one's own or the last one included.
Remove(r, entry) ==
  /\ "remove" \in AdminOps
  /\ list[entry] # "none"
  /\ Goto(r, "authorized", "done")
  /\ list' = [list EXCEPT ![entry] = "none"]
  /\ claims' = IF \A e \in Entries : list'[e] = "none" THEN {} ELSE claims
  /\ removed' = removed \cup {entry}
  /\ UNCHANGED <<users, tokens, mode, reqVars, lock, counts>>

\* POST /api/access-list: the check for duplicates, then the insert.
Lookup(r) ==
  /\ "add" \in AdminOps
  /\ Goto(r, "authorized", "adding")
  /\ UNCHANGED <<tables, tokens, mode, reqVars, lock, history, counts>>

\* An entry that exists, seen by the check or by the unique index, is left alone.
Add(r, entry, as) ==
  /\ Goto(r, "adding", "done")
  /\ list' = [list EXCEPT ![entry] = IF @ = "none" THEN as ELSE @]
  /\ UNCHANGED <<users, tokens, mode, reqVars, lock, history, counts>>

\* 400, 404, or a route that changes nothing.
Answer(r) ==
  /\ Goto(r, "authorized", "done")
  /\ UNCHANGED <<tables, tokens, mode, reqVars, lock, history, counts>>

-----------------------------------------------------------------------------
Crash(r) ==
  /\ InFlight(r)
  /\ crashes < MaxCrashes
  /\ crashes' = crashes + 1
  /\ pc' = [pc EXCEPT ![r] = "crashed"]
  /\ lock' = IF lock = r THEN Nobody ELSE lock
  /\ UNCHANGED <<tables, tokens, mode, reqVars, history, restarts>>

\* The server is restarted with the other AUTH_MODE.
SwitchMode ==
  /\ Quiet
  /\ restarts < MaxRestarts
  /\ restarts' = restarts + 1
  /\ mode' = IF mode = "oidc" THEN "proxy" ELSE "oidc"
  /\ UNCHANGED <<tables, tokens, pc, reqVars, lock, history, crashes>>

Step(r) ==
  \/ CheckEmail(r) \/ CheckDomain(r) \/ Decide(r) \/ RoleEmail(r) \/ RoleDomain(r)
  \/ UpsertUser(r) \/ Claim(r) \/ Issue(r)
  \/ ProxyDomain(r) \/ Precheck(r) \/ LockBootstrap(r) \/ Recheck(r) \/ InsertAdmin(r)
  \/ \E e \in Emails, to \in Roles : SetRole(r, e, to)
  \/ \E entry \in Entries : Remove(r, entry)
  \/ \E entry \in Entries, as \in Roles : Add(r, entry, as)
  \/ Lookup(r) \/ Answer(r)

Next ==
  \/ \E r \in Requests, e \in Emails, low \in BOOLEAN : SignIn(r, e, low)
  \/ \E r \in Requests, e \in Emails : AuthorizeSession(r, e) \/ AuthorizeProxy(r, e)
  \/ \E r \in Requests : Step(r) \/ Crash(r)
  \/ SwitchMode
  \/ \E e \in Emails : Expire(e)

Spec == Init /\ [][Next]_vars

-----------------------------------------------------------------------------
TypeOK ==
  /\ users \in [Emails -> Roles \cup {"none"}]
  /\ list \in [Entries -> Roles \cup {"none"}]
  /\ tokens \in [Emails -> SUBSET Roles]
  /\ mode \in {"oidc", "proxy"}
  /\ pc \in [Requests -> PCs]
  /\ who \in [Requests -> Emails]
  /\ lower \in [Requests -> BOOLEAN]
  /\ role \in [Requests -> Roles]
  /\ first \in [Requests -> BOOLEAN]
  /\ lock \in Requests \cup {Nobody}
  /\ claims \subseteq Emails
  /\ removed \subseteq Entries
  /\ crashes \in Nat /\ restarts \in Nat

\* The role the access list gives an address, the more specific entry first.
ListRole(e) == IF list[e] # "none" THEN list[e] ELSE list[DomainOf[e]]

\* An installation is claimed by at most one identity for being first: by first
\* requests through the proxy that overlap, by requests in both modes, or after a
\* process died in the middle of a claim (access-control.ts:93-101, 186-189).  When
\* the administrators have emptied the list it may be claimed again.
OneClaim == \A d, e \in claims : d = e

\* Once nothing is in flight, whoever claimed the installation is an administrator
\* by the list, and so can sign in again (access-control.ts:152-155), unless an
\* administrator removed the entry or the process died between the two rows.
ClaimantKept ==
  Quiet /\ crashes = 0 => \A e \in claims \ removed : ListRole(e) = "ADMIN"

\* A session is opened only for who is on the access list, and with the role the
\* list gives (auth.ts:84-89, access-control.ts:124-132).
SessionsMatchList ==
  [][\A e \in Emails : \A t \in tokens'[e] \ tokens[e] : ListRole(e) = t]_vars

=============================================================================
