---------------------------- MODULE AccessProofs ----------------------------
(***************************************************************************)
(* Theorems about Access, for any addresses, domains, requests, crashes    *)
(* and restarts, with sign-ins one at a time where stated.                 *)
(***************************************************************************)
EXTENDS Access, TLAPS

\* Every step keeps the types.
LEMMA TypeStep ==
  ASSUME TypeOK, [Next]_vars
  PROVE  TypeOK'
<1> USE AccessAssumption DEF TypeOK, Goto, PCs, Over, SigningIn, Bootstrapping, Roles, Entries,
        tables, history, reqVars, counts
<1>1. ASSUME NEW r \in Requests, NEW e \in Emails, NEW low \in BOOLEAN, SignIn(r, e, low)
      PROVE  TypeOK'
  BY <1>1 DEF SignIn
<1>2. ASSUME NEW r \in Requests, NEW e \in Emails, AuthorizeSession(r, e)
      PROVE  TypeOK'
  BY <1>2 DEF AuthorizeSession
<1>3. ASSUME NEW r \in Requests, NEW e \in Emails, AuthorizeProxy(r, e)
      PROVE  TypeOK'
  BY <1>3 DEF AuthorizeProxy
<1>4. ASSUME NEW r \in Requests, CheckEmail(r)
      PROVE  TypeOK'
  BY <1>4 DEF CheckEmail
<1>5. ASSUME NEW r \in Requests, CheckDomain(r)
      PROVE  TypeOK'
  BY <1>5 DEF CheckDomain
<1>6. ASSUME NEW r \in Requests, Decide(r)
      PROVE  TypeOK'
  <2>1. IsFirstUser \in BOOLEAN
    BY DEF IsFirstUser, NoEntries
  <2>2. QED BY <1>6, <2>1 DEF Decide
<1>7. ASSUME NEW r \in Requests, RoleEmail(r)
      PROVE  TypeOK'
  BY <1>7 DEF RoleEmail
<1>8. ASSUME NEW r \in Requests, RoleDomain(r)
      PROVE  TypeOK'
  <2>1. DomainRole(r) \in Roles \cup {"none"}
    BY DEF DomainRole
  <2>2. QED BY <1>8, <2>1 DEF RoleDomain
<1>9. ASSUME NEW r \in Requests, UpsertUser(r)
      PROVE  TypeOK'
  BY <1>9 DEF UpsertUser
<1>10. ASSUME NEW r \in Requests, Claim(r)
      PROVE  TypeOK'
  BY <1>10 DEF Claim
<1>11. ASSUME NEW r \in Requests, Issue(r)
      PROVE  TypeOK'
  BY <1>11 DEF Issue
<1>12. ASSUME NEW r \in Requests, ProxyDomain(r)
      PROVE  TypeOK'
  BY <1>12 DEF ProxyDomain
<1>13. ASSUME NEW r \in Requests, Precheck(r)
      PROVE  TypeOK'
  BY <1>13 DEF Precheck
<1>14. ASSUME NEW r \in Requests, LockBootstrap(r)
      PROVE  TypeOK'
  BY <1>14 DEF LockBootstrap
<1>15. ASSUME NEW r \in Requests, Recheck(r)
      PROVE  TypeOK'
  BY <1>15 DEF Recheck
<1>16. ASSUME NEW r \in Requests, InsertAdmin(r)
      PROVE  TypeOK'
  BY <1>16 DEF InsertAdmin
<1>17. ASSUME NEW r \in Requests, Lookup(r)
      PROVE  TypeOK'
  BY <1>17 DEF Lookup
<1>18. ASSUME NEW r \in Requests, Answer(r)
      PROVE  TypeOK'
  BY <1>18 DEF Answer
<1>19. ASSUME NEW r \in Requests, Crash(r)
      PROVE  TypeOK'
  BY <1>19 DEF Crash
<1>20. ASSUME NEW r \in Requests, NEW e \in Emails, NEW to \in Roles, SetRole(r, e, to)
      PROVE  TypeOK'
  BY <1>20 DEF SetRole
<1>21. ASSUME NEW r \in Requests, NEW entry \in Entries, Remove(r, entry)
      PROVE  TypeOK'
  BY <1>21 DEF Remove
<1>22. ASSUME NEW r \in Requests, NEW entry \in Entries, NEW as \in Roles, Add(r, entry, as)
      PROVE  TypeOK'
  BY <1>22 DEF Add
<1>23. CASE SwitchMode
  BY <1>23 DEF SwitchMode
<1>24. ASSUME NEW e \in Emails, Expire(e)
      PROVE  TypeOK'
  BY <1>24 DEF Expire
<1>25. CASE UNCHANGED vars
  BY <1>25 DEF vars
<1>26. QED
  <2> HIDE AccessAssumption DEF TypeOK, Goto, PCs, Over, SigningIn, Bootstrapping, Roles, Entries,
        tables, history, reqVars, counts
  <2> QED BY <1>1, <1>2, <1>3, <1>4, <1>5, <1>6, <1>7, <1>8, <1>9, <1>10, <1>11,
             <1>12, <1>13, <1>14, <1>15, <1>16, <1>17, <1>18, <1>19, <1>20, <1>21,
             <1>22, <1>23, <1>24, <1>25 DEF Next, Step

\* The state keeps its types.
THEOREM AccessTypeCorrect == Spec => []TypeOK
<1>1. Init => TypeOK
  BY AccessAssumption DEF Init, TypeOK, PCs, Over, SigningIn, Bootstrapping, Roles, Entries
<1>2. TypeOK /\ [Next]_vars => TypeOK'
  BY TypeStep
<1>3. QED BY <1>1, <1>2, PTL DEF Spec

-----------------------------------------------------------------------------
(* What a sign-in has read still holds when it writes, if it runs alone,    *)
(* and what a bootstrap has read holds under its lock.                      *)

\* While a sign-in is in flight nothing else is, and the mode is the one it started in.
Alone ==
  \A q \in Requests : pc[q] \in SigningIn =>
    mode = "oidc" /\ \A r \in Requests : InFlight(r) => q = r

\* The transaction of a bootstrap holds the lock.
LockHeld == \A r \in Requests : pc[r] \in {"recheck", "insert"} => lock = r

\* What is known of a sign-in at each of its labels.
Knows(r) ==
  LET e == who[r] IN
  /\ pc[r] = "checkDomain" => list[e] = "none"
  /\ pc[r] = "admitted" => IsFirstUser \/ list[e] # "none" \/ DomainRole(r) # "none"
  /\ pc[r] \in {"roleEmail", "roleDomain"} => ~first[r]
  /\ pc[r] = "roleEmail" => list[e] # "none" \/ DomainRole(r) # "none"
  /\ pc[r] = "roleDomain" => list[e] = "none" /\ DomainRole(r) # "none"
  /\ pc[r] = "upsert" /\ first[r] => IsFirstUser /\ role[r] = "ADMIN"
  /\ pc[r] = "upsert" /\ ~first[r] => ListRole(e) = role[r]
  /\ pc[r] = "claim" => NoEntries /\ claims = {e} /\ users[e] = "ADMIN" /\ role[r] = "ADMIN"
  /\ pc[r] = "issue" => users[e] # "none" /\ ListRole(e) = role[r]

Admitted == \A r \in Requests : Knows(r)

\* An installation that was claimed shows it: by an entry of the list or, if the process
\* died before that was written, by an administrator whom nobody can have demoted, as
\* there is neither a session nor an authorized request.  Before an insert it is not.
Claimed ==
  /\ \A d, e \in claims : d = e
  /\ claims # {} /\ NoEntries =>
       /\ \E e \in claims : users[e] = "ADMIN"
       /\ \A e \in Emails : tokens[e] = {}
       /\ \A r \in Requests : pc[r] \notin {"authorized", "adding", "insert"}
  /\ \A r \in Requests : pc[r] = "insert" => claims = {}
  /\ \A e \in Emails : tokens[e] # {} => \E d \in Emails : users[d] # "none"

AccessInv == TypeOK /\ Alone /\ LockHeld /\ Admitted /\ Claimed

\* The inductive step.
LEMMA AccessStep ==
  ASSUME "signIn" \notin Overlap, AccessInv, [Next]_vars
  PROVE  AccessInv'
<1>0. TypeOK'
  BY TypeStep DEF AccessInv
<1> USE AccessAssumption DEF TypeOK, Goto, PCs, Over, SigningIn, Bootstrapping, Roles, Entries, InFlight,
        Quiet, NoEntries, IsFirstUser, Unclaimed, DomainRole, ListRole, Alone, LockHeld, Admitted, Knows,
        Claimed, AccessInv, tables, history, reqVars, counts
<1>1. ASSUME NEW r \in Requests, NEW e \in Emails, NEW low \in BOOLEAN, SignIn(r, e, low)
      PROVE  AccessInv'
  BY <1>0, <1>1 DEF SignIn
<1>2. ASSUME NEW r \in Requests, NEW e \in Emails, AuthorizeSession(r, e)
      PROVE  AccessInv'
  BY <1>0, <1>2 DEF AuthorizeSession
<1>3. ASSUME NEW r \in Requests, NEW e \in Emails, AuthorizeProxy(r, e)
      PROVE  AccessInv'
  <2>1. Alone'
    BY <1>0, <1>3 DEF AuthorizeProxy
  <2>2. LockHeld'
    BY <1>0, <1>3 DEF AuthorizeProxy
  <2>3. Admitted'
    BY <1>0, <1>3 DEF AuthorizeProxy
  <2>4. Claimed'
    BY <1>0, <1>3 DEF AuthorizeProxy
  <2>5. QED BY <1>0, <2>1, <2>2, <2>3, <2>4 DEF AccessInv
<1>4. ASSUME NEW r \in Requests, CheckEmail(r)
      PROVE  AccessInv'
  BY <1>0, <1>4 DEF CheckEmail
<1>5. ASSUME NEW r \in Requests, CheckDomain(r)
      PROVE  AccessInv'
  BY <1>0, <1>5 DEF CheckDomain
<1>6. ASSUME NEW r \in Requests, Decide(r)
      PROVE  AccessInv'
  <2>1. Alone'
    BY <1>0, <1>6 DEF Decide
  <2>2. LockHeld'
    BY <1>0, <1>6 DEF Decide
  <2>3. Admitted'
    <3> SUFFICES ASSUME NEW q \in Requests PROVE Knows(q)'
      BY DEF Admitted
    <3>1. CASE q = r
      <4>1. Knows(r) /\ pc[r] = "admitted" /\ who'[r] = who[r] /\ DomainRole(r)' = DomainRole(r)
        BY <1>6 DEF Decide
      <4>2. IsFirstUser' = IsFirstUser
        BY <1>6 DEF Decide
      <4>3. CASE IsFirstUser
        <5>1. pc'[r] = "upsert" /\ first'[r] = TRUE /\ role'[r] = "ADMIN"
          <6>1. IsFirstUser \in BOOLEAN
            OBVIOUS
          <6> HIDE DEF IsFirstUser, NoEntries
          <6>2. QED BY <1>6, <4>3, <6>1 DEF Decide
        <5>2. QED BY <3>1, <4>2, <4>3, <5>1
      <4>4. CASE ~IsFirstUser
        <5>1. pc'[r] = "roleEmail" /\ list' = list /\ first'[r] = FALSE
          <6>1. IsFirstUser \in BOOLEAN
            OBVIOUS
          <6> HIDE DEF IsFirstUser, NoEntries
          <6>2. QED BY <1>6, <4>4, <6>1 DEF Decide
        <5>2. list[who[r]] # "none" \/ DomainRole(r) # "none"
          BY <4>1, <4>4 DEF Knows
        <5>3. QED BY <3>1, <4>1, <5>1, <5>2
      <4>5. QED BY <4>3, <4>4
    <3>2. CASE q # r
      <4>1. pc'[q] \notin SigningIn
        BY <1>6, <3>2 DEF Decide
      <4>2. QED BY <4>1
    <3>3. QED BY <3>1, <3>2
  <2>4. Claimed'
    BY <1>0, <1>6 DEF Decide
  <2>5. QED BY <1>0, <2>1, <2>2, <2>3, <2>4 DEF AccessInv
<1>7. ASSUME NEW r \in Requests, RoleEmail(r)
      PROVE  AccessInv'
  <2>1. Alone'
    BY <1>0, <1>7 DEF RoleEmail
  <2>2. LockHeld'
    BY <1>0, <1>7 DEF RoleEmail
  <2>3. Admitted'
    <3> SUFFICES ASSUME NEW q \in Requests PROVE Knows(q)'
      BY DEF Admitted
    <3>1. CASE q = r
      <4>1. Knows(r) /\ pc[r] = "roleEmail" /\ who'[r] = who[r] /\ DomainRole(r)' = DomainRole(r)
        BY <1>7 DEF RoleEmail
      <4>2. list' = list /\ first'[r] = first[r]
        BY <1>7 DEF RoleEmail
      <4>3. ~first[r]
        BY <4>1 DEF Knows
      <4>4. CASE list[who[r]] # "none"
        <5>1. pc'[r] = "upsert" /\ role'[r] = list[who[r]]
          BY <1>7, <4>4 DEF RoleEmail
        <5>2. QED BY <3>1, <4>1, <4>2, <4>3, <4>4, <5>1
      <4>5. CASE list[who[r]] = "none"
        <5>1. pc'[r] = "roleDomain"
          BY <1>7, <4>5 DEF RoleEmail
        <5>2. QED BY <3>1, <4>1, <4>2, <4>5, <5>1
      <4>6. QED BY <4>4, <4>5
    <3>2. CASE q # r
      <4>1. pc'[q] \notin SigningIn
        BY <1>7, <3>2 DEF RoleEmail
      <4>2. QED BY <4>1
    <3>3. QED BY <3>1, <3>2
  <2>4. Claimed'
    BY <1>0, <1>7 DEF RoleEmail
  <2>5. QED BY <1>0, <2>1, <2>2, <2>3, <2>4 DEF AccessInv
<1>8. ASSUME NEW r \in Requests, RoleDomain(r)
      PROVE  AccessInv'
  <2>1. Alone'
    BY <1>0, <1>8 DEF RoleDomain
  <2>2. LockHeld'
    BY <1>0, <1>8 DEF RoleDomain
  <2>3. Admitted'
    <3> SUFFICES ASSUME NEW q \in Requests PROVE Knows(q)'
      BY DEF Admitted
    <3>1. CASE q = r
      <4>1. Knows(r) /\ pc[r] = "roleDomain" /\ who'[r] = who[r] /\ list' = list
        BY <1>8 DEF RoleDomain
      <4>2. DomainRole(r) # "none" /\ list[who[r]] = "none"
        BY <4>1 DEF Knows
      <4>3. DomainRole(r) = list[DomainOf[who[r]]]
        BY <4>2 DEF DomainRole
      <4>4. pc'[r] = "upsert" /\ role'[r] = DomainRole(r) /\ first'[r] = first[r]
        BY <1>8, <4>2 DEF RoleDomain
      <4>5. ~first[r]
        BY <4>1 DEF Knows
      <4>6. QED BY <3>1, <4>1, <4>2, <4>3, <4>4, <4>5
    <3>2. CASE q # r
      <4>1. pc'[q] \notin SigningIn
        BY <1>8, <3>2 DEF RoleDomain
      <4>2. QED BY <4>1
    <3>3. QED BY <3>1, <3>2
  <2>4. Claimed'
    BY <1>0, <1>8 DEF RoleDomain
  <2>5. QED BY <1>0, <2>1, <2>2, <2>3, <2>4 DEF AccessInv
<1>9. ASSUME NEW r \in Requests, UpsertUser(r)
      PROVE  AccessInv'
  BY <1>0, <1>9 DEF UpsertUser
<1>10. ASSUME NEW r \in Requests, Claim(r)
      PROVE  AccessInv'
  BY <1>0, <1>10 DEF Claim
<1>11. ASSUME NEW r \in Requests, Issue(r)
      PROVE  AccessInv'
  <2>1. Alone'
    BY <1>0, <1>11 DEF Issue
  <2>2. LockHeld'
    BY <1>0, <1>11 DEF Issue
  <2>3. Admitted'
    BY <1>0, <1>11 DEF Issue
  <2>4. Claimed'
    BY <1>0, <1>11 DEF Issue
  <2>5. QED BY <1>0, <2>1, <2>2, <2>3, <2>4 DEF AccessInv
<1>12. ASSUME NEW r \in Requests, ProxyDomain(r)
      PROVE  AccessInv'
  BY <1>0, <1>12 DEF ProxyDomain
<1>13. ASSUME NEW r \in Requests, Precheck(r)
      PROVE  AccessInv'
  BY <1>0, <1>13 DEF Precheck
<1>14. ASSUME NEW r \in Requests, LockBootstrap(r)
      PROVE  AccessInv'
  BY <1>0, <1>14 DEF LockBootstrap
<1>15. ASSUME NEW r \in Requests, Recheck(r)
      PROVE  AccessInv'
  BY <1>0, <1>15 DEF Recheck
<1>16. ASSUME NEW r \in Requests, InsertAdmin(r)
      PROVE  AccessInv'
  BY <1>0, <1>16 DEF InsertAdmin
<1>17. ASSUME NEW r \in Requests, Lookup(r)
      PROVE  AccessInv'
  BY <1>0, <1>17 DEF Lookup
<1>18. ASSUME NEW r \in Requests, Answer(r)
      PROVE  AccessInv'
  BY <1>0, <1>18 DEF Answer
<1>19. ASSUME NEW r \in Requests, Crash(r)
      PROVE  AccessInv'
  BY <1>0, <1>19 DEF Crash
<1>20. ASSUME NEW r \in Requests, NEW e \in Emails, NEW to \in Roles, SetRole(r, e, to)
      PROVE  AccessInv'
  BY <1>0, <1>20 DEF SetRole
<1>21. ASSUME NEW r \in Requests, NEW entry \in Entries, Remove(r, entry)
      PROVE  AccessInv'
  BY <1>0, <1>21 DEF Remove
<1>22. ASSUME NEW r \in Requests, NEW entry \in Entries, NEW as \in Roles, Add(r, entry, as)
      PROVE  AccessInv'
  <2>1. Alone'
    BY <1>0, <1>22 DEF Add
  <2>2. LockHeld'
    BY <1>0, <1>22 DEF Add
  <2>3. Admitted'
    <3>1. \A q \in Requests : pc'[q] \notin SigningIn
      BY <1>22 DEF Add
    <3>2. QED BY <3>1
  <2>4. Claimed'
    <3>1. list'[entry] # "none"
      BY <1>22 DEF Add
    <3>2. ~NoEntries'
      BY <3>1
    <3>3. /\ UNCHANGED <<claims, tokens, users>>
          /\ \A q \in Requests : pc'[q] = "insert" => pc[q] = "insert"
      BY <1>22 DEF Add
    <3>4. QED BY <3>2, <3>3 DEF Claimed
  <2>5. QED BY <1>0, <2>1, <2>2, <2>3, <2>4 DEF AccessInv
<1>23. CASE SwitchMode
  BY <1>0, <1>23 DEF SwitchMode
<1>24. ASSUME NEW e \in Emails, Expire(e)
      PROVE  AccessInv'
  BY <1>0, <1>24 DEF Expire
<1>25. CASE UNCHANGED vars
  BY <1>0, <1>25 DEF vars
<1>26. QED
  <2> HIDE AccessAssumption DEF TypeOK, Goto, PCs, Over, SigningIn, Bootstrapping, Roles, Entries, InFlight,
        Quiet, NoEntries, IsFirstUser, Unclaimed, DomainRole, ListRole, Alone, LockHeld, Admitted, Knows,
        Claimed, AccessInv, tables, history, reqVars, counts
  <2> QED BY <1>1, <1>2, <1>3, <1>4, <1>5, <1>6, <1>7, <1>8, <1>9, <1>10, <1>11,
             <1>12, <1>13, <1>14, <1>15, <1>16, <1>17, <1>18, <1>19, <1>20, <1>21,
             <1>22, <1>23, <1>24, <1>25 DEF Next, Step


\* What AccessInv says holds from the start.
THEOREM AccessInvariant ==
  ASSUME "signIn" \notin Overlap
  PROVE  Spec => []AccessInv
<1>1. Init => AccessInv
  BY AccessAssumption
  DEF Init, TypeOK, PCs, Over, SigningIn, Bootstrapping, Roles, Entries, AccessInv, Alone,
      LockHeld, Admitted, Knows, Claimed
<1>2. AccessInv /\ [Next]_vars => AccessInv'
  BY AccessStep
<1>3. QED BY <1>1, <1>2, PTL DEF Spec

\* However many first requests overlap and wherever a process dies, one identity at
\* most becomes ADMIN for being first (access-control.ts:93-101, 186-189).
THEOREM OneClaimHolds ==
  ASSUME "signIn" \notin Overlap
  PROVE  Spec => []OneClaim
<1>1. AccessInv => OneClaim
  BY DEF AccessInv, Claimed, OneClaim
<1>2. QED BY <1>1, AccessInvariant, PTL

\* A session is opened with the role the access list gives (auth.ts:84-89).
THEOREM SessionsMatchListHolds ==
  ASSUME "signIn" \notin Overlap
  PROVE  Spec => SessionsMatchList
<1> DEFINE A == \A e \in Emails : \A t \in tokens'[e] \ tokens[e] : ListRole(e) = t
<1>1. AccessInv /\ [Next]_vars => A
  <2> SUFFICES ASSUME AccessInv, [Next]_vars,
                      NEW e \in Emails, NEW t \in tokens'[e] \ tokens[e]
               PROVE  ListRole(e) = t
    OBVIOUS
  <2>1. ASSUME NEW r \in Requests, Issue(r)
        PROVE  ListRole(e) = t
    BY <2>1 DEF Issue, Goto, AccessInv, Admitted, Knows, TypeOK
  <2>2. ASSUME NEW d \in Emails, Expire(d)
        PROVE  FALSE
    BY <2>2 DEF Expire, AccessInv, TypeOK
  <2>3. ASSUME UNCHANGED tokens
        PROVE  FALSE
    BY <2>3
  <2>4. QED
    BY <2>1, <2>2, <2>3
    DEF Next, Step, SignIn, CheckEmail, CheckDomain, Decide, RoleEmail, RoleDomain, UpsertUser,
        Claim, AuthorizeSession, AuthorizeProxy, ProxyDomain, Precheck, LockBootstrap, Recheck,
        InsertAdmin, SetRole, Remove, Lookup, Add, Answer, Crash, SwitchMode, vars
<1>2. QED BY <1>1, AccessInvariant, PTL DEF Spec, SessionsMatchList

-----------------------------------------------------------------------------
(* The list row of whoever claimed the installation.                        *)

\* Until a process has died, whoever claimed the installation is ADMIN in the list or
\* is about to be written there, unless an administrator removed the entry.
ClaimListed ==
  crashes = 0 =>
    \A e \in claims \ removed :
      list[e] = "ADMIN" \/ \E r \in Requests : pc[r] = "claim" /\ who[r] = e

\* A step that adds no claim, takes no entry away, leaves the sign-ins that are about
\* to write their row where they are, and lets no process recover, keeps it.
LEMMA ClaimListedKept ==
  ASSUME ClaimListed,
         claims' = claims, list' = list, removed' = removed, crashes' = crashes,
         \A r \in Requests : pc[r] = "claim" => pc'[r] = "claim" /\ who'[r] = who[r]
  PROVE  ClaimListed'
BY DEF ClaimListed

\* The inductive step.
LEMMA ClaimListedStep ==
  ASSUME AccessInv, ClaimListed, [Next]_vars
  PROVE  ClaimListed'
<1>0. TypeOK
  BY DEF AccessInv
<1> USE <1>0, AccessAssumption DEF Goto, tables, history, reqVars, counts
<1>1. ASSUME NEW r \in Requests, NEW e \in Emails, NEW low \in BOOLEAN, SignIn(r, e, low)
      PROVE  ClaimListed'
  BY <1>1, ClaimListedKept DEF SignIn, TypeOK
<1>2. ASSUME NEW r \in Requests, NEW e \in Emails, AuthorizeSession(r, e) \/ AuthorizeProxy(r, e)
      PROVE  ClaimListed'
  BY <1>2, ClaimListedKept DEF AuthorizeSession, AuthorizeProxy, TypeOK
<1>3. ASSUME NEW r \in Requests,
             CheckEmail(r) \/ CheckDomain(r) \/ Decide(r) \/ RoleEmail(r) \/ RoleDomain(r)
      PROVE  ClaimListed'
  BY <1>3, ClaimListedKept DEF CheckEmail, CheckDomain, Decide, RoleEmail, RoleDomain, TypeOK
<1>4. ASSUME NEW r \in Requests,
             Issue(r) \/ ProxyDomain(r) \/ Precheck(r) \/ LockBootstrap(r) \/ Recheck(r)
      PROVE  ClaimListed'
  BY <1>4, ClaimListedKept DEF Issue, ProxyDomain, Precheck, LockBootstrap, Recheck, TypeOK
<1>5. ASSUME NEW r \in Requests, Lookup(r) \/ Answer(r)
      PROVE  ClaimListed'
  BY <1>5, ClaimListedKept DEF Lookup, Answer, TypeOK
<1>6. ASSUME NEW r \in Requests, NEW e \in Emails, NEW to \in Roles, SetRole(r, e, to)
      PROVE  ClaimListed'
  BY <1>6, ClaimListedKept DEF SetRole, TypeOK
<1>7. ASSUME NEW e \in Emails, Expire(e)
      PROVE  ClaimListed'
  BY <1>7, ClaimListedKept DEF Expire
<1>8. CASE SwitchMode
  BY <1>8, ClaimListedKept DEF SwitchMode
<1>9. CASE UNCHANGED vars
  BY <1>9, ClaimListedKept DEF vars
<1>10. ASSUME NEW r \in Requests, UpsertUser(r)
       PROVE  ClaimListed'
  <2>1. \A q \in Requests : pc[q] = "claim" => pc'[q] = "claim" /\ who'[q] = who[q]
    BY <1>10 DEF UpsertUser, TypeOK
  <2>2. \/ claims' = claims
        \/ claims' = claims \cup {who[r]} /\ pc'[r] = "claim" /\ who'[r] = who[r]
    BY <1>10 DEF UpsertUser, TypeOK
  <2>3. QED BY <1>10, <2>1, <2>2 DEF UpsertUser, ClaimListed
<1>11. ASSUME NEW r \in Requests, Claim(r)
       PROVE  ClaimListed'
  <2>1. NoEntries /\ claims = {who[r]}
    BY <1>11 DEF Claim, AccessInv, Admitted, Knows
  <2>2. list'[who[r]] = "ADMIN"
    BY <1>11, <2>1 DEF Claim, TypeOK, NoEntries, Entries
  <2>3. QED BY <1>11, <2>1, <2>2 DEF Claim, ClaimListed
<1>12. ASSUME NEW r \in Requests, InsertAdmin(r)
       PROVE  ClaimListed'
  <2>1. \A q \in Requests : pc[q] = "claim" => pc'[q] = "claim" /\ who'[q] = who[q]
    BY <1>12 DEF InsertAdmin, TypeOK
  <2>2. \A e \in Emails : list[e] = "ADMIN" => list'[e] = "ADMIN"
    BY <1>12 DEF InsertAdmin, TypeOK, Entries
  <2>3. \/ claims' = claims
        \/ claims' = claims \cup {who[r]} /\ list'[who[r]] = "ADMIN"
    BY <1>12 DEF InsertAdmin, TypeOK, Entries
  <2>4. QED BY <1>12, <2>1, <2>2, <2>3 DEF InsertAdmin, ClaimListed, TypeOK
<1>13. ASSUME NEW r \in Requests, NEW entry \in Entries, Remove(r, entry)
       PROVE  ClaimListed'
  <2>1. \A q \in Requests : pc[q] = "claim" => pc'[q] = "claim" /\ who'[q] = who[q]
    BY <1>13 DEF Remove, TypeOK
  <2>2. claims' \subseteq claims /\ removed' = removed \cup {entry}
    BY <1>13 DEF Remove
  <2>3. \A e \in Emails : e # entry => list'[e] = list[e]
    BY <1>13 DEF Remove, TypeOK, Entries
  <2>4. QED BY <1>13, <2>1, <2>2, <2>3 DEF Remove, ClaimListed, TypeOK
<1>14. ASSUME NEW r \in Requests, NEW entry \in Entries, NEW as \in Roles, Add(r, entry, as)
       PROVE  ClaimListed'
  <2>1. \A q \in Requests : pc[q] = "claim" => pc'[q] = "claim" /\ who'[q] = who[q]
    BY <1>14 DEF Add, TypeOK
  <2>2. \A e \in Emails : list[e] = "ADMIN" => list'[e] = "ADMIN"
    BY <1>14 DEF Add, TypeOK, Entries
  <2>3. QED BY <1>14, <2>1, <2>2 DEF Add, ClaimListed, TypeOK
<1>15. ASSUME NEW r \in Requests, Crash(r)
       PROVE  ClaimListed'
  <2>1. crashes' # 0
    BY <1>15 DEF Crash, TypeOK
  <2>2. QED BY <2>1 DEF ClaimListed
<1>16. QED
  BY <1>1, <1>2, <1>3, <1>4, <1>5, <1>6, <1>7, <1>8, <1>9, <1>10, <1>11, <1>12, <1>13, <1>14,
     <1>15 DEF Next, Step

\* Whoever claimed the installation for being first stays its administrator by the list,
\* if no process died between the two rows: requests of other identities, in either mode
\* and at any moment, cannot take the entry away or lower its role
\* (access-control.ts:152-155, 186-189).
THEOREM ClaimantStaysAdmin ==
  ASSUME "signIn" \notin Overlap
  PROVE  Spec => []ClaimantKept
<1>1. Init => ClaimListed
  BY DEF Init, ClaimListed
<1>2. AccessInv /\ ClaimListed /\ [Next]_vars => ClaimListed'
  BY ClaimListedStep
<1>3. AccessInv /\ ClaimListed => ClaimantKept
  BY DEF AccessInv, ClaimListed, ClaimantKept, Quiet, InFlight, Over, ListRole
<1>4. QED BY <1>1, <1>2, <1>3, AccessInvariant, PTL DEF Spec

=============================================================================
