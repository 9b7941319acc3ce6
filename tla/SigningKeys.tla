----------------------------- MODULE SigningKeys -----------------------------
(***************************************************************************)
(* The signing keys of one app: POST and PUT /api/keys, PUT and DELETE     *)
(* /api/keys/[id], and what a publish does with them (ensureSigningKey,    *)
(* signConfigDetached).                                                    *)
(*                                                                         *)
(* Transactions run at PostgreSQL's default isolation, READ COMMITTED: a   *)
(* statement sees the rows committed when it starts; an UPDATE or DELETE   *)
(* that meets a row another transaction has written waits for its end and  *)
(* then tests its WHERE clause again on the row as committed.              *)
(***************************************************************************)
EXTENDS Naturals, FiniteSets

CONSTANTS
  Kids,         \* key ids; a generated one is never used twice
  First,        \* the key that signed the live config before any request
  Starts,       \* sets of keys that may be active then
  Requests,     \* requests, each handled once
  KeyOps,       \* which of Ops they ask for
  Overlapping,  \* whether requests overlap
  MaxFaults,    \* bound on the calls that fail for reasons of their own
  NoKid         \* no key

Ops == {"create", "createActive", "rotate", "activate", "deactivate", "delete", "publish"}

ASSUME KeyAssumption ==
  /\ IsFiniteSet(Kids)
  /\ First \in Kids
  /\ Starts \subseteq {S \in SUBSET Kids : First \in S}
  /\ NoKid \notin Kids
  /\ KeyOps \subseteq Ops
  /\ Overlapping \in BOOLEAN
  /\ MaxFaults \in Nat

VARIABLES
  row,      \* committed rows: "unused", "active", "inactive" or "deleted"
  born,     \* createdAt of each key, as its rank; 0 before it exists
  pc,       \* where each request is
  op,       \* what it asks for
  kid,      \* the key it is about
  todo,     \* rows its updateMany has still to visit
  off,      \* rows its open transaction has deactivated, and so locked
  faults,   \* faults so far
  chosen,   \* the key activated by the last activation that committed
  signer,   \* the key whose signature is on the live config
  overtaken \* history: the key a DELETE is about has been activated since its check

tableVars == <<row, born>>
reqVars   == <<pc, op, kid, todo, off>>
seenVars  == <<chosen, signer, overtaken>>
vars      == <<tableVars, reqVars, seenVars, faults>>

Statuses == {"unused", "active", "inactive", "deleted"}

PCs == {"idle", "tx", "visit", "write", "look", "lookAgain", "enable", "mint", "sign",
        "done", "failed"}

TypeOK ==
  /\ row \in [Kids -> Statuses]
  /\ born \in [Kids -> Nat]
  /\ pc \in [Requests -> PCs]
  /\ op \in [Requests -> Ops \cup {"none"}]
  /\ kid \in [Requests -> Kids \cup {NoKid}]
  /\ todo \in [Requests -> SUBSET Kids]
  /\ off \in [Requests -> SUBSET Kids]
  /\ faults \in Nat
  /\ chosen \in Kids
  /\ signer \in Kids
  /\ overtaken \in [Requests -> BOOLEAN]

Exists(k) == row[k] \in {"active", "inactive"}

Active == {k \in Kids : row[k] = "active"}

Running(r) == pc[r] \notin {"idle", "done", "failed"}

\* No other transaction holds the lock on row k.
LockFree(k, r) == \A q \in Requests \ {r} : k \notin off[q]

\* The row that r's next statement has to lock is locked by q.
WaitsFor(r, q) ==
  /\ q # r
  /\ \/ pc[r] = "visit" /\ todo[r] \cap off[q] # {}
     \/ /\ pc[r] \in {"write", "enable"} \/ (pc[r] = "visit" /\ todo[r] = {})
        /\ kid[r] \in off[q]

\* createdAt of a row that is inserted now.
Now == 1 + Cardinality({k \in Kids : row[k] # "unused"})

-----------------------------------------------------------------------------
\* POST /api/apps leaves one active key, which has signed the initial config; an app
\* may also have several, since overlapping requests can leave it so.
Init ==
  /\ \E S \in Starts :
       /\ row = [k \in Kids |-> IF k \in S THEN "active" ELSE "unused"]
       /\ born = [k \in Kids |-> IF k \in S THEN 1 ELSE 0]
  /\ pc = [r \in Requests |-> "idle"]
  /\ op = [r \in Requests |-> "none"]
  /\ kid = [r \in Requests |-> NoKid]
  /\ todo = [r \in Requests |-> {}]
  /\ off = [r \in Requests |-> {}]
  /\ faults = 0
  /\ chosen = First
  /\ signer = First
  /\ overtaken = [r \in Requests |-> FALSE]

\* Environment: a request may start (without Overlapping, when no other runs).
MayStart(r, o) ==
  /\ pc[r] = "idle"
  /\ o \in KeyOps
  /\ Overlapping \/ \A q \in Requests : ~Running(q)

Start(r, o, k, to) ==
  /\ MayStart(r, o)
  /\ pc' = [pc EXCEPT ![r] = to]
  /\ op' = [op EXCEPT ![r] = o]
  /\ kid' = [kid EXCEPT ![r] = k]
  /\ UNCHANGED <<todo, off, seenVars, faults>>

\* Row k is inserted with the given status.
Insert(k, status) ==
  /\ row[k] = "unused"
  /\ row' = [row EXCEPT ![k] = status]
  /\ born' = [born EXCEPT ![k] = Now]

\* POST /api/keys with isActive false: one insert.
Create(r, k) ==
  /\ Start(r, "create", k, "done")
  /\ Insert(k, "inactive")

\* POST /api/keys with isActive true, up to BEGIN.  The generated kid is new.
CreateActive(r, k) ==
  /\ row[k] = "unused"
  /\ \A q \in Requests : kid[q] # k
  /\ Start(r, "createActive", k, "tx")
  /\ UNCHANGED tableVars

\* PUT /api/keys: findUnique finds the new key.
Rotate(r, k) ==
  /\ Exists(k)
  /\ Start(r, "rotate", k, "tx")
  /\ UNCHANGED tableVars

\* PUT /api/keys/[id] with isActive true: the others are deactivated only if the key
\* was read as inactive.
Activate(r, k) ==
  /\ Exists(k)
  /\ Start(r, "activate", k, IF row[k] = "inactive" THEN "tx" ELSE "write")
  /\ UNCHANGED tableVars

\* PUT /api/keys/[id] with isActive false.
Deactivate(r, k) ==
  /\ Exists(k)
  /\ Start(r, "deactivate", k, "write")
  /\ UNCHANGED tableVars

\* Slip: the check for the active key is missing.
DeleteUnchecked(r, k) ==
  /\ Exists(k)
  /\ Start(r, "delete", k, "write")
  /\ UNCHANGED tableVars

\* DELETE /api/keys/[id], up to its check.
Delete(r, k) ==
  /\ row[k] = "inactive"
  /\ Start(r, "delete", k, "write")
  /\ UNCHANGED tableVars

\* POST /api/config/publish calls ensureSigningKey.
Publish(r) ==
  /\ Start(r, "publish", NoKid, "look")
  /\ UNCHANGED tableVars

-----------------------------------------------------------------------------
(* The transactions. *)

\* An activation of k commits.
Activated(k) ==
  /\ chosen' = k
  /\ overtaken' = [q \in Requests |->
                     overtaken[q] \/ (op[q] = "delete" /\ pc[q] = "write" /\ kid[q] = k)]

\* Slip: the other keys are left as they are.
ScanNothing(r) ==
  /\ pc[r] = "tx"
  /\ pc' = [pc EXCEPT ![r] = "visit"]
  /\ UNCHANGED <<tableVars, op, kid, todo, off, seenVars, faults>>

\* updateMany where isActive starts: the rows its snapshot selects.
Scan(r) ==
  /\ pc[r] = "tx"
  /\ pc' = [pc EXCEPT ![r] = "visit"]
  /\ todo' = [todo EXCEPT ![r] = Active]
  /\ UNCHANGED <<tableVars, op, kid, off, seenVars, faults>>

\* Slip: each deactivation is committed by itself.
VisitWithoutTransaction(r, k) ==
  /\ pc[r] = "visit" /\ k \in todo[r]
  /\ todo' = [todo EXCEPT ![r] = @ \ {k}]
  /\ row' = [row EXCEPT ![k] = IF @ = "active" THEN "inactive" ELSE @]
  /\ UNCHANGED <<born, pc, op, kid, off, seenVars, faults>>

\* It locks and deactivates one of them, or skips it when it is no longer active.
Visit(r, k) ==
  /\ pc[r] = "visit" /\ k \in todo[r]
  /\ LockFree(k, r)
  /\ todo' = [todo EXCEPT ![r] = @ \ {k}]
  /\ off' = [off EXCEPT ![r] = IF row[k] = "active" THEN @ \cup {k} ELSE @]
  /\ UNCHANGED <<tableVars, pc, op, kid, seenVars, faults>>

\* The last statement of the request is next.
AtWrite(r) == pc[r] = "write" \/ (pc[r] = "visit" /\ todo[r] = {})

End(r, how) ==
  /\ pc' = [pc EXCEPT ![r] = how]
  /\ off' = [off EXCEPT ![r] = {}]
  /\ todo' = [todo EXCEPT ![r] = {}]
  /\ UNCHANGED <<op, kid>>

\* update isActive true, or the insert of an active key, and COMMIT: what the
\* transaction has deactivated becomes visible with it.
CommitActive(r) ==
  /\ AtWrite(r)
  /\ op[r] \in {"createActive", "rotate", "activate"}
  /\ LockFree(kid[r], r)
  /\ Exists(kid[r]) \/ op[r] = "createActive"
  /\ row' = [k \in Kids |-> IF k = kid[r] THEN "active"
                            ELSE IF k \in off[r] THEN "inactive" ELSE row[k]]
  /\ born' = [born EXCEPT ![kid[r]] = IF op[r] = "createActive" THEN Now ELSE @]
  /\ Activated(kid[r])
  /\ End(r, "done")
  /\ UNCHANGED <<signer, faults>>

CommitInactive(r) ==
  /\ AtWrite(r)
  /\ op[r] = "deactivate"
  /\ LockFree(kid[r], r)
  /\ Exists(kid[r])
  /\ row' = [row EXCEPT ![kid[r]] = "inactive"]
  /\ End(r, "done")
  /\ UNCHANGED <<born, seenVars, faults>>

\* DELETE goes by kid alone: the row may have been activated since the check.
CommitDelete(r) ==
  /\ AtWrite(r)
  /\ op[r] = "delete"
  /\ LockFree(kid[r], r)
  /\ Exists(kid[r])
  /\ row' = [row EXCEPT ![kid[r]] = "deleted"]
  /\ End(r, "done")
  /\ UNCHANGED <<born, seenVars, faults>>

\* P2025, the row is gone: the transaction is rolled back.
MissingRow(r) ==
  /\ AtWrite(r) \/ pc[r] = "enable"
  /\ op[r] # "createActive"
  /\ LockFree(kid[r], r)
  /\ ~Exists(kid[r])
  /\ End(r, "failed")
  /\ UNCHANGED <<tableVars, seenVars, faults>>

-----------------------------------------------------------------------------
(* Publishing. *)

\* ensureSigningKey: findFirst isActive true.
FindActive(r) ==
  /\ pc[r] = "look"
  /\ pc' = [pc EXCEPT ![r] = IF Active # {} THEN "sign" ELSE "lookAgain"]
  /\ UNCHANGED <<tableVars, op, kid, todo, off, seenVars, faults>>

\* findFirst isActive false, in no particular order.
FindInactive(r) ==
  /\ pc[r] = "lookAgain"
  /\ \/ \E k \in Kids : /\ row[k] = "inactive"
                        /\ kid' = [kid EXCEPT ![r] = k]
                        /\ pc' = [pc EXCEPT ![r] = "enable"]
     \/ /\ \A k \in Kids : row[k] # "inactive"
        /\ pc' = [pc EXCEPT ![r] = "mint"]
        /\ UNCHANGED kid
  /\ UNCHANGED <<tableVars, op, todo, off, seenVars, faults>>

Enable(r) ==
  /\ pc[r] = "enable"
  /\ LockFree(kid[r], r)
  /\ Exists(kid[r])
  /\ row' = [row EXCEPT ![kid[r]] = "active"]
  /\ Activated(kid[r])
  /\ pc' = [pc EXCEPT ![r] = "sign"]
  /\ UNCHANGED <<born, op, kid, todo, off, signer, faults>>

Mint(r, k) ==
  /\ pc[r] = "mint"
  /\ \A q \in Requests : kid[q] # k
  /\ Insert(k, "active")
  /\ Activated(k)
  /\ pc' = [pc EXCEPT ![r] = "sign"]
  /\ UNCHANGED <<op, kid, todo, off, signer, faults>>

\* Slip: the key that signed the live config is kept as long as it is there.
SigningKeyKept(k) ==
  Exists(k) /\ (Exists(signer) => k = signer)

\* findFirst isActive true, orderBy createdAt desc.
SigningKey(k) ==
  k \in Active /\ \A j \in Active : born[k] >= born[j]

\* signConfigDetached; the upload that follows makes the signature the live one.
Sign(r, k) ==
  /\ pc[r] = "sign"
  /\ SigningKey(k)
  /\ signer' = k
  /\ End(r, "done")
  /\ UNCHANGED <<tableVars, chosen, overtaken, faults>>

SignFails(r) ==
  /\ pc[r] = "sign"
  /\ Active = {}
  /\ End(r, "failed")
  /\ UNCHANGED <<tableVars, seenVars, faults>>

-----------------------------------------------------------------------------
(* The environment. *)

\* Slip: the locks of a failed transaction stay.
AbortKeepingLocks(r) ==
  /\ Running(r)
  /\ faults < MaxFaults
  /\ faults' = faults + 1
  /\ pc' = [pc EXCEPT ![r] = "failed"]
  /\ UNCHANGED <<tableVars, op, kid, todo, off, seenVars>>

\* A call throws or times out, or the process dies: ROLLBACK.
Abort(r) ==
  /\ Running(r)
  /\ faults < MaxFaults
  /\ faults' = faults + 1
  /\ End(r, "failed")
  /\ UNCHANGED <<tableVars, seenVars>>

\* PostgreSQL ends a cycle of waits by aborting one of the transactions in it.
Deadlocked(S) == S # {} /\ \A r \in S : \E q \in S : WaitsFor(r, q)

BreakDeadlock(r) ==
  /\ \E S \in SUBSET Requests : r \in S /\ Deadlocked(S)
  /\ End(r, "failed")
  /\ UNCHANGED <<tableVars, seenVars, faults>>

Ask(r) ==
  \/ Publish(r)
  \/ \E k \in Kids : \/ Create(r, k) \/ CreateActive(r, k) \/ Rotate(r, k)
                     \/ Activate(r, k) \/ Deactivate(r, k) \/ Delete(r, k)

Step(r) ==
  \/ Scan(r) \/ CommitActive(r) \/ CommitInactive(r) \/ CommitDelete(r) \/ MissingRow(r)
  \/ FindActive(r) \/ FindInactive(r) \/ Enable(r) \/ SignFails(r)
  \/ \E k \in Kids : Visit(r, k) \/ Mint(r, k) \/ Sign(r, k)

Next ==
  \/ \E r \in Requests : Ask(r) \/ Step(r) \/ Abort(r) \/ BreakDeadlock(r)

Spec == Init /\ [][Next]_vars

\* A started request goes on, and the database breaks every deadlock.
FairSpec == Spec /\ \A r \in Requests : WF_vars(Step(r) \/ BreakDeadlock(r))

-----------------------------------------------------------------------------
(* Correctness. *)

\* "Activating a key deactivates all other keys for the app": one key at most is
\* active (docs/api-reference.md:775, 793, 837).
AtMostOneActive == \A j, k \in Active : j = k

\* Only a request that asks to deactivate or delete a key takes the last active one
\* away: rotations, activations and publishes never leave the app without a key to
\* sign with, however they interleave and fail (the transactions of
\* keys/route.ts:103, 193 and keys/[id]/route.ts:108).
KeyLossIsAsked ==
  [][Active # {} /\ Active' = {} =>
       \E r \in Requests : /\ op[r] \in {"deactivate", "delete"}
                           /\ Running(r) /\ pc'[r] = "done"]_vars

\* "Cannot delete the active key": DELETE removes an active key only when an activation of
\* that very key committed between its check and its delete, whatever else overlaps
\* (docs/api-reference.md:859, keys/[id]/route.ts:187-195).
DeletesActiveOnlyIfOvertaken ==
  [][\A k \in Active : row'[k] = "deleted" =>
       \E r \in Requests : /\ op[r] = "delete" /\ kid[r] = k /\ pc'[r] # pc[r]
                           /\ overtaken[r]]_vars

\* "New publishes will be signed with the new key": every publish that signs does so with
\* the key activated last, also when the key it finds has signed before
\* (docs/security.md:68).
SignsWithChosen ==
  [][\A r \in Requests : pc[r] = "sign" /\ pc'[r] = "done" => signer' = chosen]_vars

\* Every request that starts is answered: waits for row locks end.
Answered == \A r \in Requests : Running(r) ~> ~Running(r)

=============================================================================
