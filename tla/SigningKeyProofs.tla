-------------------------- MODULE SigningKeyProofs --------------------------
(***************************************************************************)
(* Theorems about SigningKeys, for any sets of keys and requests.          *)
(***************************************************************************)
EXTENDS SigningKeys, FiniteSetTheorems, TLAPS

-----------------------------------------------------------------------------
(* Types, and what a request is about once it has started.                  *)

\* A request that has a statement to run on one row knows the row.
HasKid ==
  \A r \in Requests : pc[r] \in {"tx", "visit", "write", "enable"} => kid[r] \in Kids

\* Requests ask for operations in KeyOps, and only reach the labels of theirs.
Asked ==
  \A r \in Requests :
    /\ op[r] \in KeyOps \cup {"none"}
    /\ op[r] = "none" => pc[r] = "idle"
    /\ pc[r] \in {"look", "lookAgain", "enable", "mint", "sign"} => op[r] = "publish"
    /\ pc[r] \in {"tx", "visit"} => op[r] \in {"createActive", "rotate", "activate"}
    /\ pc[r] = "write" => op[r] \in {"activate", "deactivate", "delete"}

Shape == TypeOK /\ HasKid /\ Asked

\* createdAt is a natural number: only so many keys exist.
LEMMA NowNat == Now \in Nat
<1>1. IsFiniteSet({k \in Kids : row[k] # "unused"})
  BY KeyAssumption, FS_Subset
<1>2. QED BY <1>1, FS_CardinalityType DEF Now

\* A request that the database aborts to break a deadlock has a statement waiting.
LEMMA VictimWaits ==
  ASSUME NEW r \in Requests, BreakDeadlock(r)
  PROVE  pc[r] \in {"visit", "write", "enable"}
BY DEF BreakDeadlock, Deadlocked, WaitsFor

\* Shape holds initially.
LEMMA ShapeInit == Init => Shape
BY KeyAssumption DEF Init, Shape, TypeOK, HasKid, Asked, PCs, Statuses

\* Every step keeps Shape.
LEMMA ShapeStep ==
  ASSUME Shape, [Next]_vars
  PROVE  Shape'
<1> USE KeyAssumption DEF Shape, TypeOK, HasKid, Asked, PCs, Ops, Statuses, AtWrite, End,
        Activated, Start, MayStart, Exists, Running, tableVars, reqVars, seenVars
<1>1. ASSUME NEW r \in Requests, Publish(r) PROVE Shape'
  BY <1>1 DEF Publish
<1>2. ASSUME NEW r \in Requests, Scan(r) PROVE Shape'
  BY <1>2 DEF Scan, Active
<1>3. ASSUME NEW r \in Requests, CommitActive(r) PROVE Shape'
  BY <1>3, NowNat DEF CommitActive
<1>4. ASSUME NEW r \in Requests, CommitInactive(r) PROVE Shape'
  BY <1>4 DEF CommitInactive
<1>5. ASSUME NEW r \in Requests, CommitDelete(r) PROVE Shape'
  BY <1>5 DEF CommitDelete
<1>6. ASSUME NEW r \in Requests, MissingRow(r) PROVE Shape'
  BY <1>6 DEF MissingRow
<1>7. ASSUME NEW r \in Requests, FindActive(r) PROVE Shape'
  BY <1>7 DEF FindActive
<1>8. ASSUME NEW r \in Requests, FindInactive(r) PROVE Shape'
  BY <1>8 DEF FindInactive
<1>9. ASSUME NEW r \in Requests, Enable(r) PROVE Shape'
  BY <1>9 DEF Enable
<1>10. ASSUME NEW r \in Requests, SignFails(r) PROVE Shape'
  BY <1>10 DEF SignFails, Active
<1>11. ASSUME NEW r \in Requests, Abort(r) PROVE Shape'
  BY <1>11 DEF Abort
<1>12. ASSUME NEW r \in Requests, BreakDeadlock(r) PROVE Shape'
  <2>1. pc[r] \in {"visit", "write", "enable"}
    BY <1>12, VictimWaits
  <2>2. End(r, "failed") /\ UNCHANGED <<tableVars, seenVars, faults>>
    BY <1>12 DEF BreakDeadlock
  <2>3. QED BY <2>1, <2>2
<1>13. ASSUME NEW r \in Requests, NEW k \in Kids, Create(r, k) PROVE Shape'
  BY <1>13, NowNat DEF Create, Insert
<1>14. ASSUME NEW r \in Requests, NEW k \in Kids, CreateActive(r, k) PROVE Shape'
  BY <1>14 DEF CreateActive
<1>15. ASSUME NEW r \in Requests, NEW k \in Kids, Rotate(r, k) PROVE Shape'
  BY <1>15 DEF Rotate
<1>16. ASSUME NEW r \in Requests, NEW k \in Kids, Activate(r, k) PROVE Shape'
  BY <1>16 DEF Activate
<1>17. ASSUME NEW r \in Requests, NEW k \in Kids, Deactivate(r, k) PROVE Shape'
  BY <1>17 DEF Deactivate
<1>18. ASSUME NEW r \in Requests, NEW k \in Kids, Delete(r, k) PROVE Shape'
  BY <1>18 DEF Delete
<1>19. ASSUME NEW r \in Requests, NEW k \in Kids, Visit(r, k) PROVE Shape'
  BY <1>19 DEF Visit
<1>20. ASSUME NEW r \in Requests, NEW k \in Kids, Mint(r, k) PROVE Shape'
  BY <1>20, NowNat DEF Mint, Insert
<1>21. ASSUME NEW r \in Requests, NEW k \in Kids, Sign(r, k) PROVE Shape'
  BY <1>21 DEF Sign, SigningKey, Active
<1>22. CASE UNCHANGED vars
  BY <1>22 DEF vars
<1>23. QED
  <2> HIDE KeyAssumption DEF Shape, TypeOK, HasKid, Asked, PCs, Ops, Statuses, AtWrite, End,
        Activated, Start, MayStart, Exists, Running, tableVars, reqVars, seenVars
  <2> QED BY <1>1, <1>2, <1>3, <1>4, <1>5, <1>6, <1>7, <1>8, <1>9, <1>10, <1>11, <1>12,
             <1>13, <1>14, <1>15, <1>16, <1>17, <1>18, <1>19, <1>20, <1>21, <1>22 DEF Next, Ask, Step

\* The state keeps its types.
THEOREM KeysTypeCorrect == Spec => []TypeOK
<1>1. Init => Shape
  BY ShapeInit
<1>2. Shape /\ [Next]_vars => Shape'
  BY ShapeStep
<1>3. Shape => TypeOK
  BY DEF Shape
<1>4. QED BY <1>1, <1>2, <1>3, PTL DEF Spec

-----------------------------------------------------------------------------
(* A key to sign with.                                                      *)

NeverWithoutKey == Active # {}

\* Whatever a transaction deactivates, it commits together with an activation.
LEMMA ActiveStep ==
  ASSUME Shape, NeverWithoutKey, [Next]_vars,
         \A r \in Requests : ~CommitInactive(r) /\ ~CommitDelete(r)
  PROVE  NeverWithoutKey'
<1>1. Shape'
  BY ShapeStep
<1> USE KeyAssumption DEF NeverWithoutKey, Shape, TypeOK, HasKid, Asked, PCs, Ops, Statuses, AtWrite, End,
        Activated, Start, MayStart, Exists, Running, Active, tableVars, reqVars, seenVars
<1>2. ASSUME NEW r \in Requests, Publish(r) PROVE NeverWithoutKey'
  BY <1>1, <1>2 DEF Publish
<1>3. ASSUME NEW r \in Requests, Scan(r) PROVE NeverWithoutKey'
  BY <1>1, <1>3 DEF Scan
<1>4. ASSUME NEW r \in Requests, CommitActive(r) PROVE NeverWithoutKey'
  BY <1>1, <1>4 DEF CommitActive
<1>5. ASSUME NEW r \in Requests, CommitInactive(r) PROVE NeverWithoutKey'
  BY <1>1, <1>5 DEF CommitInactive
<1>6. ASSUME NEW r \in Requests, CommitDelete(r) PROVE NeverWithoutKey'
  BY <1>1, <1>6 DEF CommitDelete
<1>7. ASSUME NEW r \in Requests, MissingRow(r) PROVE NeverWithoutKey'
  BY <1>1, <1>7 DEF MissingRow
<1>8. ASSUME NEW r \in Requests, FindActive(r) PROVE NeverWithoutKey'
  BY <1>1, <1>8 DEF FindActive
<1>9. ASSUME NEW r \in Requests, FindInactive(r) PROVE NeverWithoutKey'
  BY <1>1, <1>9 DEF FindInactive
<1>10. ASSUME NEW r \in Requests, Enable(r) PROVE NeverWithoutKey'
  BY <1>1, <1>10 DEF Enable
<1>11. ASSUME NEW r \in Requests, SignFails(r) PROVE NeverWithoutKey'
  BY <1>1, <1>11 DEF SignFails
<1>12. ASSUME NEW r \in Requests, Abort(r) PROVE NeverWithoutKey'
  BY <1>1, <1>12 DEF Abort
<1>13. ASSUME NEW r \in Requests, BreakDeadlock(r) PROVE NeverWithoutKey'
  <2>1. pc[r] \in {"visit", "write", "enable"}
    BY <1>13, VictimWaits
  <2>2. End(r, "failed") /\ UNCHANGED <<tableVars, seenVars, faults>>
    BY <1>13 DEF BreakDeadlock
  <2>3. QED BY <1>1, <2>1, <2>2
<1>14. ASSUME NEW r \in Requests, NEW k \in Kids, Create(r, k) PROVE NeverWithoutKey'
  BY <1>1, <1>14 DEF Create, Insert
<1>15. ASSUME NEW r \in Requests, NEW k \in Kids, CreateActive(r, k) PROVE NeverWithoutKey'
  BY <1>1, <1>15 DEF CreateActive
<1>16. ASSUME NEW r \in Requests, NEW k \in Kids, Rotate(r, k) PROVE NeverWithoutKey'
  BY <1>1, <1>16 DEF Rotate
<1>17. ASSUME NEW r \in Requests, NEW k \in Kids, Activate(r, k) PROVE NeverWithoutKey'
  BY <1>1, <1>17 DEF Activate
<1>18. ASSUME NEW r \in Requests, NEW k \in Kids, Deactivate(r, k) PROVE NeverWithoutKey'
  BY <1>1, <1>18 DEF Deactivate
<1>19. ASSUME NEW r \in Requests, NEW k \in Kids, Delete(r, k) PROVE NeverWithoutKey'
  BY <1>1, <1>19 DEF Delete
<1>20. ASSUME NEW r \in Requests, NEW k \in Kids, Visit(r, k) PROVE NeverWithoutKey'
  BY <1>1, <1>20 DEF Visit
<1>21. ASSUME NEW r \in Requests, NEW k \in Kids, Mint(r, k) PROVE NeverWithoutKey'
  BY <1>1, <1>21 DEF Mint, Insert
<1>22. ASSUME NEW r \in Requests, NEW k \in Kids, Sign(r, k) PROVE NeverWithoutKey'
  BY <1>1, <1>22 DEF Sign, SigningKey
<1>23. CASE UNCHANGED vars
  BY <1>1, <1>23 DEF vars
<1>24. QED
  <2> HIDE KeyAssumption DEF NeverWithoutKey, Shape, TypeOK, HasKid, Asked, PCs, Ops, Statuses, AtWrite, End,
        Activated, Start, MayStart, Exists, Running, Active, tableVars, reqVars, seenVars
  <2> QED BY <1>2, <1>3, <1>4, <1>5, <1>6, <1>7, <1>8, <1>9, <1>10, <1>11, <1>12,
             <1>13, <1>14, <1>15, <1>16, <1>17, <1>18, <1>19, <1>20, <1>21, <1>22,
             <1>23 DEF Next, Ask, Step

\* Rotations, activations and publishes never take the last active key away, however
\* the transactions of /api/keys interleave and wherever they fail.
THEOREM KeyLossOnlyAsked == Spec => KeyLossIsAsked
<1> DEFINE Asker(r) == /\ op[r] \in {"deactivate", "delete"}
                       /\ Running(r) /\ pc'[r] = "done"
<1>1. Shape /\ [Next]_vars => (Active # {} /\ Active' = {} => \E r \in Requests : Asker(r))
  <2> SUFFICES ASSUME Shape, [Next]_vars, Active # {}, Active' = {}
               PROVE  \E r \in Requests : Asker(r)
    OBVIOUS
  <2>1. ASSUME NEW r \in Requests, CommitInactive(r) \/ CommitDelete(r)
        PROVE  Asker(r)
    BY <2>1 DEF CommitInactive, CommitDelete, AtWrite, End, Running, Shape, TypeOK
  <2>2. \E r \in Requests : CommitInactive(r) \/ CommitDelete(r)
    BY ActiveStep DEF NeverWithoutKey
  <2>3. QED BY <2>1, <2>2
<1>2. Init => Shape
  BY ShapeInit
<1>3. Shape /\ [Next]_vars => Shape'
  BY ShapeStep
<1>4. QED BY <1>1, <1>2, <1>3, PTL DEF Spec, KeyLossIsAsked

\* If nobody deactivates or deletes keys the app always has an active one.
THEOREM AlwaysAKey ==
  ASSUME KeyOps \cap {"deactivate", "delete"} = {}
  PROVE  Spec => []NeverWithoutKey
<1>1. Init => Shape /\ NeverWithoutKey
  BY ShapeInit, KeyAssumption DEF Init, NeverWithoutKey, Active
<1>2. Shape => \A r \in Requests : ~CommitInactive(r) /\ ~CommitDelete(r)
  BY DEF Shape, Asked, CommitInactive, CommitDelete
<1>3. Shape /\ NeverWithoutKey /\ [Next]_vars => (Shape /\ NeverWithoutKey)'
  BY <1>2, ShapeStep, ActiveStep
<1>4. QED BY <1>1, <1>3, PTL DEF Spec

-----------------------------------------------------------------------------
(* Deletions of active keys, whatever overlaps.                             *)

\* A DELETE past its check whose key is active was overtaken by an activation of it.
CheckedOrOvertaken ==
  \A r \in Requests :
    pc[r] = "write" /\ op[r] = "delete" /\ row[kid[r]] = "active" => overtaken[r]

\* A step that activates k and at most deactivates others marks the deletes it overtakes.
LEMMA ActivationMarks ==
  ASSUME Shape, Shape', CheckedOrOvertaken, NEW k \in Kids, Activated(k),
         \A j \in Kids : row'[j] = "active" => j = k \/ row[j] = "active",
         \A q \in Requests : pc'[q] = "write" => pc[q] = "write",
         op' = op, kid' = kid
  PROVE  CheckedOrOvertaken'
<1> SUFFICES ASSUME NEW q \in Requests, pc'[q] = "write", op'[q] = "delete",
                    row'[kid'[q]] = "active"
             PROVE  overtaken'[q]
  BY DEF CheckedOrOvertaken
<1>1. pc[q] = "write" /\ op[q] = "delete" /\ row'[kid[q]] = "active"
  OBVIOUS
<1>2. kid[q] \in Kids
  BY <1>1 DEF Shape, HasKid
<1>3. overtaken'[q] = (overtaken[q] \/ (op[q] = "delete" /\ pc[q] = "write" /\ kid[q] = k))
  BY DEF Activated
<1>4. CASE kid[q] = k
  BY <1>1, <1>3, <1>4
<1>5. CASE row[kid[q]] = "active"
  <2>1. overtaken[q]
    BY <1>1, <1>5 DEF CheckedOrOvertaken
  <2>2. QED BY <1>3, <2>1
<1>6. QED BY <1>1, <1>2, <1>4, <1>5

LEMMA CheckedStep ==
  ASSUME Shape, CheckedOrOvertaken, [Next]_vars
  PROVE  CheckedOrOvertaken'
<1>1. Shape'
  BY ShapeStep
<1> USE KeyAssumption DEF CheckedOrOvertaken, Shape, TypeOK, HasKid, Asked, PCs, Ops, Statuses,
        AtWrite, End, Activated, Start, MayStart, Exists, Running, Active, tableVars, reqVars,
        seenVars
<1>2. ASSUME NEW r \in Requests, Publish(r) PROVE CheckedOrOvertaken'
  BY <1>1, <1>2 DEF Publish
<1>3. ASSUME NEW r \in Requests, Scan(r) PROVE CheckedOrOvertaken'
  BY <1>1, <1>3 DEF Scan
<1>4. ASSUME NEW r \in Requests, CommitActive(r) PROVE CheckedOrOvertaken'
  <2>1. row' = [k \in Kids |-> IF k = kid[r] THEN "active"
                               ELSE IF k \in off[r] THEN "inactive" ELSE row[k]]
    BY <1>4 DEF CommitActive
  <2>2. \A q \in Requests : pc'[q] = "write" => pc[q] = "write"
    BY <1>4 DEF CommitActive
  <2>3. op' = op /\ kid' = kid
    BY <1>4 DEF CommitActive
  <2>4. Activated(kid[r])
    BY <1>4 DEF CommitActive
  <2>5. kid[r] \in Kids
    BY <1>4 DEF CommitActive
  <2>6. \A j \in Kids : row'[j] = "active" => j = kid[r] \/ row[j] = "active"
    BY <2>1
  <2>7. QED
    <3> HIDE DEF CheckedOrOvertaken, Shape, TypeOK, HasKid, Asked, Activated
    <3> QED BY <1>1, <2>2, <2>3, <2>4, <2>5, <2>6, ActivationMarks
<1>5. ASSUME NEW r \in Requests, CommitInactive(r) \/ CommitDelete(r) PROVE CheckedOrOvertaken'
  BY <1>1, <1>5 DEF CommitInactive, CommitDelete
<1>6. ASSUME NEW r \in Requests, MissingRow(r) PROVE CheckedOrOvertaken'
  BY <1>1, <1>6 DEF MissingRow
<1>7. ASSUME NEW r \in Requests, FindActive(r) \/ FindInactive(r) PROVE CheckedOrOvertaken'
  BY <1>1, <1>7 DEF FindActive, FindInactive
<1>8. ASSUME NEW r \in Requests, Enable(r) PROVE CheckedOrOvertaken'
  <2>1. row' = [row EXCEPT ![kid[r]] = "active"]
    BY <1>8 DEF Enable
  <2>2. \A q \in Requests : pc'[q] = "write" => pc[q] = "write"
    BY <1>8 DEF Enable
  <2>3. op' = op /\ kid' = kid
    BY <1>8 DEF Enable
  <2>4. Activated(kid[r])
    BY <1>8 DEF Enable
  <2>5. kid[r] \in Kids
    BY <1>8 DEF Enable
  <2>6. \A j \in Kids : row'[j] = "active" => j = kid[r] \/ row[j] = "active"
    BY <2>1
  <2>7. QED
    <3> HIDE DEF CheckedOrOvertaken, Shape, TypeOK, HasKid, Asked, Activated
    <3> QED BY <1>1, <2>2, <2>3, <2>4, <2>5, <2>6, ActivationMarks
<1>9. ASSUME NEW r \in Requests, SignFails(r) \/ Abort(r) PROVE CheckedOrOvertaken'
  BY <1>1, <1>9 DEF SignFails, Abort
<1>10. ASSUME NEW r \in Requests, BreakDeadlock(r) PROVE CheckedOrOvertaken'
  <2>1. End(r, "failed") /\ UNCHANGED <<tableVars, seenVars, faults>>
    BY <1>10 DEF BreakDeadlock
  <2>2. QED BY <1>1, <2>1
<1>11. ASSUME NEW r \in Requests, NEW k \in Kids, Create(r, k) PROVE CheckedOrOvertaken'
  BY <1>1, <1>11 DEF Create, Insert
<1>12. ASSUME NEW r \in Requests, NEW k \in Kids,
              CreateActive(r, k) \/ Rotate(r, k) \/ Activate(r, k) \/ Deactivate(r, k)
       PROVE  CheckedOrOvertaken'
  BY <1>1, <1>12 DEF CreateActive, Rotate, Activate, Deactivate
<1>13. ASSUME NEW r \in Requests, NEW k \in Kids, Delete(r, k) PROVE CheckedOrOvertaken'
  BY <1>1, <1>13 DEF Delete
<1>14. ASSUME NEW r \in Requests, NEW k \in Kids, Visit(r, k) PROVE CheckedOrOvertaken'
  BY <1>1, <1>14 DEF Visit
<1>15. ASSUME NEW r \in Requests, NEW k \in Kids, Mint(r, k) PROVE CheckedOrOvertaken'
  BY <1>1, <1>15 DEF Mint, Insert
<1>16. ASSUME NEW r \in Requests, NEW k \in Kids, Sign(r, k) PROVE CheckedOrOvertaken'
  BY <1>1, <1>16 DEF Sign
<1>17. CASE UNCHANGED vars
  BY <1>1, <1>17 DEF vars
<1>18. QED
  <2> HIDE KeyAssumption DEF CheckedOrOvertaken, Shape, TypeOK, HasKid, Asked, PCs, Ops, Statuses,
        AtWrite, End, Activated, Start, MayStart, Exists, Running, Active, tableVars, reqVars,
        seenVars
  <2> QED BY <1>2, <1>3, <1>4, <1>5, <1>6, <1>7, <1>8, <1>9, <1>10, <1>11, <1>12, <1>13,
             <1>14, <1>15, <1>16, <1>17 DEF Next, Ask, Step

\* Nothing but the delete of a request past its check removes a key.
LEMMA OnlyDeleteDeletes ==
  ASSUME Shape, [Next]_vars, NEW k \in Kids, row[k] = "active", row'[k] = "deleted"
  PROVE  \E r \in Requests : CommitDelete(r) /\ kid[r] = k
<1>1. ASSUME NEW r \in Requests, CommitDelete(r)
      PROVE  kid[r] = k
  BY <1>1 DEF CommitDelete, Shape, TypeOK
<1>2. \E r \in Requests : CommitDelete(r)
  BY DEF Next, Ask, Step, vars, tableVars, Shape, TypeOK, Active, Insert, Start,
     Publish, Create, CreateActive, Rotate, Activate, Deactivate, Delete, Scan, Visit,
     CommitActive, CommitInactive, MissingRow, FindActive, FindInactive, Enable, Mint,
     Sign, SignFails, Abort, BreakDeadlock
<1>3. QED BY <1>1, <1>2

\* However requests overlap and fail, an active key is deleted only by a request whose check
\* an activation of that key has overtaken.
THEOREM DeletionsOvertaken == Spec => DeletesActiveOnlyIfOvertaken
<1>1. ASSUME Shape, CheckedOrOvertaken, [Next]_vars, NEW k \in Active, row'[k] = "deleted"
      PROVE  \E r \in Requests : /\ op[r] = "delete" /\ kid[r] = k /\ pc'[r] # pc[r]
                                /\ overtaken[r]
  <2>1. k \in Kids /\ row[k] = "active"
    BY DEF Active
  <2>2. PICK r \in Requests : CommitDelete(r) /\ kid[r] = k
    BY <1>1, <2>1, OnlyDeleteDeletes
  <2>3. pc[r] = "write" /\ op[r] = "delete" /\ pc'[r] = "done"
    BY <1>1, <2>2 DEF CommitDelete, AtWrite, End, Shape, TypeOK, Asked
  <2>4. overtaken[r]
    BY <1>1, <2>1, <2>2, <2>3 DEF CheckedOrOvertaken
  <2>5. QED BY <2>2, <2>3, <2>4
<1>2. Shape /\ CheckedOrOvertaken /\ [Next]_vars =>
        \A k \in Active : row'[k] = "deleted" =>
          \E r \in Requests : /\ op[r] = "delete" /\ kid[r] = k /\ pc'[r] # pc[r]
                              /\ overtaken[r]
  BY <1>1
<1>3. Init => Shape /\ CheckedOrOvertaken
  BY ShapeInit DEF Init, CheckedOrOvertaken
<1>4. Shape /\ CheckedOrOvertaken /\ [Next]_vars => (Shape /\ CheckedOrOvertaken)'
  BY ShapeStep, CheckedStep
<1>5. QED BY <1>2, <1>3, <1>4, PTL DEF Spec, DeletesActiveOnlyIfOvertaken

-----------------------------------------------------------------------------
(* Signatures.                                                              *)

\* A publish that is about to sign and is done after one step has signed.
LEMMA OnlySignSigns ==
  ASSUME Shape, [Next]_vars, NEW r \in Requests, pc[r] = "sign", pc'[r] = "done"
  PROVE  \E k \in Kids : Sign(r, k)
<1> USE DEF Shape, TypeOK, Asked, End, AtWrite
<1>1. op[r] = "publish"
  BY DEF Shape, Asked
<1>2. ASSUME NEW q \in Requests, Ask(q)
      PROVE  FALSE
  BY <1>2 DEF Ask, Publish, Create, CreateActive, Rotate, Activate, Deactivate, Delete, Start,
              MayStart
<1>3. ASSUME NEW q \in Requests, Abort(q) \/ BreakDeadlock(q)
      PROVE  FALSE
  BY <1>3 DEF Abort, BreakDeadlock
<1>4. ASSUME NEW q \in Requests,
             \/ Scan(q) \/ CommitActive(q) \/ CommitInactive(q) \/ CommitDelete(q) \/ MissingRow(q)
             \/ FindActive(q) \/ FindInactive(q) \/ Enable(q) \/ SignFails(q)
             \/ \E k \in Kids : Visit(q, k) \/ Mint(q, k)
      PROVE  FALSE
  BY <1>1, <1>4 DEF Scan, CommitActive, CommitInactive, CommitDelete, MissingRow, FindActive,
              FindInactive, Enable, SignFails, Visit, Mint
<1>5. ASSUME NEW q \in Requests, NEW k \in Kids, Sign(q, k)
      PROVE  q = r
  BY <1>5 DEF Sign
<1>6. pc' # pc
  OBVIOUS
<1>7. QED BY <1>2, <1>3, <1>4, <1>5, <1>6 DEF Next, Step, vars, reqVars

-----------------------------------------------------------------------------
(* One request at a time, in an app that starts with one active key.         *)

\* No two requests run; the only key that can be active is the one activated last;
\* an updateMany has every active key before it or behind it; what a handler has
\* read still holds when it writes.
Serial ==
  /\ \A q, r \in Requests : Running(q) /\ Running(r) => q = r
  /\ Active \subseteq {chosen}
  /\ \A r \in Requests :
       /\ pc[r] = "visit" => Active \subseteq todo[r] \cup off[r]
       /\ pc[r] = "write" /\ op[r] = "activate" => kid[r] \in Active
       /\ pc[r] = "write" /\ op[r] = "delete" => kid[r] \notin Active
       /\ pc[r] \in {"lookAgain", "enable", "mint"} => Active = {}

\* The inductive step.
LEMMA SerialStep ==
  ASSUME ~Overlapping, Shape, Serial, [Next]_vars
  PROVE  Serial'
<1>1. Shape'
  BY ShapeStep
<1> USE KeyAssumption DEF Serial, Shape, TypeOK, HasKid, Asked, PCs, Ops, Statuses, AtWrite, End,
        Activated, Start, MayStart, Exists, Running, Active, tableVars, reqVars, seenVars
<1>2. ASSUME NEW r \in Requests, Publish(r) PROVE Serial'
  BY <1>1, <1>2 DEF Publish
<1>3. ASSUME NEW r \in Requests, Scan(r) PROVE Serial'
  BY <1>1, <1>3 DEF Scan
<1>4. ASSUME NEW r \in Requests, CommitActive(r) PROVE Serial'
  BY <1>1, <1>4 DEF CommitActive
<1>5. ASSUME NEW r \in Requests, CommitInactive(r) PROVE Serial'
  BY <1>1, <1>5 DEF CommitInactive
<1>6. ASSUME NEW r \in Requests, CommitDelete(r) PROVE Serial'
  BY <1>1, <1>6 DEF CommitDelete
<1>7. ASSUME NEW r \in Requests, MissingRow(r) PROVE Serial'
  BY <1>1, <1>7 DEF MissingRow
<1>8. ASSUME NEW r \in Requests, FindActive(r) PROVE Serial'
  BY <1>1, <1>8 DEF FindActive
<1>9. ASSUME NEW r \in Requests, FindInactive(r) PROVE Serial'
  BY <1>1, <1>9 DEF FindInactive
<1>10. ASSUME NEW r \in Requests, Enable(r) PROVE Serial'
  BY <1>1, <1>10 DEF Enable
<1>11. ASSUME NEW r \in Requests, SignFails(r) PROVE Serial'
  BY <1>1, <1>11 DEF SignFails
<1>12. ASSUME NEW r \in Requests, Abort(r) PROVE Serial'
  BY <1>1, <1>12 DEF Abort
<1>13. ASSUME NEW r \in Requests, BreakDeadlock(r) PROVE Serial'
  <2>1. pc[r] \in {"visit", "write", "enable"}
    BY <1>13, VictimWaits
  <2>2. End(r, "failed") /\ UNCHANGED <<tableVars, seenVars, faults>>
    BY <1>13 DEF BreakDeadlock
  <2>3. QED BY <1>1, <2>1, <2>2
<1>14. ASSUME NEW r \in Requests, NEW k \in Kids, Create(r, k) PROVE Serial'
  BY <1>1, <1>14 DEF Create, Insert
<1>15. ASSUME NEW r \in Requests, NEW k \in Kids, CreateActive(r, k) PROVE Serial'
  BY <1>1, <1>15 DEF CreateActive
<1>16. ASSUME NEW r \in Requests, NEW k \in Kids, Rotate(r, k) PROVE Serial'
  BY <1>1, <1>16 DEF Rotate
<1>17. ASSUME NEW r \in Requests, NEW k \in Kids, Activate(r, k) PROVE Serial'
  BY <1>1, <1>17 DEF Activate
<1>18. ASSUME NEW r \in Requests, NEW k \in Kids, Deactivate(r, k) PROVE Serial'
  BY <1>1, <1>18 DEF Deactivate
<1>19. ASSUME NEW r \in Requests, NEW k \in Kids, Delete(r, k) PROVE Serial'
  BY <1>1, <1>19 DEF Delete
<1>20. ASSUME NEW r \in Requests, NEW k \in Kids, Visit(r, k) PROVE Serial'
  BY <1>1, <1>20 DEF Visit
<1>21. ASSUME NEW r \in Requests, NEW k \in Kids, Mint(r, k) PROVE Serial'
  BY <1>1, <1>21 DEF Mint, Insert
<1>22. ASSUME NEW r \in Requests, NEW k \in Kids, Sign(r, k) PROVE Serial'
  BY <1>1, <1>22 DEF Sign, SigningKey
<1>23. CASE UNCHANGED vars
  BY <1>1, <1>23 DEF vars
<1>24. QED
  <2> HIDE KeyAssumption DEF Serial, Shape, TypeOK, HasKid, Asked, PCs, Ops, Statuses, AtWrite, End,
        Activated, Start, MayStart, Exists, Running, Active, tableVars, reqVars, seenVars
  <2> QED BY <1>2, <1>3, <1>4, <1>5, <1>6, <1>7, <1>8, <1>9, <1>10, <1>11, <1>12,
             <1>13, <1>14, <1>15, <1>16, <1>17, <1>18, <1>19, <1>20, <1>21, <1>22,
             <1>23 DEF Next, Ask, Step

\* Without overlap, Serial holds in every reachable state.
LEMMA SerialInvariant ==
  ASSUME ~Overlapping, Starts \subseteq {{First}}
  PROVE  Spec => [](Shape /\ Serial)
<1>1. Init => Shape /\ Serial
  BY KeyAssumption DEF Init, Shape, TypeOK, HasKid, Asked, PCs, Statuses, Serial, Active, Running
<1>2. Shape /\ Serial /\ [Next]_vars => (Shape /\ Serial)'
  BY ShapeStep, SerialStep
<1>3. QED BY <1>1, <1>2, PTL DEF Spec

\* Requests handled one after another keep one key active at most.
THEOREM OneKeyActive ==
  ASSUME ~Overlapping, Starts \subseteq {{First}}
  PROVE  Spec => []AtMostOneActive
<1>1. Shape /\ Serial => AtMostOneActive
  BY DEF Serial, AtMostOneActive
<1>2. QED BY <1>1, SerialInvariant, PTL

\* Requests handled one after another sign every config with the key activated last.
THEOREM SignsWithLastActivated ==
  ASSUME ~Overlapping, Starts \subseteq {{First}}
  PROVE  Spec => SignsWithChosen
<1>1. ASSUME Shape, Serial, [Next]_vars, NEW r \in Requests, pc[r] = "sign", pc'[r] = "done"
      PROVE  signer' = chosen
  <2>1. ASSUME NEW k \in Kids, Sign(r, k)
        PROVE  signer' = chosen
    BY <1>1, <2>1 DEF Sign, SigningKey, Serial
  <2>2. \E k \in Kids : Sign(r, k)
    BY <1>1, OnlySignSigns
  <2>3. QED BY <2>1, <2>2
<1>2. Shape /\ Serial /\ [Next]_vars =>
        \A r \in Requests : pc[r] = "sign" /\ pc'[r] = "done" => signer' = chosen
  BY <1>1
<1>3. QED BY <1>2, SerialInvariant, PTL DEF Spec, SignsWithChosen

=============================================================================
