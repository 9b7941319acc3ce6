---------------------------- MODULE PublishProofs ----------------------------
(***************************************************************************)
(* Theorems about Publish, for any finite set of requests, any flags and   *)
(* keys, any overlap and (but where stated) any faults; at the end, under  *)
(* assumptions on faults and overlap, what a failed publish leaves behind, *)
(* what holds when publishes follow one another, and the lifecycle of      *)
(* flags when handlers do too.                                             *)
(***************************************************************************)
EXTENDS Publish, FiniteSetTheorems, WellFoundedInduction, TLAPS

-----------------------------------------------------------------------------
(* Maxima of finite sets of naturals.                                       *)

HasMax(S) == \E x \in S : \A y \in S : x >= y

\* Every non-empty finite set of naturals has a greatest element.  A smallest
\* counterexample would lose an element and still be one.
LEMMA MaxExists ==
  ASSUME NEW S \in SUBSET Nat, IsFiniteSet(S), S # {}
  PROVE  HasMax(S)
<1> DEFINE Bad == {T \in FiniteSubsetsOf(Nat) : T # {} /\ ~HasMax(T)}
<1>1. SUFFICES ASSUME Bad # {} PROVE FALSE
  BY DEF FiniteSubsetsOf
<1>2. PICK T \in Bad : \A U \in Bad : ~(<<U, T>> \in StrictSubsetOrdering(Nat))
  <2>1. Bad \subseteq FiniteSubsetsOf(Nat)
    OBVIOUS
  <2> HIDE DEF Bad
  <2>2. QED BY <1>1, <2>1, FS_StrictSubsetOrderingWellFounded, WFMin
<1>3. T \in SUBSET Nat /\ IsFiniteSet(T) /\ T # {} /\ ~HasMax(T)
  BY DEF FiniteSubsetsOf
<1>4. PICK x \in T : TRUE
  BY <1>3
<1> DEFINE U == T \ {x}
<1>5. U \in FiniteSubsetsOf(Nat) /\ <<U, T>> \in StrictSubsetOrdering(Nat)
  BY <1>3, <1>4, FS_RemoveElement DEF FiniteSubsetsOf, StrictSubsetOrdering
<1>6. U = {} \/ HasMax(U)
  BY <1>2, <1>5
<1>7. CASE U = {}
  BY <1>3, <1>4, <1>7 DEF HasMax
<1>8. CASE HasMax(U)
  <2>1. PICK y \in U : \A z \in U : y >= z
    BY <1>8 DEF HasMax
  <2>2. x \in Nat /\ y \in Nat /\ y \in T
    BY <1>3, <1>4, <2>1
  <2>3. CASE x >= y
    <3>1. \A z \in T : x >= z
      BY <1>3, <2>1, <2>2, <2>3
    <3>2. QED BY <1>3, <1>4, <3>1 DEF HasMax
  <2>4. CASE y >= x
    <3>1. \A z \in T : y >= z
      BY <1>3, <2>1, <2>2, <2>4
    <3>2. QED BY <1>3, <2>2, <3>1 DEF HasMax
  <2>5. QED BY <2>2, <2>3, <2>4
<1>9. QED BY <1>6, <1>7, <1>8

\* Max returns an upper bound that is in the set.
LEMMA MaxIsBound ==
  ASSUME NEW S \in SUBSET Nat, IsFiniteSet(S), S # {}
  PROVE  Max(S) \in Nat /\ \A y \in S : Max(S) >= y
<1>1. \E x \in S : \A y \in S : x >= y
  BY MaxExists DEF HasMax
<1>2. QED BY <1>1 DEF Max

\* The numbers computeNextVersion takes the maximum of.
NumbersOf(d) == {0} \cup {version[q].n : q \in {p \in Rows : version[p].day = d}}

\* They are finitely many, so there is a maximum.
LEMMA NumbersFinite ==
  ASSUME version \in [Requests -> Version], NEW d \in Nat
  PROVE  /\ IsFiniteSet(NumbersOf(d)) /\ NumbersOf(d) \subseteq Nat
         /\ Max(NumbersOf(d)) \in Nat
         /\ \A n \in NumbersOf(d) : Max(NumbersOf(d)) >= n
<1> DEFINE Same == {p \in Rows : version[p].day = d}
           Numbers == {version[q].n : q \in Same}
<1>1. IsFiniteSet(Same)
  BY PublishAssumption, FS_Subset DEF Rows
<1>2. IsFiniteSet(Numbers)
  <2> DEFINE number == [q \in Same |-> version[q].n]
  <2>1. number \in Surjection(Same, Numbers)
    BY DEF Surjection
  <2>2. QED BY <1>1, <2>1, FS_Surjection
<1>3. IsFiniteSet({0} \cup Numbers)
  <2>1. IsFiniteSet({0})
    BY FS_Singleton
  <2> HIDE DEF Numbers
  <2>2. QED BY <1>2, <2>1, FS_Union
<1>4. NumbersOf(d) = {0} \cup Numbers
  BY DEF NumbersOf
<1>5. IsFiniteSet(NumbersOf(d)) /\ NumbersOf(d) \subseteq Nat /\ NumbersOf(d) # {}
  BY <1>3, <1>4 DEF Rows, Version
<1>6. QED BY <1>5, MaxIsBound

\* The number computeNextVersion hands out: well formed, and larger than that of
\* every row of the day, so that no row has it.
LEMMA NextVersionFresh ==
  ASSUME version \in [Requests -> Version], NEW d \in Nat
  PROVE  /\ NextVersion(d) \in Version
         /\ \A q \in Rows : version[q] # NextVersion(d)
<1>1. NextVersion(d) = [day |-> d, n |-> 1 + Max(NumbersOf(d))]
  BY DEF NextVersion, NumbersOf
<1>2. Max(NumbersOf(d)) \in Nat
  BY NumbersFinite
<1>3. ASSUME NEW q \in Rows, version[q] = NextVersion(d) PROVE FALSE
  <2>1. version[q].day = d
    BY <1>1, <1>3
  <2>2. version[q].n \in NumbersOf(d)
    BY <2>1 DEF NumbersOf
  <2>3. Max(NumbersOf(d)) >= version[q].n /\ version[q].n = 1 + Max(NumbersOf(d))
    BY <1>1, <1>3, <2>2, NumbersFinite
  <2>4. QED BY <1>2, <2>3
<1>4. QED BY <1>1, <1>2, <1>3 DEF Version

-----------------------------------------------------------------------------
(* Types.                                                                   *)

\* The two updateMany calls keep the flag table well formed.
LEMMA StampsTyped ==
  ASSUME flags \in [FlagIds -> Flag \cup {NoFlag}], NEW ks, NEW now \in Nat
  PROVE  /\ StampedLast(ks, now) \in [FlagIds -> Flag \cup {NoFlag}]
         /\ StampedFirst(ks, now) \in [FlagIds -> Flag \cup {NoFlag}]
BY DEF StampedLast, StampedFirst, Exists, Flag

\* The handlers of FlagLifecycle do too.
LEMMA FlagStepTyped ==
  ASSUME FlagTypeOK, FlagNext
  PROVE  FlagTypeOK'
<1>1. ASSUME NEW f \in FlagIds, NEW k \in Keys, Create(f, k)
      PROVE  FlagTypeOK'
  BY <1>1 DEF Create, FlagTypeOK, Flag
<1>2. ASSUME NEW f \in FlagIds, NEW op \in Ops, NEW k \in Keys, Admit(f, op, k)
      PROVE  FlagTypeOK'
  BY <1>2 DEF Admit, FlagTypeOK, Request
<1>3. ASSUME NEW p \in pending, Commit(p)
      PROVE  FlagTypeOK'
  <2>1. p.flag \in FlagIds /\ p.key \in Keys /\ p.now \in Nat
    BY DEF FlagTypeOK, Request
  <2>2. ASSUME NEW row \in Flag PROVE Updated(row, p) \in Flag
    BY <2>1 DEF Updated, Flag
  <2>3. flags' \in [FlagIds -> Flag \cup {NoFlag}]
    BY <1>3, <2>1, <2>2 DEF Commit, FlagTypeOK, Exists
  <2>4. QED BY <1>3, <2>3 DEF Commit, FlagTypeOK
<1>4. QED BY <1>1, <1>2, <1>3 DEF FlagNext

\* Every step keeps the types.
LEMMA TypeStep ==
  ASSUME TypeOK, [Next]_vars
  PROVE  TypeOK'
<1> USE PublishAssumption DEF PCs, Over, Goto, Fault, TypeOK, FlagTypeOK,
        flagVars, reqVars, dbVars, s3Vars, envVars
<1>1. ASSUME NEW r \in Requests, Generate(r) PROVE TypeOK'
  <2>1. Snapshot \in Content
    BY DEF Snapshot, Content
  <2>2. QED BY <1>1, <2>1 DEF Generate
<1>2. ASSUME NEW r \in Requests, Reject(r) PROVE TypeOK'
  BY <1>2 DEF Reject
<1>3. ASSUME NEW r \in Requests, ReadPrevious(r) PROVE TypeOK'
  BY <1>3 DEF ReadPrevious
<1>4. ASSUME NEW r \in Requests, EnsureKey(r) PROVE TypeOK'
  BY <1>4 DEF EnsureKey
<1>5. ASSUME NEW r \in Requests, EnsureKeyFails(r) PROVE TypeOK'
  BY <1>5 DEF EnsureKeyFails
<1>6. ASSUME NEW r \in Requests, Lock(r) PROVE TypeOK'
  BY <1>6 DEF Lock
<1>7. ASSUME NEW r \in Requests, Reserve(r) PROVE TypeOK'
  BY <1>7 DEF Reserve
<1>8. ASSUME NEW r \in Requests, ReserveFails(r) PROVE TypeOK'
  BY <1>8 DEF ReserveFails
<1>9. ASSUME NEW r \in Requests, Sign(r) PROVE TypeOK'
  BY <1>9 DEF Sign
<1>10. ASSUME NEW r \in Requests, SignFails(r) PROVE TypeOK'
  BY <1>10 DEF SignFails
<1>11. ASSUME NEW r \in Requests, PutSignature(r) PROVE TypeOK'
  BY <1>11 DEF PutSignature
<1>12. ASSUME NEW r \in Requests, PutSignatureFails(r) PROVE TypeOK'
  BY <1>12 DEF PutSignatureFails
<1>13. ASSUME NEW r \in Requests, PutConfig(r) PROVE TypeOK'
  BY <1>13 DEF PutConfig
<1>14. ASSUME NEW r \in Requests, PutConfigFails(r) PROVE TypeOK'
  BY <1>14 DEF PutConfigFails
<1>15. ASSUME NEW r \in Requests, PutArchive(r) PROVE TypeOK'
  BY <1>15 DEF PutArchive, Archive
<1>16. ASSUME NEW r \in Requests, Finalize(r) PROVE TypeOK'
  BY <1>16 DEF Finalize
<1>17. ASSUME NEW r \in Requests, FinalizeFails(r) PROVE TypeOK'
  BY <1>17 DEF FinalizeFails
<1>18. ASSUME NEW r \in Requests, UndoSignature(r) PROVE TypeOK'
  BY <1>18 DEF UndoSignature
<1>19. ASSUME NEW r \in Requests, UndoRow(r) PROVE TypeOK'
  BY <1>19 DEF UndoRow
<1>20. ASSUME NEW r \in Requests, RespondEmpty(r) PROVE TypeOK'
  BY <1>20 DEF RespondEmpty
<1>21. ASSUME NEW r \in Requests, StampFails(r) PROVE TypeOK'
  BY <1>21 DEF StampFails
<1>22. ASSUME NEW r \in Requests, Crash(r) PROVE TypeOK'
  BY <1>22 DEF Crash
<1>23. ASSUME NEW r \in Requests, ReadVersions(r) PROVE TypeOK'
  <2>1. NextVersion(today[r]) \in Version
    BY NextVersionFresh
  <2>2. QED BY <1>23, <2>1 DEF ReadVersions
<1>24. ASSUME NEW r \in Requests, StampLast(r) PROVE TypeOK'
  <2>1. clock' \in Nat
    BY <1>24 DEF StampLast
  <2>2. flags' \in [FlagIds -> Flag \cup {NoFlag}]
    BY <1>24, <2>1, StampsTyped DEF StampLast
  <2>3. QED BY <1>24, <2>1, <2>2 DEF StampLast
<1>25. ASSUME NEW r \in Requests, StampFirst(r) PROVE TypeOK'
  <2>1. flags' \in [FlagIds -> Flag \cup {NoFlag}]
    BY <1>25, StampsTyped DEF StampFirst
  <2>2. QED BY <1>25, <2>1 DEF StampFirst
<1>26. CASE DeactivateKey
  BY <1>26 DEF DeactivateKey
<1>27. CASE Midnight
  BY <1>27 DEF Midnight
<1>28. CASE EditFlags
  <2>1. FlagTypeOK'
    BY <1>28, FlagStepTyped DEF EditFlags
  <2>2. QED BY <1>28, <2>1 DEF EditFlags
<1>29. CASE UNCHANGED vars
  BY <1>29 DEF vars
<1>30. QED
  <2> HIDE PublishAssumption DEF PCs, Over, Goto, Fault, TypeOK, FlagTypeOK
  <2> QED BY <1>1, <1>2, <1>3, <1>4, <1>5, <1>6, <1>7, <1>8, <1>9, <1>10, <1>11, <1>12,
             <1>13, <1>14, <1>15, <1>16, <1>17, <1>18, <1>19, <1>20, <1>21, <1>22,
             <1>23, <1>24, <1>25, <1>26, <1>27, <1>28, <1>29 DEF Next, Step

\* The state keeps its types, for any constants that meet the assumptions.
THEOREM TypeCorrect == Spec => []TypeOK
<1>1. Init => TypeOK
  BY PublishAssumption DEF Init, FlagInit, TypeOK, FlagTypeOK, PCs, Over, Version, Content
<1>2. TypeOK /\ [Next]_vars => TypeOK'
  BY TypeStep
<1>3. QED BY <1>1, <1>2, PTL DEF Spec

-----------------------------------------------------------------------------
(* Versions.  VersionsUnique is not inductive: a reservation rests on the   *)
(* lock being held since the rows were read, and an archive object on its   *)
(* row having outlived the publish.                                         *)

\* Inside the transaction a request holds the app's lock.
LockHeld == \A r \in Requests : pc[r] \in {"locked", "allocated"} => lock = r

\* Before COMMIT a request has no row.
NotYetReserved ==
  \A r \in Requests :
    pc[r] \in {"idle", "generated", "compared", "keyed", "locked", "allocated", "rejected"}
      => r \notin Rows

\* Under the lock, the version a request has computed stays free.
AllocatedFresh ==
  \A r \in Requests : pc[r] = "allocated" => \A q \in Rows : version[q] # version[r]

\* From COMMIT on a request has its row, until its catch block deletes it.
CommittedRow ==
  \A r \in Requests :
    pc[r] \in {"reserved", "signed", "sigUp", "undoSig", "undoRow",
               "live", "archived", "finalized", "stamping", "done"}
      => r \in Rows

\* An archive object belongs to a request that is past its upload, has kept its
\* row, and has the version in the object's name.
ArchivedKept ==
  \A o \in archive :
    /\ pc[o.by] \in {"archived", "finalized", "stamping", "done", "failed", "crashed"}
    /\ o.by \in Rows
    /\ o.version = version[o.by]

\* If a failed upload is one that had no effect, the live config is past its
\* upload and has kept its row.
LiveCommitted ==
  "ambiguous" \notin FaultKinds =>
    /\ pc[live] \in {"live", "archived", "finalized", "stamping", "done", "failed", "crashed"}
    /\ live \in Rows

VersionInv ==
  /\ TypeOK
  /\ LockHeld
  /\ NotYetReserved
  /\ AllocatedFresh
  /\ VersionsUnique
  /\ CommittedRow
  /\ ArchivedKept
  /\ LiveCommitted

\* The inductive step.
LEMMA VersionStep ==
  ASSUME VersionInv, [Next]_vars
  PROVE  VersionInv'
<1>1. TypeOK'
  BY TypeStep DEF VersionInv
<1> USE PublishAssumption DEF PCs, Over, Goto, Fault, TypeOK, Rows, VersionInv,
        reqVars, dbVars, s3Vars, envVars, LockHeld, NotYetReserved, AllocatedFresh,
        VersionsUnique, CommittedRow, ArchivedKept, LiveCommitted
<1>2. ASSUME NEW r \in Requests, Generate(r) PROVE VersionInv'
  BY <1>1, <1>2 DEF Generate
<1>3. ASSUME NEW r \in Requests, Reject(r) PROVE VersionInv'
  BY <1>1, <1>3 DEF Reject
<1>4. ASSUME NEW r \in Requests, ReadPrevious(r) PROVE VersionInv'
  BY <1>1, <1>4 DEF ReadPrevious
<1>5. ASSUME NEW r \in Requests, EnsureKey(r) PROVE VersionInv'
  BY <1>1, <1>5 DEF EnsureKey
<1>6. ASSUME NEW r \in Requests, EnsureKeyFails(r) PROVE VersionInv'
  BY <1>1, <1>6 DEF EnsureKeyFails
<1>7. ASSUME NEW r \in Requests, Lock(r) PROVE VersionInv'
  BY <1>1, <1>7 DEF Lock
<1>8. ASSUME NEW r \in Requests, Reserve(r) PROVE VersionInv'
  BY <1>1, <1>8 DEF Reserve
<1>9. ASSUME NEW r \in Requests, ReserveFails(r) PROVE VersionInv'
  BY <1>1, <1>9 DEF ReserveFails
<1>10. ASSUME NEW r \in Requests, Sign(r) PROVE VersionInv'
  BY <1>1, <1>10 DEF Sign
<1>11. ASSUME NEW r \in Requests, SignFails(r) PROVE VersionInv'
  BY <1>1, <1>11 DEF SignFails
<1>12. ASSUME NEW r \in Requests, PutSignature(r) PROVE VersionInv'
  BY <1>1, <1>12 DEF PutSignature
<1>13. ASSUME NEW r \in Requests, PutSignatureFails(r) PROVE VersionInv'
  BY <1>1, <1>13 DEF PutSignatureFails
<1>14. ASSUME NEW r \in Requests, PutConfig(r) PROVE VersionInv'
  BY <1>1, <1>14 DEF PutConfig
<1>15. ASSUME NEW r \in Requests, PutConfigFails(r) PROVE VersionInv'
  BY <1>1, <1>15 DEF PutConfigFails
<1>16. ASSUME NEW r \in Requests, Finalize(r) PROVE VersionInv'
  BY <1>1, <1>16 DEF Finalize
<1>17. ASSUME NEW r \in Requests, FinalizeFails(r) PROVE VersionInv'
  BY <1>1, <1>17 DEF FinalizeFails
<1>18. ASSUME NEW r \in Requests, UndoSignature(r) PROVE VersionInv'
  BY <1>1, <1>18 DEF UndoSignature
<1>19. ASSUME NEW r \in Requests, UndoRow(r) PROVE VersionInv'
  BY <1>1, <1>19 DEF UndoRow
<1>20. ASSUME NEW r \in Requests, RespondEmpty(r) PROVE VersionInv'
  BY <1>1, <1>20 DEF RespondEmpty
<1>21. ASSUME NEW r \in Requests, StampLast(r) PROVE VersionInv'
  BY <1>1, <1>21 DEF StampLast
<1>22. ASSUME NEW r \in Requests, StampFirst(r) PROVE VersionInv'
  BY <1>1, <1>22 DEF StampFirst
<1>23. ASSUME NEW r \in Requests, StampFails(r) PROVE VersionInv'
  BY <1>1, <1>23 DEF StampFails
<1>24. ASSUME NEW r \in Requests, Crash(r) PROVE VersionInv'
  BY <1>1, <1>24 DEF Crash
<1>25. ASSUME NEW r \in Requests, ReadVersions(r) PROVE VersionInv'
  <2>1. \A q \in Rows : version[q] # NextVersion(today[r])
    BY NextVersionFresh
  <2>2. QED BY <1>1, <1>25, <2>1 DEF ReadVersions
<1>26. ASSUME NEW r \in Requests, PutArchive(r) PROVE VersionInv'
  BY <1>1, <1>26 DEF PutArchive, Archive
<1>27. CASE DeactivateKey
  BY <1>1, <1>27 DEF DeactivateKey
<1>28. CASE Midnight
  BY <1>1, <1>28 DEF Midnight
<1>29. CASE EditFlags
  BY <1>1, <1>29 DEF EditFlags
<1>30. CASE UNCHANGED vars
  BY <1>1, <1>30 DEF vars
<1>31. QED
  <2> HIDE PublishAssumption DEF PCs, Over, Goto, Fault, TypeOK, Rows, VersionInv,
        reqVars, dbVars, s3Vars, envVars, LockHeld, NotYetReserved, AllocatedFresh,
        VersionsUnique, CommittedRow, ArchivedKept, LiveCommitted
  <2> QED BY <1>2, <1>3, <1>4, <1>5, <1>6, <1>7, <1>8, <1>9, <1>10, <1>11, <1>12,
             <1>13, <1>14, <1>15, <1>16, <1>17, <1>18, <1>19, <1>20, <1>21, <1>22,
             <1>23, <1>24, <1>25, <1>26, <1>27, <1>28, <1>29, <1>30 DEF Next, Step

\* VersionInv holds in every reachable state.
THEOREM VersionInvariant == Spec => []VersionInv
<1>1. Init => VersionInv
  BY PublishAssumption DEF Init, FlagInit, TypeOK, FlagTypeOK, PCs, Over, Version, Content,
     VersionInv, LockHeld, NotYetReserved, AllocatedFresh, VersionsUnique, CommittedRow,
     ArchivedKept, LiveCommitted, Rows
<1>2. VersionInv /\ [Next]_vars => VersionInv'
  BY VersionStep
<1>3. QED BY <1>1, <1>2, PTL DEF Spec

\* No two publishes ever hold the same config_version, whatever fails (the
\* reservation under pg_advisory_xact_lock, route.ts:77-102).
THEOREM VersionsStayUnique == Spec => []VersionsUnique
<1>1. VersionInv => VersionsUnique
  BY DEF VersionInv
<1>2. QED BY <1>1, VersionInvariant, PTL

\* The live config keeps its audit row, provided an upload that is reported as
\* failed did not take effect (the catch block, route.ts:199-233).
THEOREM LiveConfigKept ==
  ASSUME "ambiguous" \notin FaultKinds
  PROVE  Spec => []LiveKept
<1>1. VersionInv => LiveKept
  BY DEF VersionInv, LiveCommitted, LiveKept
<1>2. QED BY <1>1, VersionInvariant, PTL

\* Under the same proviso, a version in a fingerprint denotes one artifact among
\* those in the bucket (what the decoder relies on).
THEOREM VersionsDenoteOneArtifact ==
  ASSUME "ambiguous" \notin FaultKinds
  PROVE  Spec => []VersionDenotesOneArtifact
<1>1. VersionInv => VersionDenotesOneArtifact
  BY DEF VersionInv, LiveCommitted, ArchivedKept, VersionsUnique, VersionDenotesOneArtifact
<1>2. QED BY <1>1, VersionInvariant, PTL

\* No step replaces or removes an archive object: the one upload that writes
\* there uses a name that no object has (route.ts:157-182).
THEOREM ArchivesStay == Spec => ArchiveImmutable
<1>1. VersionInv /\ [Next]_vars => archive \subseteq archive'
  <2> SUFFICES ASSUME VersionInv, [Next]_vars
               PROVE  archive \subseteq archive'
    OBVIOUS
  <2>1. ASSUME NEW r \in Requests, PutArchive(r)
        PROVE  archive \subseteq archive'
    <3>1. r \in Rows /\ pc[r] = "live"
      BY <2>1 DEF PutArchive, Goto, VersionInv, CommittedRow
    <3>2. \A o \in archive : o.version # version[r]
      BY <3>1 DEF VersionInv, ArchivedKept, VersionsUnique
    <3>3. archive \subseteq Archive(r)
      BY <3>2 DEF Archive
    <3>4. QED BY <2>1, <3>3 DEF PutArchive
  <2>2. CASE ~\E r \in Requests : PutArchive(r)
    <3>1. UNCHANGED archive
      BY <2>2 DEF Next, Step, vars, s3Vars, Generate, Reject, ReadPrevious, EnsureKey,
         EnsureKeyFails, Lock, ReadVersions, Reserve, ReserveFails, Sign, SignFails,
         PutSignature, PutSignatureFails, PutConfig, PutConfigFails, Finalize,
         FinalizeFails, UndoSignature, UndoRow, RespondEmpty, StampLast, StampFirst,
         StampFails, Crash, DeactivateKey, Midnight, EditFlags
    <3>2. QED BY <3>1
  <2>3. QED BY <2>1, <2>2
<1>2. QED BY <1>1, VersionInvariant, PTL DEF Spec, ArchiveImmutable

-----------------------------------------------------------------------------
(* Rollback, for publishes that may overlap.                                *)

\* No object is a request's before its upload or after its catch block, and no row
\* after that.
NothingLeft ==
  \A r \in Requests :
    /\ pc[r] \in {"idle", "generated", "compared", "keyed", "locked", "allocated",
                  "reserved", "signed", "undoRow", "failed", "rejected"}
         => r \notin {sig, live}
    /\ pc[r] \in {"sigUp", "undoSig"} => r # live
    /\ pc[r] = "failed" => r \notin Rows

\* The inductive step, when a call that throws had no effect and the database and the
\* deletion of objects do not fail.
LEMMA NothingLeftStep ==
  ASSUME FaultKinds \subseteq {"s3", "crash"}, VersionInv, NothingLeft, [Next]_vars
  PROVE  NothingLeft'
<1> USE PublishAssumption DEF Goto, Fault, VersionInv, TypeOK, NothingLeft, Rows, PCs, Over,
        InFlight, reqVars, dbVars, s3Vars, envVars
<1>1. ASSUME NEW r \in Requests, Generate(r) PROVE NothingLeft'
  BY <1>1 DEF Generate
<1>2. ASSUME NEW r \in Requests, Reject(r) PROVE NothingLeft'
  BY <1>2 DEF Reject
<1>3. ASSUME NEW r \in Requests, ReadPrevious(r) PROVE NothingLeft'
  BY <1>3 DEF ReadPrevious
<1>4. ASSUME NEW r \in Requests, EnsureKey(r) PROVE NothingLeft'
  BY <1>4 DEF EnsureKey
<1>5. ASSUME NEW r \in Requests, EnsureKeyFails(r) PROVE NothingLeft'
  BY <1>5 DEF EnsureKeyFails
<1>6. ASSUME NEW r \in Requests, Lock(r) PROVE NothingLeft'
  BY <1>6 DEF Lock
<1>7. ASSUME NEW r \in Requests, ReadVersions(r) PROVE NothingLeft'
  BY <1>7 DEF ReadVersions
<1>8. ASSUME NEW r \in Requests, Reserve(r) PROVE NothingLeft'
  BY <1>8 DEF Reserve
<1>9. ASSUME NEW r \in Requests, ReserveFails(r) PROVE NothingLeft'
  BY <1>9 DEF ReserveFails
<1>10. ASSUME NEW r \in Requests, Sign(r) PROVE NothingLeft'
  BY <1>10 DEF Sign
<1>11. ASSUME NEW r \in Requests, SignFails(r) PROVE NothingLeft'
  BY <1>11 DEF SignFails
<1>12. ASSUME NEW r \in Requests, PutSignature(r) PROVE NothingLeft'
  BY <1>12 DEF PutSignature
<1>13. ASSUME NEW r \in Requests, PutSignatureFails(r) PROVE NothingLeft'
  BY <1>13 DEF PutSignatureFails
<1>14. ASSUME NEW r \in Requests, PutConfig(r) PROVE NothingLeft'
  BY <1>14 DEF PutConfig
<1>15. ASSUME NEW r \in Requests, PutConfigFails(r) PROVE NothingLeft'
  BY <1>15 DEF PutConfigFails
<1>16. ASSUME NEW r \in Requests, PutArchive(r) PROVE NothingLeft'
  BY <1>16 DEF PutArchive
<1>17. ASSUME NEW r \in Requests, Finalize(r) PROVE NothingLeft'
  BY <1>17 DEF Finalize
<1>18. ASSUME NEW r \in Requests, FinalizeFails(r) PROVE NothingLeft'
  BY <1>18 DEF FinalizeFails
<1>19. ASSUME NEW r \in Requests, UndoSignature(r) PROVE NothingLeft'
  BY <1>19 DEF UndoSignature
<1>20. ASSUME NEW r \in Requests, UndoRow(r) PROVE NothingLeft'
  BY <1>20 DEF UndoRow
<1>21. ASSUME NEW r \in Requests, RespondEmpty(r) PROVE NothingLeft'
  BY <1>21 DEF RespondEmpty
<1>22. ASSUME NEW r \in Requests, StampLast(r) PROVE NothingLeft'
  BY <1>22 DEF StampLast
<1>23. ASSUME NEW r \in Requests, StampFirst(r) PROVE NothingLeft'
  BY <1>23 DEF StampFirst
<1>24. ASSUME NEW r \in Requests, StampFails(r) PROVE NothingLeft'
  BY <1>24 DEF StampFails
<1>25. ASSUME NEW r \in Requests, Crash(r) PROVE NothingLeft'
  BY <1>25 DEF Crash
<1>26. CASE DeactivateKey
  BY <1>26 DEF DeactivateKey
<1>27. CASE Midnight
  BY <1>27 DEF Midnight
<1>28. CASE EditFlags
  BY <1>28 DEF EditFlags
<1>29. CASE UNCHANGED vars
  BY <1>29 DEF vars
<1>30. QED
  <2> HIDE PublishAssumption DEF Goto, Fault, VersionInv, TypeOK, NothingLeft, Rows, PCs, Over,
        InFlight, reqVars, dbVars, s3Vars, envVars
  <2> QED BY <1>1, <1>2, <1>3, <1>4, <1>5, <1>6, <1>7, <1>8, <1>9, <1>10, <1>11, <1>12,
             <1>13, <1>14, <1>15, <1>16, <1>17, <1>18, <1>19, <1>20, <1>21, <1>22,
             <1>23, <1>24, <1>25, <1>26, <1>27, <1>28, <1>29 DEF Next, Step

\* A failed publish leaves neither its audit row nor an object of its own, however
\* many publishes overlap (the catch block, route.ts:199-235).
THEOREM FailureLeavesNothing ==
  ASSUME FaultKinds \subseteq {"s3", "crash"}
  PROVE  Spec => []RolledBack
<1>1. Init => NothingLeft
  BY PublishAssumption DEF Init, NothingLeft, Rows
<1>2. VersionInv /\ NothingLeft /\ [Next]_vars => NothingLeft'
  BY NothingLeftStep
<1>3. NothingLeft => RolledBack
  BY DEF NothingLeft, RolledBack
<1>4. QED BY <1>1, <1>2, <1>3, VersionInvariant, PTL DEF Spec

-----------------------------------------------------------------------------
(* Publishes that follow one another.                                       *)

\* No two requests are in flight.
OneInFlight == \A q, r \in Requests : InFlight(q) /\ InFlight(r) => q = r

\* Where a request is between EnsureKey and the end of its upload or rollback.
Uploading == {"allocated", "reserved", "signed", "sigUp", "undoSig", "undoRow"}

\* Readings of clocks lie in the past.
Past ==
  /\ \A r \in Requests : at[r] <= clock /\ today[r] <= day
  /\ \A q \in Requests : q \in Rows \/ pc[q] = "allocated" => version[q].day <= day

\* A request in flight is ahead of everything that is live.
Ahead ==
  \A r \in Requests :
    /\ pc[r] \in {"keyed", "locked"} => \A q \in Rows : version[q].day <= today[r]
    /\ pc[r] \in Uploading => Later(version[r], version[live])
    /\ pc[r] \in Uploading \cup {"generated", "compared", "keyed", "locked"}
         => at[r] >= at[live]

SequenceInv == OneInFlight /\ Past /\ Ahead

\* The number computeNextVersion hands out is later than every row's, if no row is of a
\* later day.
LEMMA NextVersionLater ==
  ASSUME version \in [Requests -> Version], NEW d \in Nat,
         NEW q \in Rows, version[q].day <= d
  PROVE  Later(NextVersion(d), version[q])
<1>1. version[q].day \in Nat /\ version[q].n \in Nat
  BY DEF Rows, Version
<1>2. NextVersion(d) = [day |-> d, n |-> 1 + Max(NumbersOf(d))]
  BY DEF NextVersion, NumbersOf
<1>3. CASE version[q].day # d
  BY <1>1, <1>2, <1>3 DEF Later
<1>4. CASE version[q].day = d
  <2>1. version[q].n \in NumbersOf(d)
    BY <1>4 DEF NumbersOf
  <2>2. Max(NumbersOf(d)) \in Nat /\ Max(NumbersOf(d)) >= version[q].n
    BY <2>1, NumbersFinite
  <2>3. QED BY <1>1, <1>2, <1>4, <2>2 DEF Later
<1>5. QED BY <1>3, <1>4

\* The inductive step.
LEMMA SequenceStep ==
  ASSUME "publish" \notin Overlap, "ambiguous" \notin FaultKinds,
         VersionInv, SequenceInv, [Next]_vars
  PROVE  SequenceInv'
<1>1. VersionInv'
  BY VersionStep
<1>2. live \in Rows /\ live \in Requests /\ TypeOK /\ TypeOK'
  BY <1>1 DEF VersionInv, LiveCommitted, Rows
<1>3. clock \in Nat /\ day \in Nat /\ clock' \in Nat /\ day' \in Nat
      /\ \A r \in Requests : /\ at[r] \in Nat /\ today[r] \in Nat
                             /\ version[r].day \in Nat /\ version[r].n \in Nat
  BY <1>2 DEF TypeOK, FlagTypeOK, Version
<1> USE PublishAssumption DEF Goto, Fault, TypeOK, FlagTypeOK, SequenceInv, OneInFlight,
        Past, Ahead, Uploading, Rows,
        PCs, Over, InFlight, Quiet, flagVars, reqVars, dbVars, s3Vars, envVars
<1>4. ASSUME NEW r \in Requests, Generate(r) PROVE SequenceInv'
  BY <1>2, <1>3, <1>4 DEF Generate
<1>5. ASSUME NEW r \in Requests, Reject(r) PROVE SequenceInv'
  BY <1>2, <1>3, <1>5 DEF Reject
<1>6. ASSUME NEW r \in Requests, ReadPrevious(r) PROVE SequenceInv'
  BY <1>2, <1>3, <1>6 DEF ReadPrevious
<1>7. ASSUME NEW r \in Requests, EnsureKey(r) PROVE SequenceInv'
  BY <1>2, <1>3, <1>7 DEF EnsureKey
<1>8. ASSUME NEW r \in Requests, EnsureKeyFails(r) PROVE SequenceInv'
  BY <1>2, <1>3, <1>8 DEF EnsureKeyFails
<1>9. ASSUME NEW r \in Requests, Lock(r) PROVE SequenceInv'
  BY <1>2, <1>3, <1>9 DEF Lock
<1>10. ASSUME NEW r \in Requests, ReadVersions(r) PROVE SequenceInv'
  <2>1. Later(NextVersion(today[r]), version[live])
    BY <1>2, <1>3, <1>10, NextVersionLater DEF ReadVersions
  <2>2. NextVersion(today[r]).day = today[r]
    BY DEF NextVersion
  <2>3. live # r
    BY <1>2, <1>10 DEF ReadVersions, VersionInv, NotYetReserved
  <2>4. QED BY <1>2, <1>3, <1>10, <2>1, <2>2, <2>3 DEF ReadVersions, VersionInv, NotYetReserved
<1>11. ASSUME NEW r \in Requests, Reserve(r) PROVE SequenceInv'
  <2>1. Rows' = Rows \cup {r}
    BY <1>2, <1>11 DEF Reserve
  <2>2. \A q \in Requests \ {r} : pc'[q] = pc[q] /\ ~InFlight(q)
    BY <1>2, <1>11 DEF Reserve
  <2>3. OneInFlight' /\ Past'
    BY <1>2, <1>3, <1>11, <2>1 DEF Reserve
  <2>4. Ahead'
    BY <1>2, <1>3, <1>11, <2>1, <2>2 DEF Reserve
  <2>5. QED BY <2>3, <2>4
<1>12. ASSUME NEW r \in Requests, ReserveFails(r) PROVE SequenceInv'
  BY <1>2, <1>3, <1>12 DEF ReserveFails
<1>13. ASSUME NEW r \in Requests, Sign(r) PROVE SequenceInv'
  BY <1>2, <1>3, <1>13 DEF Sign
<1>14. ASSUME NEW r \in Requests, SignFails(r) PROVE SequenceInv'
  BY <1>2, <1>3, <1>14 DEF SignFails
<1>15. ASSUME NEW r \in Requests, PutSignature(r) PROVE SequenceInv'
  BY <1>2, <1>3, <1>15 DEF PutSignature
<1>16. ASSUME NEW r \in Requests, PutSignatureFails(r) PROVE SequenceInv'
  BY <1>2, <1>3, <1>16 DEF PutSignatureFails
<1>17. ASSUME NEW r \in Requests, PutConfig(r) PROVE SequenceInv'
  <2>1. \A q \in Requests \ {r} : pc'[q] = pc[q] /\ ~InFlight(q)
    BY <1>2, <1>17 DEF PutConfig
  <2>2. OneInFlight' /\ Past'
    BY <1>2, <1>3, <1>17 DEF PutConfig
  <2>3. Ahead'
    BY <1>2, <1>3, <1>17, <2>1 DEF PutConfig
  <2>4. QED BY <2>2, <2>3
<1>18. ASSUME NEW r \in Requests, PutConfigFails(r) PROVE SequenceInv'
  BY <1>2, <1>3, <1>18 DEF PutConfigFails
<1>19. ASSUME NEW r \in Requests, PutArchive(r) PROVE SequenceInv'
  BY <1>2, <1>3, <1>19 DEF PutArchive
<1>20. ASSUME NEW r \in Requests, Finalize(r) PROVE SequenceInv'
  <2>1. r \in Rows
    BY <1>20 DEF Finalize, VersionInv, CommittedRow
  <2>2. Rows' = Rows
    BY <1>2, <1>20, <2>1 DEF Finalize
  <2>3. QED BY <1>2, <1>3, <1>20, <2>2 DEF Finalize
<1>21. ASSUME NEW r \in Requests, FinalizeFails(r) PROVE SequenceInv'
  BY <1>2, <1>3, <1>21 DEF FinalizeFails
<1>22. ASSUME NEW r \in Requests, UndoSignature(r) PROVE SequenceInv'
  BY <1>2, <1>3, <1>22 DEF UndoSignature
<1>23. ASSUME NEW r \in Requests, UndoRow(r) PROVE SequenceInv'
  BY <1>2, <1>3, <1>23 DEF UndoRow
<1>24. ASSUME NEW r \in Requests, RespondEmpty(r) PROVE SequenceInv'
  BY <1>2, <1>3, <1>24 DEF RespondEmpty
<1>25. ASSUME NEW r \in Requests, StampLast(r) PROVE SequenceInv'
  BY <1>2, <1>3, <1>25 DEF StampLast
<1>26. ASSUME NEW r \in Requests, StampFirst(r) PROVE SequenceInv'
  BY <1>2, <1>3, <1>26 DEF StampFirst
<1>27. ASSUME NEW r \in Requests, StampFails(r) PROVE SequenceInv'
  BY <1>2, <1>3, <1>27 DEF StampFails
<1>28. ASSUME NEW r \in Requests, Crash(r) PROVE SequenceInv'
  BY <1>2, <1>3, <1>28 DEF Crash
<1>29. CASE DeactivateKey
  BY <1>2, <1>3, <1>29 DEF DeactivateKey
<1>30. CASE Midnight
  BY <1>2, <1>3, <1>30 DEF Midnight
<1>31. CASE EditFlags
  <2>1. clock' >= clock
    BY <1>3, <1>31 DEF EditFlags, FlagNext, Create, Admit, Commit
  <2>2. QED BY <1>2, <1>3, <1>31, <2>1 DEF EditFlags
<1>32. CASE UNCHANGED vars
  BY <1>2, <1>3, <1>32 DEF vars
<1>33. QED
  <2> HIDE PublishAssumption DEF Goto, Fault, TypeOK, FlagTypeOK, SequenceInv, OneInFlight,
        Past, Ahead, Uploading, Rows,
        PCs, Over, InFlight, Quiet, flagVars, reqVars, dbVars, s3Vars, envVars
  <2> QED BY <1>4, <1>5, <1>6, <1>7, <1>8, <1>9, <1>10, <1>11, <1>12, <1>13, <1>14,
             <1>15, <1>16, <1>17, <1>18, <1>19, <1>20, <1>21, <1>22, <1>23, <1>24,
             <1>25, <1>26, <1>27, <1>28, <1>29, <1>30, <1>31, <1>32 DEF Next, Step

\* SequenceInv holds in every reachable state.
LEMMA SequenceInvariant ==
  ASSUME "publish" \notin Overlap, "ambiguous" \notin FaultKinds
  PROVE  Spec => [](VersionInv /\ SequenceInv)
<1>1. Init => SequenceInv
  BY PublishAssumption DEF Init, FlagInit, SequenceInv, OneInFlight, Past, Ahead, Uploading,
     InFlight, Over, Rows
<1>2. VersionInv /\ SequenceInv /\ [Next]_vars => SequenceInv'
  BY SequenceStep
<1>3. QED BY <1>1, <1>2, VersionInvariant, PTL DEF Spec

\* Only the upload of config.json changes the live config.
LEMMA LiveChange ==
  ASSUME "ambiguous" \notin FaultKinds, [Next]_vars, live' # live
  PROVE  \E r \in Requests : PutConfig(r)
BY DEF Next, Step, vars, s3Vars, Fault, Generate, Reject, ReadPrevious, EnsureKey, EnsureKeyFails,
   Lock, ReadVersions, Reserve, ReserveFails, Sign, SignFails, PutSignature,
   PutSignatureFails, PutConfigFails, PutArchive, Finalize, FinalizeFails, UndoSignature,
   UndoRow, RespondEmpty, StampLast, StampFirst, StampFails, Crash, DeactivateKey, Midnight,
   EditFlags

\* When publishes follow one another, each makes a later version live, with content read
\* no earlier, whatever else fails or dies and however days pass.
THEOREM LiveMovesForward ==
  ASSUME "publish" \notin Overlap, "ambiguous" \notin FaultKinds
  PROVE  Spec => NeverRegresses
<1> DEFINE Step1 == live' # live => /\ Later(version'[live'], version[live])
                                    /\ at'[live'] >= at[live]
<1>1. VersionInv /\ SequenceInv /\ [Next]_vars => Step1
  <2> SUFFICES ASSUME VersionInv, SequenceInv, [Next]_vars, live' # live
               PROVE  Later(version'[live'], version[live]) /\ at'[live'] >= at[live]
    OBVIOUS
  <2>1. PICK r \in Requests : PutConfig(r)
    BY LiveChange
  <2>2. pc[r] = "sigUp" /\ live' = r /\ version' = version /\ at' = at
    BY <2>1 DEF PutConfig, Goto
  <2>3. QED BY <2>2 DEF SequenceInv, Ahead, Uploading
<1>2. QED BY <1>1, SequenceInvariant, PTL DEF Spec, NeverRegresses

-----------------------------------------------------------------------------
(* The changelogs of the history, for publishes that may overlap.           *)

\* Where a request has no version of its own yet, or has it in its transaction only.
Early == {"idle", "generated", "compared", "keyed", "locked", "allocated"}

\* Neither the dates read nor those in versions lie in the future.
DatesPast == \A r \in Requests : today[r] <= day /\ version[r].day <= day

\* What is live, and what a request has read, was uploaded after its version was reserved.
ReadUploaded ==
  /\ pc[live] \notin Early
  /\ \A r \in Requests : prev[r] # Nil => pc[prev[r]] \notin Early

\* A request that has read the date has read it after the previous config.
ReadBeforeDate ==
  \A r \in Requests :
    prev[r] # Nil /\ pc[r] \in {"keyed", "locked", "allocated"} => version[prev[r]].day <= today[r]

\* A version, from its computation on, is later than that of the row compared with.
ReadOlder ==
  \A r \in Requests :
    prev[r] \in Rows /\ (r \in Rows \/ pc[r] = "allocated") => Later(version[r], version[prev[r]])

HistoryInv == DatesPast /\ ReadUploaded /\ ReadBeforeDate /\ ReadOlder

\* The inductive step.
LEMMA HistoryStep ==
  ASSUME VersionInv, HistoryInv, [Next]_vars
  PROVE  HistoryInv'
<1>1. TypeOK /\ TypeOK' /\ NotYetReserved /\ CommittedRow
  BY TypeStep DEF VersionInv
<1>2. /\ day \in Nat /\ live \in Requests /\ Nil \notin Requests
      /\ \A r \in Requests : /\ today[r] \in Nat /\ prev[r] \in Requests \cup {Nil}
                             /\ version[r].day \in Nat /\ version[r].n \in Nat
  BY <1>1, PublishAssumption DEF TypeOK, Version
<1> USE DEF Goto, Fault, TypeOK, Rows, HistoryInv, DatesPast, ReadUploaded, ReadBeforeDate, ReadOlder,
        Early, Over, NotYetReserved, CommittedRow, reqVars, dbVars, s3Vars, envVars
<1>3. ASSUME NEW r \in Requests, Generate(r) PROVE HistoryInv'
  BY <1>1, <1>2, <1>3 DEF Generate
<1>4. ASSUME NEW r \in Requests, Reject(r) PROVE HistoryInv'
  BY <1>1, <1>2, <1>4 DEF Reject
<1>5. ASSUME NEW r \in Requests, ReadPrevious(r) PROVE HistoryInv'
  BY <1>1, <1>2, <1>5 DEF ReadPrevious
<1>6. ASSUME NEW r \in Requests, EnsureKey(r) PROVE HistoryInv'
  BY <1>1, <1>2, <1>6 DEF EnsureKey
<1>7. ASSUME NEW r \in Requests, EnsureKeyFails(r) PROVE HistoryInv'
  BY <1>1, <1>2, <1>7 DEF EnsureKeyFails
<1>8. ASSUME NEW r \in Requests, Lock(r) PROVE HistoryInv'
  BY <1>1, <1>2, <1>8 DEF Lock
<1>9. ASSUME NEW r \in Requests, Reserve(r) PROVE HistoryInv'
  BY <1>1, <1>2, <1>9 DEF Reserve
<1>10. ASSUME NEW r \in Requests, ReserveFails(r) PROVE HistoryInv'
  BY <1>1, <1>2, <1>10 DEF ReserveFails
<1>11. ASSUME NEW r \in Requests, Sign(r) PROVE HistoryInv'
  BY <1>1, <1>2, <1>11 DEF Sign
<1>12. ASSUME NEW r \in Requests, SignFails(r) PROVE HistoryInv'
  BY <1>1, <1>2, <1>12 DEF SignFails
<1>13. ASSUME NEW r \in Requests, PutSignature(r) PROVE HistoryInv'
  BY <1>1, <1>2, <1>13 DEF PutSignature
<1>14. ASSUME NEW r \in Requests, PutSignatureFails(r) PROVE HistoryInv'
  BY <1>1, <1>2, <1>14 DEF PutSignatureFails
<1>15. ASSUME NEW r \in Requests, PutConfig(r) PROVE HistoryInv'
  BY <1>1, <1>2, <1>15 DEF PutConfig
<1>16. ASSUME NEW r \in Requests, PutConfigFails(r) PROVE HistoryInv'
  BY <1>1, <1>2, <1>16 DEF PutConfigFails
<1>17. ASSUME NEW r \in Requests, PutArchive(r) PROVE HistoryInv'
  BY <1>1, <1>2, <1>17 DEF PutArchive
<1>18. ASSUME NEW r \in Requests, Finalize(r) PROVE HistoryInv'
  BY <1>1, <1>2, <1>18 DEF Finalize
<1>19. ASSUME NEW r \in Requests, FinalizeFails(r) PROVE HistoryInv'
  BY <1>1, <1>2, <1>19 DEF FinalizeFails
<1>20. ASSUME NEW r \in Requests, UndoSignature(r) PROVE HistoryInv'
  BY <1>1, <1>2, <1>20 DEF UndoSignature
<1>21. ASSUME NEW r \in Requests, UndoRow(r) PROVE HistoryInv'
  BY <1>1, <1>2, <1>21 DEF UndoRow
<1>22. ASSUME NEW r \in Requests, RespondEmpty(r) PROVE HistoryInv'
  BY <1>1, <1>2, <1>22 DEF RespondEmpty
<1>23. ASSUME NEW r \in Requests, StampLast(r) PROVE HistoryInv'
  BY <1>1, <1>2, <1>23 DEF StampLast
<1>24. ASSUME NEW r \in Requests, StampFirst(r) PROVE HistoryInv'
  BY <1>1, <1>2, <1>24 DEF StampFirst
<1>25. ASSUME NEW r \in Requests, StampFails(r) PROVE HistoryInv'
  BY <1>1, <1>2, <1>25 DEF StampFails
<1>26. ASSUME NEW r \in Requests, Crash(r) PROVE HistoryInv'
  BY <1>1, <1>2, <1>26 DEF Crash, InFlight
<1>27. ASSUME NEW r \in Requests, ReadVersions(r) PROVE HistoryInv'
  <2>1. /\ pc[r] = "locked" /\ pc' = [pc EXCEPT ![r] = "allocated"]
        /\ version' = [version EXCEPT ![r] = NextVersion(today[r])]
        /\ UNCHANGED <<today, prev, audit, live, day>>
    BY <1>27 DEF ReadVersions
  <2>2. NextVersion(today[r]).day = today[r]
    BY DEF NextVersion
  <2>3. live # r /\ r \notin Rows /\ \A q \in Requests : prev[q] # r
    BY <1>1, <1>2, <2>1
  <2>4. prev[r] \in Rows => Later(NextVersion(today[r]), version[prev[r]])
    BY <1>1, <1>2, <2>1, NextVersionLater
  <2>5. DatesPast'
    BY <1>1, <1>2, <2>1, <2>2
  <2>6. ReadUploaded' /\ ReadBeforeDate'
    BY <1>1, <1>2, <2>1, <2>2, <2>3
  <2>7. ReadOlder'
    <3> HIDE DEF TypeOK, HistoryInv, DatesPast, ReadUploaded, ReadBeforeDate
    <3>1. version'[r] = NextVersion(today[r])
      BY <1>1, <2>1 DEF TypeOK
    <3>2. \A q \in Requests : q # r => version'[q] = version[q] /\ pc'[q] = pc[q]
      BY <1>1, <2>1 DEF TypeOK
    <3>3. Rows' = Rows /\ ReadOlder
      BY <2>1 DEF HistoryInv
    <3>4. QED BY <1>2, <2>1, <2>3, <2>4, <3>1, <3>2, <3>3 DEF Later
  <2>8. QED BY <2>5, <2>6, <2>7
<1>28. CASE DeactivateKey
  BY <1>1, <1>2, <1>28 DEF DeactivateKey
<1>29. CASE Midnight
  BY <1>1, <1>2, <1>29 DEF Midnight
<1>30. CASE EditFlags
  BY <1>1, <1>2, <1>30 DEF EditFlags
<1>31. CASE UNCHANGED vars
  BY <1>1, <1>2, <1>31 DEF vars
<1>32. QED
  <2> HIDE DEF Goto, Fault, TypeOK, Rows, HistoryInv, DatesPast, ReadUploaded, ReadBeforeDate, ReadOlder,
        Early, Over, NotYetReserved, CommittedRow, reqVars, dbVars, s3Vars, envVars
  <2> QED BY <1>3, <1>4, <1>5, <1>6, <1>7, <1>8, <1>9, <1>10, <1>11, <1>12, <1>13, <1>14,
             <1>15, <1>16, <1>17, <1>18, <1>19, <1>20, <1>21, <1>22, <1>23,
             <1>24, <1>25, <1>26, <1>27, <1>28, <1>29, <1>30, <1>31 DEF Next, Step

\* However publishes overlap and whatever fails or dies, a row of the history that was compared
\* with the config of another row has the later version.
THEOREM HistoryIsOrdered == Spec => []HistoryLooksBack
<1>1. Init => HistoryInv
  BY PublishAssumption DEF Init, HistoryInv, DatesPast, ReadUploaded, ReadBeforeDate, ReadOlder, Early,
     Rows
<1>2. VersionInv /\ HistoryInv /\ [Next]_vars => HistoryInv'
  BY HistoryStep
<1>3. HistoryInv => HistoryLooksBack
  BY DEF HistoryInv, ReadOlder, HistoryLooksBack, Rows
<1>4. QED BY <1>1, <1>2, <1>3, VersionInvariant, PTL DEF Spec

-----------------------------------------------------------------------------
(* The pair of config and signature, when publishes follow one another.     *)

\* The signature is that of the live config, or gone, but for a request that has uploaded
\* it and whose config is not up, or whose signature is not deleted, yet.
Paired ==
  /\ \A r \in Requests : pc[r] = "sigUp" => sig = r
  /\ (\A r \in Requests : pc[r] \notin {"sigUp", "undoSig"}) => sig \in {live, Nil}

\* The inductive step, if failed uploads have no effect, deletions succeed and no process
\* dies.
LEMMA PairedStep ==
  ASSUME FaultKinds \subseteq {"db", "s3"}, TypeOK, OneInFlight, Paired, [Next]_vars
  PROVE  Paired'
<1> USE PublishAssumption DEF Goto, Fault, TypeOK, OneInFlight, Paired, PCs, Over, InFlight, Quiet, reqVars,
        dbVars, s3Vars, envVars
<1>1. ASSUME NEW r \in Requests, Generate(r) PROVE Paired'
  BY <1>1 DEF Generate
<1>2. ASSUME NEW r \in Requests, Reject(r) PROVE Paired'
  BY <1>2 DEF Reject
<1>3. ASSUME NEW r \in Requests, ReadPrevious(r) PROVE Paired'
  BY <1>3 DEF ReadPrevious
<1>4. ASSUME NEW r \in Requests, EnsureKey(r) PROVE Paired'
  BY <1>4 DEF EnsureKey
<1>5. ASSUME NEW r \in Requests, EnsureKeyFails(r) PROVE Paired'
  BY <1>5 DEF EnsureKeyFails
<1>6. ASSUME NEW r \in Requests, Lock(r) PROVE Paired'
  BY <1>6 DEF Lock
<1>7. ASSUME NEW r \in Requests, ReadVersions(r) PROVE Paired'
  BY <1>7 DEF ReadVersions
<1>8. ASSUME NEW r \in Requests, Reserve(r) PROVE Paired'
  BY <1>8 DEF Reserve
<1>9. ASSUME NEW r \in Requests, ReserveFails(r) PROVE Paired'
  BY <1>9 DEF ReserveFails
<1>10. ASSUME NEW r \in Requests, Sign(r) PROVE Paired'
  BY <1>10 DEF Sign
<1>11. ASSUME NEW r \in Requests, SignFails(r) PROVE Paired'
  BY <1>11 DEF SignFails
<1>12. ASSUME NEW r \in Requests, PutSignature(r) PROVE Paired'
  BY <1>12 DEF PutSignature
<1>13. ASSUME NEW r \in Requests, PutSignatureFails(r) PROVE Paired'
  BY <1>13 DEF PutSignatureFails
<1>14. ASSUME NEW r \in Requests, PutConfig(r) PROVE Paired'
  BY <1>14 DEF PutConfig
<1>15. ASSUME NEW r \in Requests, PutConfigFails(r) PROVE Paired'
  BY <1>15 DEF PutConfigFails
<1>16. ASSUME NEW r \in Requests, PutArchive(r) PROVE Paired'
  BY <1>16 DEF PutArchive
<1>17. ASSUME NEW r \in Requests, Finalize(r) PROVE Paired'
  BY <1>17 DEF Finalize
<1>18. ASSUME NEW r \in Requests, FinalizeFails(r) PROVE Paired'
  BY <1>18 DEF FinalizeFails
<1>19. ASSUME NEW r \in Requests, UndoSignature(r) PROVE Paired'
  BY <1>19 DEF UndoSignature
<1>20. ASSUME NEW r \in Requests, UndoRow(r) PROVE Paired'
  BY <1>20 DEF UndoRow
<1>21. ASSUME NEW r \in Requests, RespondEmpty(r) PROVE Paired'
  BY <1>21 DEF RespondEmpty
<1>22. ASSUME NEW r \in Requests, StampLast(r) PROVE Paired'
  BY <1>22 DEF StampLast
<1>23. ASSUME NEW r \in Requests, StampFirst(r) PROVE Paired'
  BY <1>23 DEF StampFirst
<1>24. ASSUME NEW r \in Requests, StampFails(r) PROVE Paired'
  BY <1>24 DEF StampFails
<1>25. ASSUME NEW r \in Requests, Crash(r) PROVE Paired'
  BY <1>25 DEF Crash
<1>26. CASE DeactivateKey
  BY <1>26 DEF DeactivateKey
<1>27. CASE Midnight
  BY <1>27 DEF Midnight
<1>28. CASE EditFlags
  BY <1>28 DEF EditFlags
<1>29. CASE UNCHANGED vars
  BY <1>29 DEF vars
<1>30. QED
  <2> HIDE PublishAssumption DEF Goto, Fault, TypeOK, OneInFlight, Paired, PCs, Over, InFlight, Quiet, reqVars,
        dbVars, s3Vars, envVars
  <2> QED BY <1>1, <1>2, <1>3, <1>4, <1>5, <1>6, <1>7, <1>8, <1>9, <1>10, <1>11,
             <1>12, <1>13, <1>14, <1>15, <1>16, <1>17, <1>18, <1>19, <1>20, <1>21,
             <1>22, <1>23, <1>24, <1>25, <1>26, <1>27, <1>28, <1>29 DEF Next, Step

\* When publishes follow one another and the compensating deletion succeeds, config.json
\* ends paired with its own signature or with none (route.ts:126-130, 203-214).
THEOREM PairSettles ==
  ASSUME "publish" \notin Overlap, FaultKinds \subseteq {"db", "s3"}
  PROVE  Spec => []SettledPair
<1>1. Init => Paired
  BY PublishAssumption DEF Init, Paired
<1>2. VersionInv /\ SequenceInv /\ Paired /\ [Next]_vars => Paired'
  BY PairedStep DEF VersionInv, SequenceInv
<1>3. Paired => SettledPair
  BY DEF Paired, SettledPair, Quiet, InFlight, Over
<1>4. Spec => [](VersionInv /\ SequenceInv)
  BY SequenceInvariant
<1>5. QED BY <1>1, <1>2, <1>3, <1>4, PTL DEF Spec

-----------------------------------------------------------------------------
(* The lifecycle of flags when handlers and publishes follow one another.   *)

\* Publishes and flag handlers run one at a time; a call of the pipeline that throws is
\* an upload or a deletion that had no effect.
Orderly ==
  /\ Overlap \cap {"publish", "edit"} = {}
  /\ FaultKinds \subseteq {"s3", "delete"}

ToStamp == {"live", "archived", "finalized", "stamping"}

\* The unique index on the keys of an app.
KeysUnique ==
  \A f, g \in FlagIds :
    Exists(f) /\ Exists(g) /\ flags[f].key = flags[g].key => f = g

\* A handler between its read and its write is alone, and what it checked still holds.
PendingAlone ==
  \A p \in pending :
    /\ Quiet
    /\ \A q \in pending : q = p
    /\ p.op \in AdminOps
    /\ Exists(p.flag) /\ Admissible(flags[p.flag], p.op, p.key)
    /\ p.now = clock /\ clock # 0

\* Dates lie in the past, and only a published flag is archived.
Dated ==
  \A f \in FlagIds : Exists(f) =>
    /\ flags[f].archivedAt <= clock /\ flags[f].last <= clock
    /\ Archived(flags[f]) => IsPublished(flags[f])

\* What a publish in flight has read is what the table still holds.
SnapshotCurrent == \A r \in Requests : InFlight(r) => snap[r] = Snapshot

\* Until its stamps are written, a request that has uploaded its config is the live one;
\* after the first updateMany every archived flag counts as released.
Releasing ==
  \A r \in Requests :
    /\ pc[r] \in ToStamp => live = r
    /\ pc[r] = "stamping" =>
         /\ stamp[r] # 0
         /\ \A f \in FlagIds :
              Exists(f) /\ Archived(flags[f]) => IsReleasedWhileArchived(flags[f])

\* If no flag is given another key, the row of a key that clients know as an active flag is
\* still there.
ServedExists ==
  AdminOps \cap Renaming = {} => \A k \in Keys :
    snap[live][k] = "active" => \E f \in FlagIds : Exists(f) /\ flags[f].key = k

\* Likewise ServedIsPublished, from the last stamp to the next upload.
ServedMarked ==
  AdminOps \cap Renaming = {} /\ ~Stamping =>
    \A f \in FlagIds :
      Exists(f) /\ snap[live][flags[f].key] = "active" => IsPublished(flags[f])

\* RetiredWasDeprecated, at all times.
RetiredMarked ==
  \A f \in FlagIds : Exists(f) /\ IsReleasedWhileArchived(flags[f])
                       => snap[live][flags[f].key] = "deprecated"

FlagInv ==
  /\ KeysUnique
  /\ PendingAlone
  /\ Dated
  /\ SnapshotCurrent
  /\ Releasing
  /\ ServedExists
  /\ ServedMarked
  /\ RetiredMarked

-----------------------------------------------------------------------------
(* What the artifact says of a row.                                         *)

\* Every row is in the artifact, as deprecated exactly if it is archived.
LEMMA SnapshotOfRow ==
  ASSUME FlagTypeOK, KeysUnique, NEW f \in FlagIds, Exists(f)
  PROVE  Snapshot[flags[f].key] = IF Archived(flags[f]) THEN "deprecated" ELSE "active"
<1>1. flags[f].key \in Keys
  BY DEF FlagTypeOK, Exists, Flag
<1>2. QED BY <1>1 DEF Snapshot, KeysUnique

\* Whatever is in the artifact has a row.
LEMMA SnapshotHasRow ==
  ASSUME NEW k \in Keys, Snapshot[k] # "absent"
  PROVE  \E f \in FlagIds : Exists(f) /\ flags[f].key = k
BY DEF Snapshot

\* The flags a request in flight stamps are all there are.
LEMMA StampsEveryRow ==
  ASSUME FlagTypeOK, KeysUnique, NEW r \in Requests, snap[r] = Snapshot,
         NEW f \in FlagIds, Exists(f)
  PROVE  flags[f].key \in InArtifact(r)
<1>1. flags[f].key \in Keys
  BY DEF FlagTypeOK, Exists, Flag
<1>2. QED BY <1>1, SnapshotOfRow DEF InArtifact

\* An updateMany of the stamps: the rows that exist, their keys and their archive dates
\* stay, and with them what a publish would write.
LEMMA StampKeeps ==
  ASSUME FlagTypeOK, NEW ks, NEW now \in Nat,
         flags' = StampedLast(ks, now) \/ flags' = StampedFirst(ks, now)
  PROVE  /\ \A f \in FlagIds :
              /\ Exists(f)' <=> Exists(f)
              /\ Exists(f) => /\ flags'[f].key = flags[f].key
                              /\ flags'[f].archivedAt = flags[f].archivedAt
         /\ Snapshot' = Snapshot
<1>1. ASSUME NEW f \in FlagIds
      PROVE  /\ Exists(f)' <=> Exists(f)
             /\ Exists(f) => /\ flags'[f].key = flags[f].key
                             /\ flags'[f].archivedAt = flags[f].archivedAt
  <2>1. flags[f] \in Flag \cup {NoFlag}
    BY DEF FlagTypeOK
  <2>2. CASE ~Exists(f)
    BY <2>2 DEF StampedLast, StampedFirst, Exists
  <2>3. CASE Exists(f)
    <3>1. flags[f] \in Flag
      BY <2>1, <2>3 DEF Exists
    <3>2. \/ flags'[f] = flags[f]
          \/ flags'[f] = [flags[f] EXCEPT !.last = now]
          \/ flags'[f] = [flags[f] EXCEPT !.first = now]
      BY DEF StampedLast, StampedFirst
    <3>3. flags'[f] \in Flag /\ flags'[f].key = flags[f].key
          /\ flags'[f].archivedAt = flags[f].archivedAt
      BY <3>1, <3>2 DEF Flag
    <3>4. QED BY <2>3, <3>3, FlagAssumption DEF Exists
  <2>4. QED BY <2>2, <2>3
<1>2. ASSUME NEW f \in FlagIds, NEW k \in Keys
      PROVE  /\ (Exists(f) /\ flags[f].key = k)' <=> Exists(f) /\ flags[f].key = k
             /\ (Exists(f) /\ flags[f].key = k /\ Archived(flags[f]))'
                   <=> Exists(f) /\ flags[f].key = k /\ Archived(flags[f])
  BY <1>1 DEF Archived
<1>3. Snapshot' = Snapshot
  BY <1>2 DEF Snapshot
<1>4. QED BY <1>1, <1>3

-----------------------------------------------------------------------------
(* The inductive step.                                                      *)

\* A step that touches neither the rows nor the live config, and neither starts nor ends
\* the part of a publish that follows the upload.
LEMMA PipelineStep ==
  ASSUME TypeOK, FlagInv, NEW r \in Requests, NEW from, NEW to, Goto(r, from, to),
         from \notin Over \cup {"idle"}, to # "stamping", from \in ToStamp <=> to \in ToStamp,
         UNCHANGED <<flagVars, snap, live, stamp>>
  PROVE  FlagInv'
<1>1. pc[r] = from /\ \A q \in Requests : pc'[q] = IF q = r THEN to ELSE pc[q]
  BY DEF Goto, TypeOK
<1>2. Stamping' <=> Stamping
  BY <1>1 DEF Stamping, ToStamp
<1>3. Snapshot' = Snapshot
  BY DEF Snapshot, Exists, flagVars
<1>4. pending = {}
  BY <1>1 DEF InFlight, FlagInv, PendingAlone, Quiet
<1>5. PendingAlone' /\ KeysUnique' /\ Dated'
  BY <1>4 DEF FlagInv, PendingAlone, KeysUnique, Dated, Exists, flagVars
<1>6. SnapshotCurrent'
  BY <1>1, <1>3 DEF FlagInv, SnapshotCurrent, InFlight, Over
<1>7. Releasing'
  BY <1>1 DEF FlagInv, Releasing, ToStamp, Exists, flagVars
<1>8. ServedExists' /\ ServedMarked' /\ RetiredMarked'
  BY <1>2 DEF FlagInv, ServedExists, ServedMarked, RetiredMarked, Exists, flagVars
<1>9. QED BY <1>5, <1>6, <1>7, <1>8 DEF FlagInv

\* What the constants of an orderly run exclude.
LEMMA OrderlyFaults ==
  ASSUME Orderly
  PROVE  /\ ~Fault({"db"}) /\ ~Fault({"ambiguous"}) /\ ~Fault({"crash"})
         /\ "publish" \notin Overlap /\ "edit" \notin Overlap /\ "ambiguous" \notin FaultKinds
BY DEF Orderly, Fault

\* The artifact is built: Generate reads the rows while no handler is half done.
LEMMA GenerateStep ==
  ASSUME Orderly, VersionInv, FlagInv, NEW r \in Requests, Generate(r)
  PROVE  FlagInv'
<1>1. /\ pc[r] = "idle" /\ pc' = [pc EXCEPT ![r] = "generated"]
      /\ snap' = [snap EXCEPT ![r] = Snapshot]
      /\ pending = {} /\ Quiet
      /\ UNCHANGED <<flags, pending, clock, live, stamp>>
  BY OrderlyFaults DEF Generate, Goto, flagVars, s3Vars
<1>2. \A q \in Requests : pc'[q] = IF q = r THEN "generated" ELSE pc[q]
  BY <1>1 DEF VersionInv, TypeOK
<1>3. \A q \in Requests : snap'[q] = IF q = r THEN Snapshot ELSE snap[q]
  BY <1>1 DEF VersionInv, TypeOK
<1>4. ~Stamping /\ ~Stamping'
  BY <1>1, <1>2 DEF Stamping, Quiet, InFlight, Over
<1>5. Snapshot' = Snapshot
  BY <1>1 DEF Snapshot, Exists
<1>6. PendingAlone' /\ KeysUnique' /\ Dated'
  BY <1>1 DEF FlagInv, PendingAlone, KeysUnique, Dated, Exists
<1>7. SnapshotCurrent'
  BY <1>1, <1>2, <1>3, <1>5 DEF SnapshotCurrent, Quiet, InFlight
<1>8. Releasing'
  BY <1>1, <1>2 DEF FlagInv, Releasing, ToStamp, Exists
<1>9. live # r /\ live \in Requests
  BY <1>1, OrderlyFaults DEF VersionInv, LiveCommitted, TypeOK
<1>10. snap'[live'] = snap[live]
  BY <1>1, <1>3, <1>9
<1>11. ServedExists' /\ ServedMarked' /\ RetiredMarked'
  BY <1>1, <1>4, <1>10 DEF FlagInv, ServedExists, ServedMarked, RetiredMarked, Exists
<1>12. QED BY <1>6, <1>7, <1>8, <1>11 DEF FlagInv

\* The upload of config.json: clients now see the rows as they are.
LEMMA UploadStep ==
  ASSUME VersionInv, OneInFlight, FlagInv, NEW r \in Requests, PutConfig(r)
  PROVE  FlagInv'
<1>1. /\ pc[r] = "sigUp" /\ pc' = [pc EXCEPT ![r] = "live"] /\ live' = r
      /\ UNCHANGED <<flags, pending, clock, snap, stamp>>
  BY DEF PutConfig, Goto, flagVars
<1>2. \A q \in Requests : pc'[q] = IF q = r THEN "live" ELSE pc[q]
  BY <1>1 DEF VersionInv, TypeOK
<1>3. InFlight(r) /\ \A q \in Requests : InFlight(q) => q = r
  BY <1>1 DEF OneInFlight, InFlight, Over
<1>4. pending = {} /\ snap[r] = Snapshot /\ Snapshot' = Snapshot
  BY <1>1, <1>3 DEF FlagInv, PendingAlone, Quiet, SnapshotCurrent, Snapshot, Exists
<1>5. PendingAlone' /\ KeysUnique' /\ Dated'
  BY <1>1, <1>4 DEF FlagInv, PendingAlone, KeysUnique, Dated, Exists
<1>6. SnapshotCurrent'
  BY <1>1, <1>2, <1>3, <1>4 DEF SnapshotCurrent, InFlight, Over
<1>7. Releasing'
  BY <1>1, <1>2, <1>3 DEF Releasing, ToStamp, InFlight, Over
<1>8. Stamping'
  BY <1>2 DEF Stamping
<1>9. ServedExists'
  BY <1>1, <1>4, SnapshotHasRow DEF ServedExists, Exists
<1>10. RetiredMarked'
  <2>1. ASSUME NEW f \in FlagIds, Exists(f), Archived(flags[f])
        PROVE  Snapshot[flags[f].key] = "deprecated"
    BY <2>1, SnapshotOfRow DEF FlagInv, VersionInv, TypeOK
  <2>2. QED BY <1>1, <1>4, <2>1 DEF RetiredMarked, IsReleasedWhileArchived, Exists
<1>11. QED BY <1>5, <1>6, <1>7, <1>8, <1>9, <1>10 DEF FlagInv, ServedMarked

\* A publish of an empty config ends: there are no rows.
LEMMA EmptyStep ==
  ASSUME VersionInv, OneInFlight, FlagInv, NEW r \in Requests, RespondEmpty(r)
  PROVE  FlagInv' /\ \A f \in FlagIds : ~Exists(f)
<1>1. /\ pc[r] = "finalized" /\ pc' = [pc EXCEPT ![r] = "done"] /\ InArtifact(r) = {}
      /\ UNCHANGED <<flags, pending, clock, snap, live, stamp>>
  BY DEF RespondEmpty, Goto, flagVars, s3Vars
<1>2. \A q \in Requests : pc'[q] = IF q = r THEN "done" ELSE pc[q]
  BY <1>1 DEF VersionInv, TypeOK
<1>3. InFlight(r)
  BY <1>1 DEF InFlight, Over
<1>4. pending = {} /\ snap[r] = Snapshot /\ Snapshot' = Snapshot
  BY <1>1, <1>3 DEF FlagInv, PendingAlone, Quiet, SnapshotCurrent, Snapshot, Exists
<1>5. ASSUME NEW f \in FlagIds PROVE ~Exists(f)
  BY <1>1, <1>4, StampsEveryRow DEF FlagInv, VersionInv, TypeOK
<1>6. PendingAlone' /\ KeysUnique' /\ Dated' /\ RetiredMarked' /\ ServedMarked'
  BY <1>1, <1>4, <1>5 DEF PendingAlone, KeysUnique, Dated, RetiredMarked, ServedMarked, Exists
<1>7. SnapshotCurrent'
  BY <1>1, <1>2, <1>4 DEF FlagInv, SnapshotCurrent, InFlight, Over
<1>8. Releasing'
  BY <1>1, <1>2 DEF FlagInv, Releasing, ToStamp, Exists
<1>9. ServedExists'
  BY <1>1 DEF FlagInv, ServedExists, Exists
<1>10. QED BY <1>5, <1>6, <1>7, <1>8, <1>9 DEF FlagInv

\* The first updateMany of the stamps: every row has now been released as it is.
LEMMA StampLastStep ==
  ASSUME VersionInv, OneInFlight, FlagInv, NEW r \in Requests, StampLast(r)
  PROVE  /\ FlagInv'
         /\ \A f \in FlagIds : Exists(f) => flags'[f] = [flags[f] EXCEPT !.last = clock + 1]
<1>1. /\ pc[r] = "finalized" /\ pc' = [pc EXCEPT ![r] = "stamping"]
      /\ clock' = clock + 1 /\ stamp' = [stamp EXCEPT ![r] = clock']
      /\ flags' = StampedLast(InArtifact(r), clock')
      /\ UNCHANGED <<pending, snap, live>>
  BY DEF StampLast, Goto, s3Vars
<1>2. \A q \in Requests : pc'[q] = IF q = r THEN "stamping" ELSE pc[q]
  BY <1>1 DEF VersionInv, TypeOK
<1>3. InFlight(r) /\ live = r /\ \A q \in Requests : InFlight(q) => q = r
  BY <1>1 DEF OneInFlight, InFlight, Over, FlagInv, Releasing, ToStamp
<1>4. pending = {} /\ snap[r] = Snapshot
  BY <1>3 DEF FlagInv, PendingAlone, Quiet, SnapshotCurrent
<1>5. FlagTypeOK /\ clock \in Nat /\ clock' \in Nat /\ stamp'[r] = clock + 1
  BY <1>1 DEF VersionInv, TypeOK, FlagTypeOK
<1>6. ASSUME NEW f \in FlagIds, Exists(f)
      PROVE  /\ flags'[f] = [flags[f] EXCEPT !.last = clock + 1]
             /\ flags[f] \in Flag /\ flags[f].archivedAt < clock + 1
  <2>1. flags[f].key \in InArtifact(r)
    BY <1>4, <1>5, <1>6, StampsEveryRow DEF FlagInv
  <2>2. flags[f] \in Flag
    BY <1>5, <1>6 DEF FlagTypeOK, Exists
  <2>3. flags[f].archivedAt < clock + 1
    BY <1>5, <1>6, <2>2 DEF FlagInv, Dated, Flag
  <2>4. QED BY <1>1, <1>6, <2>1, <2>2, <2>3 DEF StampedLast
<1>7. /\ Snapshot' = Snapshot
      /\ \A f \in FlagIds : Exists(f)' <=> Exists(f)
  BY <1>1, <1>5, StampKeeps
<1>8. ASSUME NEW f \in FlagIds, Exists(f)
      PROVE  /\ flags'[f].key = flags[f].key /\ flags'[f].first = flags[f].first
             /\ flags'[f].archivedAt = flags[f].archivedAt /\ flags'[f].last = clock + 1
  BY <1>6, <1>8 DEF Flag
<1>9. KeysUnique' /\ PendingAlone'
  BY <1>1, <1>4, <1>7, <1>8 DEF FlagInv, KeysUnique, PendingAlone
<1>10. Dated'
  <2>1. ASSUME NEW f \in FlagIds, Exists(f)
        PROVE  /\ flags'[f].archivedAt <= clock' /\ flags'[f].last <= clock'
               /\ Archived(flags'[f]) => IsPublished(flags'[f])
    <3>1. flags[f].archivedAt \in Nat /\ flags[f].archivedAt < clock + 1
      BY <1>6, <2>1 DEF Flag
    <3>2. Archived(flags[f]) => IsPublished(flags[f])
      BY <2>1 DEF FlagInv, Dated
    <3>3. QED BY <1>1, <1>5, <1>8, <2>1, <3>1, <3>2 DEF Archived, IsPublished
  <2>2. QED BY <1>7, <2>1 DEF Dated
<1>11. SnapshotCurrent'
  BY <1>1, <1>3, <1>2, <1>4, <1>7 DEF SnapshotCurrent, InFlight, Over
<1>12. Releasing'
  <2>1. \A f \in FlagIds : Exists(f) /\ Archived(flags[f]) => IsReleasedWhileArchived(flags'[f])
    BY <1>5, <1>6, <1>8 DEF Archived, IsReleasedWhileArchived, Flag
  <2>2. \A q \in Requests : pc'[q] \in ToStamp => q = r
    BY <1>2, <1>3 DEF ToStamp, InFlight, Over
  <2>3. stamp'[r] # 0
    BY <1>5
  <2>4. ASSUME NEW f \in FlagIds, Exists(f)', Archived(flags'[f])
        PROVE  IsReleasedWhileArchived(flags'[f])
    BY <1>7, <1>8, <2>1, <2>4 DEF Archived
  <2>5. QED BY <1>1, <1>3, <2>2, <2>3, <2>4 DEF Releasing, ToStamp
<1>13. Stamping'
  BY <1>2 DEF Stamping
<1>14. ServedExists'
  BY <1>1, <1>7, <1>8 DEF FlagInv, ServedExists
<1>15. RetiredMarked'
  <2>1. ASSUME NEW f \in FlagIds, Exists(f), Archived(flags[f])
        PROVE  snap[live][flags[f].key] = "deprecated"
    BY <1>3, <1>4, <1>5, <2>1, SnapshotOfRow DEF FlagInv
  <2>2. ASSUME NEW f \in FlagIds, Exists(f)', IsReleasedWhileArchived(flags'[f])
        PROVE  snap[live][flags'[f].key] = "deprecated"
    BY <1>7, <1>8, <2>1, <2>2 DEF Archived, IsReleasedWhileArchived
  <2>3. QED BY <1>1, <2>2 DEF RetiredMarked
<1>16. QED BY <1>6, <1>9, <1>10, <1>11, <1>12, <1>13, <1>14, <1>15 DEF FlagInv, ServedMarked

\* The second updateMany: every row is marked as published, and the publish ends.
LEMMA StampFirstStep ==
  ASSUME VersionInv, OneInFlight, FlagInv, NEW r \in Requests, StampFirst(r)
  PROVE  /\ FlagInv' /\ ~Stamping'
         /\ \A f \in FlagIds : Exists(f) =>
              /\ flags'[f] \in Flag /\ flags'[f].first # 0
              /\ flags'[f].archivedAt = flags[f].archivedAt /\ flags'[f].last = flags[f].last
              /\ Archived(flags[f]) => IsPublished(flags[f]) /\ IsReleasedWhileArchived(flags[f])
<1>1. /\ pc[r] = "stamping" /\ pc' = [pc EXCEPT ![r] = "done"]
      /\ flags' = StampedFirst(InArtifact(r), stamp[r])
      /\ UNCHANGED <<pending, clock, snap, live, stamp>>
  BY DEF StampFirst, Goto, s3Vars
<1>2. \A q \in Requests : pc'[q] = IF q = r THEN "done" ELSE pc[q]
  BY <1>1 DEF VersionInv, TypeOK
<1>3. InFlight(r) /\ live = r /\ \A q \in Requests : InFlight(q) => q = r
  BY <1>1 DEF OneInFlight, InFlight, Over, FlagInv, Releasing, ToStamp
<1>4. pending = {} /\ snap[r] = Snapshot
  BY <1>3 DEF FlagInv, PendingAlone, Quiet, SnapshotCurrent
<1>5. FlagTypeOK /\ clock \in Nat /\ stamp[r] \in Nat /\ stamp[r] # 0
  BY <1>1 DEF VersionInv, TypeOK, FlagTypeOK, FlagInv, Releasing
<1>6. ASSUME NEW f \in FlagIds, Exists(f)
      PROVE  /\ flags'[f] \in Flag /\ flags'[f].first # 0 /\ flags'[f].key = flags[f].key
             /\ flags'[f].archivedAt = flags[f].archivedAt /\ flags'[f].last = flags[f].last
  <2>1. flags[f].key \in InArtifact(r)
    BY <1>4, <1>5, <1>6, StampsEveryRow DEF FlagInv
  <2>2. flags[f] \in Flag
    BY <1>5, <1>6 DEF FlagTypeOK, Exists
  <2>3. flags'[f] = IF flags[f].first = 0 THEN [flags[f] EXCEPT !.first = stamp[r]] ELSE flags[f]
    BY <1>1, <1>6, <2>1 DEF StampedFirst
  <2>4. QED BY <1>5, <2>2, <2>3 DEF Flag
<1>7. /\ Snapshot' = Snapshot
      /\ \A f \in FlagIds : Exists(f)' <=> Exists(f)
  BY <1>1, <1>5, StampKeeps
<1>8. \A f \in FlagIds : Exists(f) /\ Archived(flags[f])
                          => IsPublished(flags[f]) /\ IsReleasedWhileArchived(flags[f])
  BY <1>1 DEF FlagInv, Releasing, Dated
<1>9. KeysUnique' /\ PendingAlone'
  BY <1>1, <1>4, <1>6, <1>7 DEF FlagInv, KeysUnique, PendingAlone
<1>10. Dated'
  BY <1>1, <1>6, <1>7 DEF FlagInv, Dated, Archived, IsPublished
<1>11. SnapshotCurrent'
  BY <1>2, <1>3 DEF SnapshotCurrent, InFlight, Over
<1>12. ~Stamping' /\ Releasing'
  BY <1>2, <1>3 DEF Stamping, Releasing, ToStamp, InFlight, Over
<1>13. ServedExists'
  BY <1>1, <1>6, <1>7 DEF FlagInv, ServedExists
<1>14. ServedMarked'
  BY <1>6, <1>7 DEF ServedMarked, IsPublished
<1>15. RetiredMarked'
  BY <1>1, <1>6, <1>7 DEF FlagInv, RetiredMarked, IsReleasedWhileArchived, Archived
<1>16. QED BY <1>6, <1>8, <1>9, <1>10, <1>11, <1>12, <1>13, <1>14, <1>15 DEF FlagInv

\* A new flag has a key that no row has, so clients do not know it as an active one.
LEMMA CreateStep ==
  ASSUME VersionInv, FlagInv, Quiet,
         NEW f \in FlagIds, NEW k \in Keys, Create(f, k),
         UNCHANGED <<pc, snap, live, stamp>>
  PROVE  FlagInv'
<1> DEFINE new == [key |-> k, archivedAt |-> 0, first |-> 0, last |-> 0]
<1>1. /\ ~Exists(f) /\ KeyFree(k, f) /\ \A p \in pending : p.flag # f
      /\ flags' = [flags EXCEPT ![f] = new] /\ UNCHANGED <<pending, clock>>
  BY DEF Create
<1>2. new \in Flag /\ new # NoFlag /\ clock \in Nat
  BY FlagAssumption DEF Flag, VersionInv, TypeOK, FlagTypeOK
<1>3. flags'[f] = new /\ \A g \in FlagIds \ {f} : flags'[g] = flags[g]
  BY <1>1 DEF VersionInv, TypeOK, FlagTypeOK
<1>4. /\ Exists(f)' /\ \A g \in FlagIds \ {f} : Exists(g)' <=> Exists(g)
      /\ ~Archived(new) /\ ~IsReleasedWhileArchived(new)
  BY <1>2, <1>3 DEF Exists, Archived, IsReleasedWhileArchived
<1>5. ~Stamping
  BY DEF Quiet, Stamping, InFlight, Over
<1>6. KeysUnique'
  BY <1>1, <1>3, <1>4 DEF FlagInv, KeysUnique, KeyFree
<1>7. PendingAlone'
  BY <1>1, <1>3, <1>4 DEF FlagInv, PendingAlone, Quiet, InFlight, VersionInv, TypeOK, FlagTypeOK, Request
<1>8. Dated'
  BY <1>1, <1>2, <1>3, <1>4 DEF FlagInv, Dated
<1>9. SnapshotCurrent' /\ Releasing'
  BY <1>5 DEF SnapshotCurrent, Releasing, Stamping, ToStamp, Quiet, InFlight
<1>10. ServedExists'
  BY <1>1, <1>3, <1>4 DEF FlagInv, ServedExists
<1>11. AdminOps \cap Renaming = {} => snap[live][k] # "active"
  BY <1>1 DEF FlagInv, ServedExists, KeyFree
<1>12. ServedMarked'
  BY <1>3, <1>4, <1>5, <1>11 DEF FlagInv, ServedMarked
<1>13. RetiredMarked'
  BY <1>3, <1>4 DEF FlagInv, RetiredMarked
<1>14. QED BY <1>6, <1>7, <1>8, <1>9, <1>10, <1>12, <1>13 DEF FlagInv

\* The read half of a handler.
LEMMA AdmitStep ==
  ASSUME Orderly, VersionInv, FlagInv, Quiet,
         NEW f \in FlagIds, NEW op \in Ops, NEW k \in Keys, Admit(f, op, k),
         UNCHANGED <<pc, snap, live, stamp>>
  PROVE  FlagInv'
<1> DEFINE p == [flag |-> f, op |-> op, key |-> k, now |-> clock']
<1>1. /\ op \in AdminOps /\ pending = {} /\ Exists(f) /\ Admissible(flags[f], op, k)
      /\ clock' = clock + 1 /\ pending' = {p} /\ flags' = flags
  BY OrderlyFaults DEF Admit, MayAdmit
<1>2. clock \in Nat /\ clock' \in Nat /\ clock' # 0
  BY <1>1 DEF VersionInv, TypeOK, FlagTypeOK
<1>3. PendingAlone'
  BY <1>1, <1>2 DEF PendingAlone, Quiet, InFlight, Exists
<1>4. ASSUME NEW g \in FlagIds, Exists(g)
      PROVE  flags[g].archivedAt <= clock' /\ flags[g].last <= clock'
  BY <1>1, <1>2, <1>4 DEF FlagInv, Dated, Exists, VersionInv, TypeOK, FlagTypeOK, Flag
<1>5. Dated'
  BY <1>1, <1>4 DEF FlagInv, Dated, Exists
<1>6. KeysUnique' /\ ServedExists' /\ RetiredMarked'
  BY <1>1 DEF FlagInv, KeysUnique, ServedExists, RetiredMarked, Exists
<1>7. SnapshotCurrent' /\ Releasing' /\ ServedMarked'
  BY <1>1 DEF FlagInv, SnapshotCurrent, Releasing, ServedMarked, Stamping, ToStamp, Quiet, InFlight,
              Exists, Over
<1>8. QED BY <1>3, <1>5, <1>6, <1>7 DEF FlagInv

\* What the write half leaves of its row, given what the read half checked.
Written(row, new, now) ==
  \/ IsPublished(row) /\ new = [row EXCEPT !.archivedAt = now]
  \/ new = [row EXCEPT !.archivedAt = 0]
  \/ new = row
  \/ CanDelete(row) /\ new = NoFlag

\* A row that is still there keeps its key and its release dates; it counts as released
\* while archived only if it did before.
LEMMA WrittenRow ==
  ASSUME NEW row \in Flag, NEW new \in Flag, NEW now \in Nat \ {0}, Written(row, new, now),
         row.archivedAt <= now, row.last <= now, Archived(row) => IsPublished(row)
  PROVE  /\ new.key = row.key /\ new.first = row.first
         /\ new.archivedAt <= now /\ new.last <= now
         /\ Archived(new) => IsPublished(new)
         /\ IsReleasedWhileArchived(new) => IsReleasedWhileArchived(row)
<1>1. CASE IsPublished(row) /\ new = [row EXCEPT !.archivedAt = now]
  BY <1>1 DEF Flag, IsPublished, IsReleasedWhileArchived
<1>2. CASE new = [row EXCEPT !.archivedAt = 0]
  BY <1>2 DEF Flag, Archived, IsReleasedWhileArchived
<1>3. CASE new = row
  BY <1>3
<1>4. QED BY <1>1, <1>2, <1>3, FlagAssumption DEF Written

\* The write half gives the flag another key.
Renames(p) == p.op \in Renaming /\ KeyFree(p.key, p.flag)

\* What Commit writes otherwise is Written.
LEMMA CommitWrites ==
  ASSUME Orderly, VersionInv, FlagInv, NEW p \in pending, Commit(p), ~Renames(p)
  PROVE  /\ p.flag \in FlagIds /\ Exists(p.flag) /\ flags[p.flag] \in Flag
         /\ pending' = {} /\ clock' = clock /\ clock \in Nat \ {0}
         /\ flags' \in [FlagIds -> Flag \cup {NoFlag}]
         /\ Written(flags[p.flag], flags'[p.flag], clock)
         /\ \A g \in FlagIds \ {p.flag} : flags'[g] = flags[g]
<1> DEFINE row == flags[p.flag]
           new == IF p.op = "delete" THEN NoFlag
                  ELSE IF p.op \in Renaming THEN row ELSE Updated(row, p)
<1>1. FlagTypeOK /\ FlagTypeOK' /\ p.flag \in FlagIds /\ p.op \in Ops
  <2>1. FlagTypeOK /\ FlagNext
    BY DEF VersionInv, TypeOK, FlagNext
  <2>2. QED BY <2>1, FlagStepTyped DEF FlagTypeOK, Request
<1>2. /\ \A q \in pending : q = p
      /\ Exists(p.flag) /\ Admissible(row, p.op, p.key)
      /\ p.now = clock /\ clock # 0
  BY DEF FlagInv, PendingAlone
<1>3. /\ pending' = {} /\ clock' = clock
      /\ flags' = [flags EXCEPT ![p.flag] = new]
  BY <1>1, <1>2 DEF Commit, Renames, FlagTypeOK, Renaming
<1>4. flags'[p.flag] = new /\ \A g \in FlagIds \ {p.flag} : flags'[g] = flags[g]
  BY <1>1, <1>3 DEF FlagTypeOK
<1>5. row \in Flag /\ clock \in Nat
  BY <1>1, <1>2 DEF FlagTypeOK, Exists
<1>6. Written(row, new, clock)
  <2>1. CASE p.op = "delete"
    BY <1>2, <2>1 DEF Written, Admissible
  <2>2. CASE p.op \in Renaming
    BY <2>2 DEF Written, Renaming
  <2>3. CASE p.op = "archive"
    <3>1. new = [row EXCEPT !.archivedAt = clock]
      BY <1>2, <1>5, <2>3 DEF Updated, Flag, Archiving, Unarchiving, Renaming
    <3>2. IsPublished(row)
      BY <1>2, <2>3 DEF Admissible, Archiving
    <3>3. QED BY <3>1, <3>2 DEF Written
  <2>4. CASE p.op = "unarchive"
    <3>1. new = [row EXCEPT !.archivedAt = 0]
      BY <1>5, <2>4 DEF Updated, Flag, Archiving, Unarchiving, Renaming
    <3>2. QED BY <3>1 DEF Written
  <2>5. CASE p.op = "edit"
    <3>1. new = row
      BY <1>5, <2>5 DEF Updated, Flag, Archiving, Unarchiving, Renaming
    <3>2. QED BY <3>1 DEF Written
  <2>6. p.op # "create"
    BY <1>2 DEF Admissible
  <2>7. QED BY <1>1, <2>1, <2>2, <2>3, <2>4, <2>5, <2>6 DEF Ops, Renaming
<1>7. QED BY <1>1, <1>2, <1>3, <1>4, <1>5, <1>6 DEF FlagTypeOK

\* What a renaming leaves of a row that is not archived: another key, and perhaps the mark
\* of an archived flag.
Renamed(row, new, k, now) ==
  \/ new = [row EXCEPT !.key = k]
  \/ IsPublished(row) /\ new = [row EXCEPT !.key = k, !.archivedAt = now]

\* Either way the row keeps its release dates, and was not released since it is archived.
LEMMA RenamedRow ==
  ASSUME NEW row \in Flag, NEW new, NEW k \in Keys, NEW now \in Nat \ {0},
         Renamed(row, new, k, now), ~Archived(row), row.last <= now
  PROVE  /\ new \in Flag /\ new.key = k /\ new.first = row.first /\ new.last = row.last
         /\ new.archivedAt <= now
         /\ Archived(new) => IsPublished(new) /\ new.archivedAt = now
         /\ ~IsReleasedWhileArchived(new)
<1>1. CASE new = [row EXCEPT !.key = k]
  BY <1>1 DEF Flag, Archived, IsReleasedWhileArchived
<1>2. CASE IsPublished(row) /\ new = [row EXCEPT !.key = k, !.archivedAt = now]
  <2>1. /\ new \in Flag /\ new.key = k /\ new.first = row.first /\ new.last = row.last
        /\ new.archivedAt = now
    BY <1>2 DEF Flag
  <2>2. IsPublished(new)
    BY <1>2, <2>1 DEF IsPublished
  <2>3. ~IsReleasedWhileArchived(new)
    BY <2>1 DEF IsReleasedWhileArchived, Flag
  <2>4. QED BY <2>1, <2>2, <2>3 DEF Flag
<1>3. QED BY <1>1, <1>2 DEF Renamed

\* A renaming gives a flag that is not archived another key.
LEMMA RenameWrites ==
  ASSUME VersionInv, FlagInv, NEW p \in pending, Commit(p), Renames(p)
  PROVE  /\ p.flag \in FlagIds /\ Exists(p.flag) /\ flags[p.flag] \in Flag /\ p.key \in Keys
         /\ pending' = {} /\ clock' = clock /\ clock \in Nat \ {0}
         /\ AdminOps \cap Renaming # {}
         /\ ~Archived(flags[p.flag]) /\ KeyFree(p.key, p.flag)
         /\ Renamed(flags[p.flag], flags'[p.flag], p.key, clock)
         /\ \A g \in FlagIds \ {p.flag} : flags'[g] = flags[g]
<1> DEFINE row == flags[p.flag]
<1>1. FlagTypeOK /\ p.flag \in FlagIds /\ p.key \in Keys
  BY DEF VersionInv, TypeOK, FlagTypeOK, Request
<1>2. /\ \A q \in pending : q = p
      /\ p.op \in AdminOps /\ Exists(p.flag) /\ Admissible(row, p.op, p.key)
      /\ p.now = clock /\ clock # 0
  BY DEF FlagInv, PendingAlone
<1>3. /\ pending' = {} /\ clock' = clock
      /\ flags' = [flags EXCEPT ![p.flag] = Updated(row, p)]
  BY <1>1, <1>2 DEF Commit, Renames, FlagTypeOK, Renaming
<1>4. p.op \in Renaming /\ ~Archived(row)
  BY <1>2 DEF Renames, Admissible
<1>5. row \in Flag /\ clock \in Nat
  BY <1>1, <1>2 DEF FlagTypeOK, Exists
<1>6. flags'[p.flag] = Updated(row, p) /\ \A g \in FlagIds \ {p.flag} : flags'[g] = flags[g]
  BY <1>1, <1>3 DEF FlagTypeOK
<1>7. Renamed(row, Updated(row, p), p.key, clock)
  <2>1. CASE p.op \in {"rename", "renameUnarchive"}
    <3>1. row.archivedAt = 0
      BY <1>4 DEF Archived
    <3>2. Updated(row, p) = [row EXCEPT !.key = p.key]
      BY <1>5, <2>1, <3>1 DEF Updated, Flag, Archiving, Unarchiving, Renaming
    <3>3. QED BY <3>2 DEF Renamed
  <2>2. CASE p.op = "renameArchive"
    BY <1>2, <1>5, <2>2 DEF Updated, Renamed, Admissible, Flag, Archiving, Unarchiving, Renaming
  <2>3. QED BY <1>4, <2>1, <2>2 DEF Renaming
<1>8. QED BY <1>1, <1>2, <1>3, <1>4, <1>5, <1>6, <1>7 DEF Renames

\* A renaming keeps what does not depend on keys.
LEMMA RenameStep ==
  ASSUME VersionInv, FlagInv, Quiet, NEW p \in pending, Commit(p), Renames(p),
         UNCHANGED <<pc, snap, live, stamp>>
  PROVE  FlagInv'
<1> DEFINE f == p.flag
           row == flags[f]
           new == flags'[f]
<1>1. /\ f \in FlagIds /\ Exists(f) /\ row \in Flag /\ p.key \in Keys
      /\ pending' = {} /\ clock' = clock /\ clock \in Nat \ {0}
      /\ AdminOps \cap Renaming # {}
      /\ ~Archived(row) /\ KeyFree(p.key, f)
      /\ Renamed(row, new, p.key, clock)
      /\ \A g \in FlagIds \ {f} : flags'[g] = flags[g]
  BY RenameWrites
<1>0. row.last <= clock
  BY <1>1 DEF FlagInv, Dated
<1> HIDE DEF f, row, new
<1>2. /\ new \in Flag /\ new.key = p.key /\ new.archivedAt <= clock
      /\ new.last = row.last /\ ~IsReleasedWhileArchived(new)
      /\ Archived(new) => IsPublished(new)
  BY <1>0, <1>1, RenamedRow
<1>3. \A g \in FlagIds : Exists(g)' <=> Exists(g)
  BY <1>1, <1>2, FlagAssumption DEF Exists, new
<1>4. KeysUnique'
  <2>1. ASSUME NEW g \in FlagIds, NEW h \in FlagIds, Exists(g), Exists(h),
               flags'[g].key = flags'[h].key
        PROVE  g = h
    <3>1. \A x \in FlagIds \ {f} : Exists(x) => flags'[x].key # flags'[f].key
      BY <1>1, <1>2 DEF KeyFree, new
    <3>2. CASE g = f \/ h = f
      BY <2>1, <3>1, <3>2
    <3>3. CASE g # f /\ h # f
      BY <1>1, <2>1, <3>3 DEF FlagInv, KeysUnique
    <3>4. QED BY <3>2, <3>3
  <2>2. QED BY <1>3, <2>1 DEF KeysUnique
<1>5. PendingAlone'
  BY <1>1 DEF PendingAlone
<1>6. Dated'
  BY <1>0, <1>1, <1>2, <1>3 DEF FlagInv, Dated, new, row
<1>7. SnapshotCurrent' /\ Releasing'
  BY DEF SnapshotCurrent, Releasing, ToStamp, Quiet, InFlight, Over
<1>8. ServedExists' /\ ServedMarked'
  BY <1>1 DEF ServedExists, ServedMarked
<1>9. RetiredMarked'
  BY <1>1, <1>2, <1>3 DEF FlagInv, RetiredMarked, new
<1>10. QED BY <1>4, <1>5, <1>6, <1>7, <1>8, <1>9 DEF FlagInv

\* The write half keeps what clients were promised.
LEMMA CommitStep ==
  ASSUME Orderly, VersionInv, FlagInv, Quiet, NEW p \in pending, Commit(p), ~Renames(p),
         UNCHANGED <<pc, snap, live, stamp>>
  PROVE  FlagInv'
<1> DEFINE f == p.flag
           row == flags[f]
<1>1. /\ f \in FlagIds /\ Exists(f) /\ row \in Flag
      /\ pending' = {} /\ clock' = clock /\ clock \in Nat \ {0}
      /\ flags' \in [FlagIds -> Flag \cup {NoFlag}]
      /\ Written(row, flags'[f], clock)
      /\ \A g \in FlagIds \ {f} : flags'[g] = flags[g]
  BY CommitWrites
<1>2. ~Stamping /\ ~Stamping'
  BY DEF Quiet, Stamping, InFlight, Over
<1>3. /\ row.archivedAt <= clock /\ row.last <= clock
      /\ Archived(row) => IsPublished(row)
  BY <1>1 DEF FlagInv, Dated, Flag
<1>4. ASSUME Exists(f)'
      PROVE  /\ flags'[f].key = row.key /\ flags'[f].first = row.first
             /\ flags'[f].archivedAt <= clock /\ flags'[f].last <= clock
             /\ Archived(flags'[f]) => IsPublished(flags'[f])
             /\ IsReleasedWhileArchived(flags'[f]) => IsReleasedWhileArchived(row)
  <2>1. flags'[f] \in Flag
    BY <1>1, <1>4 DEF Exists
  <2> HIDE DEF f, row
  <2> QED BY <1>1, <1>3, <2>1, WrittenRow
<1>6. ASSUME ~Exists(f)', AdminOps \cap Renaming = {} PROVE snap[live][row.key] # "active"
  <2>1. CanDelete(row)
    <3>1. flags'[f] = NoFlag /\ NoFlag \notin Flag
      BY <1>6, FlagAssumption DEF Exists
    <3> HIDE DEF f, row
    <3>2. row \in Flag /\ clock \in Nat
      BY <1>1
    <3>3. [row EXCEPT !.archivedAt = clock] \in Flag /\ [row EXCEPT !.archivedAt = 0] \in Flag
      BY <3>2 DEF Flag
    <3>4. QED BY <1>1, <3>1, <3>2, <3>3 DEF Written
  <2>2. QED BY <1>1, <1>2, <1>6, <2>1 DEF CanDelete, FlagInv, ServedMarked, RetiredMarked
<1>7. \A g \in FlagIds \ {f} : Exists(g)' <=> Exists(g)
  BY <1>1 DEF Exists
<1>8. KeysUnique' /\ PendingAlone'
  BY <1>1, <1>4, <1>7 DEF FlagInv, KeysUnique, PendingAlone
<1>9. Dated'
  BY <1>1, <1>4, <1>7 DEF FlagInv, Dated
<1>10. SnapshotCurrent' /\ Releasing'
  BY <1>2 DEF SnapshotCurrent, Releasing, Stamping, ToStamp, Quiet, InFlight
<1>11. ServedExists'
  <2>1. ASSUME AdminOps \cap Renaming = {}, NEW k \in Keys, snap[live][k] = "active"
        PROVE  \E g \in FlagIds : Exists(g)' /\ flags'[g].key = k
    <3>1. PICK g \in FlagIds : Exists(g) /\ flags[g].key = k
      BY <2>1 DEF FlagInv, ServedExists
    <3>2. CASE g # f
      BY <1>1, <1>7, <3>1, <3>2
    <3>3. CASE g = f
      BY <1>1, <1>4, <1>6, <2>1, <3>1, <3>3
    <3>4. QED BY <3>2, <3>3
  <2>2. QED BY <2>1 DEF ServedExists
<1>12. ServedMarked'
  BY <1>1, <1>2, <1>4, <1>7 DEF FlagInv, ServedMarked, IsPublished
<1>13. RetiredMarked'
  BY <1>1, <1>4, <1>7 DEF FlagInv, RetiredMarked
<1>14. QED BY <1>8, <1>9, <1>10, <1>11, <1>12, <1>13 DEF FlagInv

\* FlagInv is kept.
LEMMA FlagInvStep ==
  ASSUME Orderly, VersionInv, OneInFlight, FlagInv, [Next]_vars
  PROVE  FlagInv'
<1>1. TypeOK /\ ~Fault({"db"}) /\ ~Fault({"ambiguous"}) /\ ~Fault({"crash"})
  BY OrderlyFaults DEF VersionInv
<1>2. ASSUME NEW r \in Requests, Reject(r) PROVE FlagInv'
  BY <1>1, <1>2, PipelineStep DEF Reject, Over, ToStamp, s3Vars
<1>3. ASSUME NEW r \in Requests, ReadPrevious(r) PROVE FlagInv'
  BY <1>1, <1>3, PipelineStep DEF ReadPrevious, Over, ToStamp, s3Vars
<1>4. ASSUME NEW r \in Requests, EnsureKey(r) PROVE FlagInv'
  BY <1>1, <1>4, PipelineStep DEF EnsureKey, Over, ToStamp, s3Vars
<1>5. ASSUME NEW r \in Requests, EnsureKeyFails(r) PROVE FlagInv'
  BY <1>1, <1>5, PipelineStep DEF EnsureKeyFails, Over, ToStamp, s3Vars
<1>6. ASSUME NEW r \in Requests, Lock(r) PROVE FlagInv'
  BY <1>1, <1>6, PipelineStep DEF Lock, Over, ToStamp, s3Vars
<1>7. ASSUME NEW r \in Requests, ReadVersions(r) PROVE FlagInv'
  BY <1>1, <1>7, PipelineStep DEF ReadVersions, Over, ToStamp, s3Vars
<1>8. ASSUME NEW r \in Requests, Reserve(r) PROVE FlagInv'
  BY <1>1, <1>8, PipelineStep DEF Reserve, Over, ToStamp, s3Vars
<1>9. ASSUME NEW r \in Requests, ReserveFails(r) PROVE FlagInv'
  BY <1>1, <1>9, PipelineStep DEF ReserveFails, Over, ToStamp, s3Vars
<1>10. ASSUME NEW r \in Requests, Sign(r) PROVE FlagInv'
  BY <1>1, <1>10, PipelineStep DEF Sign, Over, ToStamp, s3Vars
<1>11. ASSUME NEW r \in Requests, SignFails(r) PROVE FlagInv'
  BY <1>1, <1>11, PipelineStep DEF SignFails, Over, ToStamp, s3Vars
<1>12. ASSUME NEW r \in Requests, PutSignature(r) PROVE FlagInv'
  BY <1>1, <1>12, PipelineStep DEF PutSignature, Over, ToStamp, s3Vars
<1>13. ASSUME NEW r \in Requests, PutSignatureFails(r) PROVE FlagInv'
  BY <1>1, <1>13, PipelineStep DEF PutSignatureFails, Over, ToStamp, s3Vars
<1>14. ASSUME NEW r \in Requests, PutConfigFails(r) PROVE FlagInv'
  BY <1>1, <1>14, PipelineStep DEF PutConfigFails, Over, ToStamp, s3Vars
<1>15. ASSUME NEW r \in Requests, PutArchive(r) PROVE FlagInv'
  BY <1>1, <1>15, PipelineStep DEF PutArchive, Over, ToStamp, s3Vars
<1>16. ASSUME NEW r \in Requests, Finalize(r) PROVE FlagInv'
  BY <1>1, <1>16, PipelineStep DEF Finalize, Over, ToStamp, s3Vars
<1>17. ASSUME NEW r \in Requests, UndoSignature(r) PROVE FlagInv'
  BY <1>1, <1>17, PipelineStep DEF UndoSignature, Over, ToStamp, s3Vars
<1>18. ASSUME NEW r \in Requests, UndoRow(r) PROVE FlagInv'
  BY <1>1, <1>18, PipelineStep DEF UndoRow, Over, ToStamp, s3Vars
<1>19. ASSUME NEW r \in Requests, FinalizeFails(r) PROVE FlagInv'
  BY <1>1, <1>19 DEF FinalizeFails
<1>20. ASSUME NEW r \in Requests, StampFails(r) PROVE FlagInv'
  BY <1>1, <1>20 DEF StampFails
<1>21. ASSUME NEW r \in Requests, Crash(r) PROVE FlagInv'
  BY <1>1, <1>21 DEF Crash
<1>22. ASSUME NEW r \in Requests, Generate(r) PROVE FlagInv'
  BY <1>22, GenerateStep
<1>23. ASSUME NEW r \in Requests, PutConfig(r) PROVE FlagInv'
  BY <1>23, UploadStep
<1>24. ASSUME NEW r \in Requests, RespondEmpty(r) PROVE FlagInv'
  BY <1>24, EmptyStep
<1>25. ASSUME NEW r \in Requests, StampLast(r) PROVE FlagInv'
  BY <1>25, StampLastStep
<1>26. ASSUME NEW r \in Requests, StampFirst(r) PROVE FlagInv'
  BY <1>26, StampFirstStep
<1>27. CASE EditFlags
  <2>1. Quiet /\ FlagNext /\ UNCHANGED <<pc, snap, live, stamp>>
    BY <1>27, OrderlyFaults DEF EditFlags, reqVars, s3Vars
  <2>2. ASSUME NEW f \in FlagIds, NEW k \in Keys, Create(f, k) PROVE FlagInv'
    BY <2>1, <2>2, CreateStep
  <2>3. ASSUME NEW f \in FlagIds, NEW op \in Ops, NEW k \in Keys, Admit(f, op, k)
        PROVE  FlagInv'
    BY <2>1, <2>3, AdmitStep
  <2>4. ASSUME NEW p \in pending, Commit(p) PROVE FlagInv'
    BY <2>1, <2>4, CommitStep, RenameStep
  <2>5. QED BY <2>1, <2>2, <2>3, <2>4 DEF FlagNext
<1>28. CASE DeactivateKey \/ Midnight \/ UNCHANGED vars
  <2>1. UNCHANGED <<flags, pending, clock, pc, snap, live, stamp>>
    BY <1>28 DEF DeactivateKey, Midnight, vars, flagVars, reqVars, s3Vars
  <2>2. QED
    BY <2>1 DEF FlagInv, KeysUnique, PendingAlone, Dated, SnapshotCurrent, Snapshot, Releasing,
       ServedExists, ServedMarked, RetiredMarked, Stamping, Quiet, InFlight, Exists
<1>29. QED
  BY <1>2, <1>3, <1>4, <1>5, <1>6, <1>7, <1>8, <1>9, <1>10, <1>11, <1>12, <1>13,
             <1>14, <1>15, <1>16, <1>17, <1>18, <1>19, <1>20, <1>21, <1>22, <1>23, <1>24,
             <1>25, <1>26, <1>27, <1>28 DEF Next, Step

\* FlagInv holds in every reachable state of an orderly run.
LEMMA FlagInvariant ==
  ASSUME Orderly
  PROVE  Spec => [](VersionInv /\ SequenceInv /\ FlagInv)
<1>1. Init => FlagInv
  BY PublishAssumption
  DEF Init, FlagInit, FlagInv, KeysUnique, PendingAlone, Dated, SnapshotCurrent, Releasing,
      ToStamp, ServedExists, ServedMarked, RetiredMarked, InFlight, Over, Exists
<1>2. VersionInv /\ SequenceInv /\ FlagInv /\ [Next]_vars => FlagInv'
  BY FlagInvStep DEF SequenceInv
<1>3. Spec => [](VersionInv /\ SequenceInv)
  BY OrderlyFaults, SequenceInvariant
<1>4. QED BY <1>1, <1>2, <1>3, PTL DEF Spec

-----------------------------------------------------------------------------
(* What administrators and clients are promised.                            *)

\* In an orderly run without renamings, what clients see as an active flag cannot be deleted
\* directly: its row is marked as published as soon as no publish is under way.
THEOREM ServedFlagsArePublished ==
  ASSUME Orderly, AdminOps \cap Renaming = {}
  PROVE  Spec => []ServedIsPublished
<1>1. FlagInv => ServedIsPublished
  BY DEF FlagInv, ServedMarked, ServedIsPublished, Stamping, Quiet, InFlight, Over
<1>2. QED BY <1>1, FlagInvariant, PTL

\* In an orderly run, renamings or not, a flag counts as released while archived only if
\* the live config shows it as deprecated.
THEOREM RetiredFlagsWereDeprecated ==
  ASSUME Orderly
  PROVE  Spec => []RetiredWasDeprecated
<1>1. FlagInv => RetiredWasDeprecated
  BY DEF FlagInv, RetiredMarked, RetiredWasDeprecated
<1>2. QED BY <1>1, FlagInvariant, PTL

\* Rows are only removed by the write half of a handler.
LEMMA RowRemoved ==
  ASSUME TypeOK, [Next]_vars, NEW f \in FlagIds, Exists(f), flags'[f] = NoFlag
  PROVE  EditFlags /\ \E p \in pending : Commit(p)
<1>1. CASE EditFlags
  <2>1. ASSUME NEW g \in FlagIds, NEW k \in Keys, Create(g, k) PROVE FALSE
    BY <2>1 DEF Create, TypeOK, FlagTypeOK, Exists
  <2>2. ASSUME NEW g \in FlagIds, NEW op \in Ops, NEW k \in Keys, Admit(g, op, k) PROVE FALSE
    BY <2>2 DEF Admit, Exists
  <2>3. QED BY <1>1, <2>1, <2>2 DEF EditFlags, FlagNext
<1>2. ASSUME NEW r \in Requests, StampLast(r) PROVE FALSE
  <2>1. clock' \in Nat /\ flags' = StampedLast(InArtifact(r), clock')
    BY <1>2 DEF StampLast, TypeOK, FlagTypeOK
  <2>2. QED BY <2>1, StampKeeps DEF TypeOK, Exists
<1>3. ASSUME NEW r \in Requests, StampFirst(r) PROVE FALSE
  <2>1. stamp[r] \in Nat /\ flags' = StampedFirst(InArtifact(r), stamp[r])
    BY <1>3 DEF StampFirst, TypeOK
  <2>2. QED BY <2>1, StampKeeps DEF TypeOK, Exists
<1>4. CASE UNCHANGED flags
  BY <1>4 DEF Exists
<1>5. QED
  BY <1>1, <1>2, <1>3, <1>4 DEF Next, Step, vars, flagVars, Generate, Reject, ReadPrevious, EnsureKey,
     EnsureKeyFails, Lock, ReadVersions, Reserve, ReserveFails, Sign, SignFails, PutSignature,
     PutSignatureFails, PutConfig, PutConfigFails, PutArchive, Finalize, FinalizeFails,
     UndoSignature, UndoRow, RespondEmpty, StampFails, Crash, DeactivateKey, Midnight

\* In an orderly run without renamings, no row is deleted while clients know its key as an
\* active flag.
THEOREM DeletedFlagsWereDeprecated ==
  ASSUME Orderly, AdminOps \cap Renaming = {}
  PROVE  Spec => DeprecatedBeforeDelete
<1> DEFINE Kept == \A f \in FlagIds : Exists(f) /\ flags'[f] = NoFlag
                                       => snap[live][flags[f].key] # "active"
<1>1. VersionInv /\ FlagInv /\ [Next]_vars => Kept
  <2> SUFFICES ASSUME VersionInv, FlagInv, [Next]_vars,
                      NEW f \in FlagIds, Exists(f), flags'[f] = NoFlag
               PROVE  snap[live][flags[f].key] # "active"
    OBVIOUS
  <2>1. TypeOK
    BY DEF VersionInv
  <2>2. EditFlags /\ \E p \in pending : Commit(p)
    BY <2>1, RowRemoved
  <2>3. PICK p \in pending : Commit(p)
    BY <2>2
  <2>4. ~Stamping
    BY <2>2, OrderlyFaults DEF EditFlags, Quiet, Stamping, InFlight, Over
  <2>5. /\ flags[p.flag] \in Flag /\ Written(flags[p.flag], flags'[p.flag], clock)
        /\ \A g \in FlagIds \ {p.flag} : flags'[g] = flags[g]
        /\ clock \in Nat \ {0}
    <3>1. ~Renames(p)
      BY <2>3 DEF FlagInv, PendingAlone, Renames
    <3>2. QED BY <2>3, <3>1, CommitWrites
  <2>6. f = p.flag
    BY <2>5 DEF Exists
  <2>7. CanDelete(flags[f])
    BY <2>5, <2>6, FlagAssumption DEF Written, Flag
  <2>8. QED BY <2>4, <2>7 DEF CanDelete, FlagInv, ServedMarked, RetiredMarked
<1>2. QED BY <1>1, FlagInvariant, PTL DEF Spec, DeprecatedBeforeDelete

\* In an orderly run without renamings, a key that clients know as an active flag is in the
\* next config too, active or deprecated.
THEOREM KeysStayUntilDeprecated ==
  ASSUME Orderly, AdminOps \cap Renaming = {}
  PROVE  Spec => KeysLeaveDeprecated
<1> DEFINE Stays == \A k \in Keys : snap[live][k] = "active" => snap'[live'][k] # "absent"
<1>1. VersionInv /\ SequenceInv /\ FlagInv /\ [Next]_vars => Stays
  <2> SUFFICES ASSUME VersionInv, SequenceInv, FlagInv, [Next]_vars,
                      NEW k \in Keys, snap[live][k] = "active"
               PROVE  snap'[live'][k] # "absent"
    OBVIOUS
  <2>1. CASE live' # live
    <3>1. PICK r \in Requests : PutConfig(r)
      BY <2>1, LiveChange, OrderlyFaults
    <3>2. pc[r] = "sigUp" /\ live' = r /\ snap' = snap
      BY <3>1 DEF PutConfig, Goto
    <3>3. snap'[live'] = Snapshot
      BY <3>2 DEF FlagInv, SnapshotCurrent, InFlight, Over
    <3>4. QED BY <3>3 DEF FlagInv, ServedExists, Snapshot
  <2>2. CASE live' = live /\ snap'[live] = snap[live]
    BY <2>2
  <2>3. ASSUME NEW r \in Requests, Generate(r) PROVE live # r
    BY <2>3, OrderlyFaults DEF Generate, Goto, VersionInv, LiveCommitted
  <2>4. CASE live' = live /\ ~\E r \in Requests : Generate(r)
    <3>1. snap' = snap
      BY <2>4 DEF Next, Step, vars, reqVars, Reject, ReadPrevious, EnsureKey, EnsureKeyFails, Lock,
         ReadVersions, Reserve, ReserveFails, Sign, SignFails, PutSignature, PutSignatureFails,
         PutConfig, PutConfigFails, PutArchive, Finalize, FinalizeFails, UndoSignature, UndoRow,
         RespondEmpty, StampLast, StampFirst, StampFails, Crash, DeactivateKey, Midnight, EditFlags
    <3>2. QED BY <2>4, <3>1
  <2>5. ASSUME NEW r \in Requests, Generate(r)
        PROVE  live' = live /\ snap'[live] = snap[live]
    BY <2>3, <2>5 DEF Generate, s3Vars, VersionInv, TypeOK
  <2>6. QED BY <2>1, <2>2, <2>4, <2>5
<1>2. QED BY <1>1, FlagInvariant, PTL DEF Spec, KeysLeaveDeprecated

-----------------------------------------------------------------------------
(* The refinement of FlagStates.                                            *)

\* The state of a row that exists.
LEMMA StatusOfRow ==
  ASSUME NEW row \in Flag
  PROVE  StatusOf(row) = IF row.first = 0 THEN "fresh"
                         ELSE IF ~Archived(row) THEN "published"
                         ELSE IF IsReleasedWhileArchived(row) THEN "retired" ELSE "archived"
<1>1. row # NoFlag
  BY FlagAssumption
<1>2. QED BY <1>1 DEF StatusOf

\* From the upload to the last stamp the release counts as done.
LEMMA StatusAt ==
  ASSUME NEW f \in FlagIds
  PROVE  Status[f] = IF Stamping THEN Promise!Released(StatusOf(flags[f])) ELSE StatusOf(flags[f])
BY DEF Status, Promise!Released

\* As StatusAt, in the next state.
LEMMA StatusAfter ==
  ASSUME NEW f \in FlagIds
  PROVE  Status'[f] = IF Stamping' THEN Promise!Released(StatusOf(flags'[f]))
                                   ELSE StatusOf(flags'[f])
BY DEF Status, Promise!Released

\* A step that neither touches the rows nor starts or ends the stamping is a stutter.
LEMMA StatusStutter ==
  ASSUME UNCHANGED flags, Stamping' <=> Stamping
  PROVE  Status' = Status
BY DEF Status

\* The upload is the release.
LEMMA UploadReleases ==
  ASSUME TypeOK, OneInFlight, NEW r \in Requests, PutConfig(r)
  PROVE  Promise!Release
<1>1. pc[r] = "sigUp" /\ pc' = [pc EXCEPT ![r] = "live"] /\ flags' = flags
  BY DEF PutConfig, Goto, flagVars
<1>2. ~Stamping
  BY <1>1 DEF OneInFlight, InFlight, Over, Stamping
<1>3. Stamping'
  BY <1>1 DEF TypeOK, Stamping
<1>4. ASSUME NEW f \in FlagIds PROVE Status'[f] = Promise!Released(Status[f])
  BY <1>1, <1>2, <1>3, StatusAt, StatusAfter
<1>5. QED BY <1>4 DEF Promise!Release, Status

\* The stamps change no state: they record the release that has taken effect.
LEMMA StampsStutter ==
  ASSUME VersionInv, OneInFlight, FlagInv, NEW r \in Requests, StampLast(r) \/ StampFirst(r)
  PROVE  Status' = Status
<1>1. FlagTypeOK /\ clock \in Nat /\ clock' \in Nat /\ stamp[r] \in Nat /\ Stamping
  BY DEF VersionInv, TypeOK, FlagTypeOK, StampLast, StampFirst, Stamping, Goto
<1>2. \A f \in FlagIds : Exists(f)' <=> Exists(f)
  BY <1>1, StampKeeps DEF StampLast, StampFirst
<1>3. ASSUME NEW f \in FlagIds, ~Exists(f) PROVE Status'[f] = Status[f]
  <2>1. flags[f] = NoFlag /\ flags'[f] = NoFlag
    BY <1>2, <1>3 DEF Exists
  <2>2. StatusOf(NoFlag) = "absent"
    BY DEF StatusOf
  <2>3. QED BY <2>1, <2>2, StatusAt, StatusAfter DEF Promise!Released
<1>4. ASSUME NEW f \in FlagIds, Exists(f), StampLast(r) PROVE Status'[f] = Status[f]
  <2>1. flags[f] \in Flag
    BY <1>1, <1>4 DEF FlagTypeOK, Exists
  <2>2. flags'[f] = [flags[f] EXCEPT !.last = clock + 1]
    BY <1>4, StampLastStep
  <2>3. flags'[f] \in Flag /\ flags'[f].first = flags[f].first
        /\ flags'[f].archivedAt = flags[f].archivedAt /\ flags'[f].last = clock + 1
    BY <1>1, <2>1, <2>2 DEF Flag
  <2>4. flags[f].archivedAt < clock + 1
    BY <1>1, <1>4, <2>1 DEF FlagInv, Dated, Flag
  <2>5. IsReleasedWhileArchived(flags'[f]) <=> Archived(flags[f])
    BY <2>1, <2>3, <2>4 DEF IsReleasedWhileArchived, Archived, Flag
  <2>6. Stamping'
    BY <1>4 DEF StampLast, Goto, Stamping, VersionInv, TypeOK
  <2>7. Archived(flags'[f]) <=> Archived(flags[f])
    BY <2>3 DEF Archived
  <2>8. QED BY <1>1, <2>1, <2>3, <2>5, <2>6, <2>7, StatusOfRow, StatusAt, StatusAfter DEF Promise!Released
<1>5. ASSUME NEW f \in FlagIds, Exists(f), StampFirst(r) PROVE Status'[f] = Status[f]
  <2>1. flags[f] \in Flag
    BY <1>1, <1>5 DEF FlagTypeOK, Exists
  <2>2. /\ flags'[f] \in Flag /\ flags'[f].first # 0
        /\ flags'[f].archivedAt = flags[f].archivedAt /\ flags'[f].last = flags[f].last
        /\ Archived(flags[f]) => IsPublished(flags[f]) /\ IsReleasedWhileArchived(flags[f])
        /\ ~Stamping'
    BY <1>5, StampFirstStep
  <2>3. /\ Archived(flags'[f]) <=> Archived(flags[f])
        /\ IsReleasedWhileArchived(flags'[f]) <=> Archived(flags[f])
        /\ Archived(flags[f]) => flags[f].first # 0 /\ IsReleasedWhileArchived(flags[f])
    BY <2>2 DEF IsReleasedWhileArchived, Archived, IsPublished
  <2>4. QED BY <1>1, <2>1, <2>2, <2>3, StatusOfRow, StatusAt, StatusAfter DEF Promise!Released
<1>6. \A f \in FlagIds : Status'[f] = Status[f]
  BY <1>3, <1>4, <1>5
<1>7. QED BY <1>6 DEF Status

\* The write half of a handler moves its flag along the lifecycle, or leaves it.
LEMMA CommitMoves ==
  ASSUME Orderly, VersionInv, FlagInv, ~Stamping, ~Stamping', NEW p \in pending, Commit(p),
         ~Renames(p)
  PROVE  Promise!Next \/ Status' = Status
<1> DEFINE f == p.flag
           row == flags[f]
           new == flags'[f]
<1>1. /\ f \in FlagIds /\ row \in Flag /\ clock \in Nat \ {0}
      /\ Written(row, new, clock)
      /\ \A g \in FlagIds \ {f} : flags'[g] = flags[g]
      /\ Exists(f)
  BY CommitWrites
<1>2. row.last <= clock /\ (Archived(row) => IsPublished(row))
  BY <1>1 DEF FlagInv, Dated
<1>3. /\ \A g \in FlagIds \ {f} : Status'[g] = Status[g]
      /\ Status[f] = StatusOf(row) /\ Status'[f] = StatusOf(new)
  BY <1>1, StatusAt, StatusAfter
<1>4. ASSUME NEW from, NEW to, StatusOf(row) \in from, StatusOf(new) = to
      PROVE  Promise!Move(f, from, to)
  <2>1. Status' = [Status EXCEPT ![f] = to]
    BY <1>1, <1>3, <1>4 DEF Status
  <2>2. QED BY <1>3, <1>4, <2>1 DEF Promise!Move
<1>5. ASSUME StatusOf(row) = StatusOf(new) PROVE Status' = Status
  BY <1>3, <1>5 DEF Status
<1> HIDE DEF f, row, new
<1>6. CASE IsPublished(row) /\ new = [row EXCEPT !.archivedAt = clock]
  <2>1. new \in Flag /\ new.first # 0 /\ Archived(new) /\ ~IsReleasedWhileArchived(new)
    BY <1>1, <1>2, <1>6 DEF Flag, Archived, IsPublished, IsReleasedWhileArchived
  <2>2. StatusOf(new) = "archived"
    BY <2>1, StatusOfRow
  <2>3. StatusOf(row) \in {"published", "archived", "retired"}
    BY <1>1, <1>6, StatusOfRow DEF IsPublished
  <2>4. QED BY <1>1, <1>4, <1>5, <2>2, <2>3 DEF Promise!Next
<1>7. CASE new = [row EXCEPT !.archivedAt = 0]
  <2>1. new \in Flag /\ new.first = row.first /\ ~Archived(new)
    BY <1>1, <1>7 DEF Flag, Archived
  <2>2. CASE row.first = 0
    BY <1>1, <1>5, <2>1, <2>2, StatusOfRow
  <2>3. CASE row.first # 0
    <3>1. StatusOf(new) = "published"
      BY <2>1, <2>3, StatusOfRow
    <3>2. StatusOf(row) \in {"published", "archived", "retired"}
      BY <1>1, <2>3, StatusOfRow
    <3>3. QED BY <1>1, <1>4, <1>5, <3>1, <3>2 DEF Promise!Next
  <2>4. QED BY <2>2, <2>3
<1>8. CASE new = row
  BY <1>5, <1>8
<1>9. CASE CanDelete(row) /\ new = NoFlag
  <2>1. StatusOf(row) \in {"fresh", "retired"}
    BY <1>1, <1>2, <1>9, StatusOfRow DEF CanDelete, IsPublished, IsReleasedWhileArchived
  <2>2. StatusOf(new) = "absent"
    BY <1>9 DEF StatusOf
  <2>3. QED BY <1>1, <1>4, <2>1, <2>2 DEF Promise!Next
<1>10. QED BY <1>1, <1>6, <1>7, <1>8, <1>9 DEF Written

\* A renaming archives its flag, or is a stutter.
LEMMA RenameMoves ==
  ASSUME VersionInv, FlagInv, ~Stamping, ~Stamping', NEW p \in pending, Commit(p), Renames(p)
  PROVE  Promise!Next \/ Status' = Status
<1> DEFINE f == p.flag
           row == flags[f]
           new == flags'[f]
<1>1. /\ f \in FlagIds /\ Exists(f) /\ row \in Flag /\ p.key \in Keys /\ clock \in Nat \ {0}
      /\ ~Archived(row) /\ Renamed(row, new, p.key, clock)
      /\ \A g \in FlagIds \ {f} : flags'[g] = flags[g]
  BY RenameWrites
<1>2. row.last <= clock
  BY <1>1 DEF FlagInv, Dated
<1>3. /\ \A g \in FlagIds \ {f} : Status'[g] = Status[g]
      /\ Status[f] = StatusOf(row) /\ Status'[f] = StatusOf(new)
  BY <1>1, StatusAt, StatusAfter
<1>4. ASSUME StatusOf(row) = StatusOf(new) PROVE Status' = Status
  BY <1>3, <1>4 DEF Status
<1>5. ASSUME StatusOf(row) = "published", StatusOf(new) = "archived"
      PROVE  Promise!Next
  <2>1. Status' = [Status EXCEPT ![f] = "archived"]
    BY <1>1, <1>3, <1>5 DEF Status
  <2>2. Promise!Move(f, {"published", "retired"}, "archived")
    BY <1>3, <1>5, <2>1 DEF Promise!Move
  <2>3. QED BY <1>1, <2>2 DEF Promise!Next
<1> HIDE DEF f, row, new
<1>6. /\ new \in Flag /\ new.first = row.first
      /\ Archived(new) => IsPublished(new)
      /\ ~IsReleasedWhileArchived(new)
  BY <1>1, <1>2, RenamedRow
<1>7. CASE ~Archived(new)
  <2>1. StatusOf(new) = StatusOf(row)
    BY <1>1, <1>6, <1>7, StatusOfRow
  <2>2. QED BY <1>4, <2>1
<1>8. CASE Archived(new)
  <2>1. StatusOf(new) = "archived" /\ StatusOf(row) = "published"
    BY <1>1, <1>6, <1>8, StatusOfRow DEF IsPublished
  <2>2. QED BY <1>5, <2>1
<1>9. QED BY <1>7, <1>8

\* A handler's step is a step of the lifecycle or a stutter.
LEMMA EditMoves ==
  ASSUME Orderly, VersionInv, FlagInv, EditFlags
  PROVE  Promise!Next \/ Status' = Status
<1>1. FlagNext /\ ~Stamping /\ ~Stamping'
  BY OrderlyFaults DEF EditFlags, reqVars, Quiet, Stamping, InFlight, Over
<1>2. ASSUME NEW f \in FlagIds, NEW k \in Keys, Create(f, k)
      PROVE  Promise!Next
  <2> DEFINE new == [key |-> k, archivedAt |-> 0, first |-> 0, last |-> 0]
  <2>1. flags[f] = NoFlag /\ flags'[f] = new /\ \A g \in FlagIds \ {f} : flags'[g] = flags[g]
    BY <1>2 DEF Create, Exists, VersionInv, TypeOK, FlagTypeOK
  <2>2. new \in Flag /\ new.first = 0
    BY DEF Flag
  <2>3. StatusOf(new) = "fresh" /\ StatusOf(NoFlag) = "absent"
    <3> HIDE DEF new
    <3> QED BY <2>2, StatusOfRow DEF StatusOf
  <2>4. /\ Status[f] = "absent" /\ Status'[f] = "fresh"
        /\ \A g \in FlagIds \ {f} : Status'[g] = Status[g]
    BY <1>1, <2>1, <2>3, StatusAt, StatusAfter
  <2>5. Promise!Move(f, {"absent"}, "fresh")
    BY <2>4 DEF Promise!Move, Status
  <2>6. QED BY <2>5 DEF Promise!Next
<1>3. ASSUME NEW f \in FlagIds, NEW op \in Ops, NEW k \in Keys, Admit(f, op, k)
      PROVE  Status' = Status
  BY <1>1, <1>3, StatusStutter DEF Admit
<1>4. QED BY <1>1, <1>2, <1>3, CommitMoves, RenameMoves DEF FlagNext

\* Every step of an orderly run is a step of the lifecycle or a stutter.
LEMMA LifecycleStep ==
  ASSUME Orderly, VersionInv, OneInFlight, FlagInv, [Next]_vars
  PROVE  Promise!Next \/ Status' = Status
<1>1. TypeOK /\ ~Fault({"db"}) /\ ~Fault({"ambiguous"}) /\ ~Fault({"crash"})
  BY OrderlyFaults DEF VersionInv
<1>2. ASSUME NEW r \in Requests, PutConfig(r) PROVE Promise!Next
  BY <1>1, <1>2, UploadReleases DEF Promise!Next
<1>3. ASSUME NEW r \in Requests, StampLast(r) \/ StampFirst(r) PROVE Status' = Status
  BY <1>3, StampsStutter
<1>4. CASE EditFlags
  BY <1>4, EditMoves
<1>5. ASSUME NEW r \in Requests, RespondEmpty(r) PROVE Status' = Status
  <2>1. \A f \in FlagIds : flags[f] = NoFlag /\ flags'[f] = NoFlag
    BY <1>5, EmptyStep DEF RespondEmpty, flagVars, Exists
  <2>2. StatusOf(NoFlag) = "absent"
    BY DEF StatusOf
  <2>3. \A f \in FlagIds : Status'[f] = Status[f]
    BY <2>1, <2>2, StatusAt, StatusAfter DEF Promise!Released
  <2>4. QED BY <2>3 DEF Status
<1>6. ASSUME NEW r \in Requests, NEW from, NEW to, Goto(r, from, to),
             from \in ToStamp <=> to \in ToStamp, UNCHANGED flags
      PROVE  Status' = Status
  <2>1. pc[r] = from /\ \A q \in Requests : pc'[q] = IF q = r THEN to ELSE pc[q]
    BY <1>1, <1>6 DEF Goto, TypeOK
  <2>2. Stamping' <=> Stamping
    BY <1>6, <2>1 DEF Stamping, ToStamp
  <2>3. QED BY <1>6, <2>2, StatusStutter
<1>7. ASSUME NEW r \in Requests, Generate(r) PROVE Status' = Status
  BY <1>1, <1>6, <1>7 DEF Generate, ToStamp, flagVars
<1>8. ASSUME NEW r \in Requests, Reject(r) PROVE Status' = Status
  BY <1>1, <1>6, <1>8 DEF Reject, ToStamp, flagVars
<1>9. ASSUME NEW r \in Requests, ReadPrevious(r) PROVE Status' = Status
  BY <1>1, <1>6, <1>9 DEF ReadPrevious, ToStamp, flagVars
<1>10. ASSUME NEW r \in Requests, EnsureKey(r) PROVE Status' = Status
  BY <1>1, <1>6, <1>10 DEF EnsureKey, ToStamp, flagVars
<1>11. ASSUME NEW r \in Requests, EnsureKeyFails(r) PROVE Status' = Status
  BY <1>1, <1>6, <1>11 DEF EnsureKeyFails, ToStamp, flagVars
<1>12. ASSUME NEW r \in Requests, Lock(r) PROVE Status' = Status
  BY <1>1, <1>6, <1>12 DEF Lock, ToStamp, flagVars
<1>13. ASSUME NEW r \in Requests, ReadVersions(r) PROVE Status' = Status
  BY <1>1, <1>6, <1>13 DEF ReadVersions, ToStamp, flagVars
<1>14. ASSUME NEW r \in Requests, Reserve(r) PROVE Status' = Status
  BY <1>1, <1>6, <1>14 DEF Reserve, ToStamp, flagVars
<1>15. ASSUME NEW r \in Requests, ReserveFails(r) PROVE Status' = Status
  BY <1>1, <1>6, <1>15 DEF ReserveFails, ToStamp, flagVars
<1>16. ASSUME NEW r \in Requests, Sign(r) PROVE Status' = Status
  BY <1>1, <1>6, <1>16 DEF Sign, ToStamp, flagVars
<1>17. ASSUME NEW r \in Requests, SignFails(r) PROVE Status' = Status
  BY <1>1, <1>6, <1>17 DEF SignFails, ToStamp, flagVars
<1>18. ASSUME NEW r \in Requests, PutSignature(r) PROVE Status' = Status
  BY <1>1, <1>6, <1>18 DEF PutSignature, ToStamp, flagVars
<1>19. ASSUME NEW r \in Requests, PutSignatureFails(r) PROVE Status' = Status
  BY <1>1, <1>6, <1>19 DEF PutSignatureFails, ToStamp, flagVars
<1>20. ASSUME NEW r \in Requests, PutConfigFails(r) PROVE Status' = Status
  BY <1>1, <1>6, <1>20 DEF PutConfigFails, ToStamp, flagVars
<1>21. ASSUME NEW r \in Requests, PutArchive(r) PROVE Status' = Status
  BY <1>1, <1>6, <1>21 DEF PutArchive, ToStamp, flagVars
<1>22. ASSUME NEW r \in Requests, Finalize(r) PROVE Status' = Status
  BY <1>1, <1>6, <1>22 DEF Finalize, ToStamp, flagVars
<1>23. ASSUME NEW r \in Requests, UndoSignature(r) PROVE Status' = Status
  BY <1>1, <1>6, <1>23 DEF UndoSignature, ToStamp, flagVars
<1>24. ASSUME NEW r \in Requests, UndoRow(r) PROVE Status' = Status
  BY <1>1, <1>6, <1>24 DEF UndoRow, ToStamp, flagVars
<1>25. CASE DeactivateKey \/ Midnight \/ UNCHANGED vars
  BY <1>25, StatusStutter DEF DeactivateKey, Midnight, vars, flagVars, reqVars, Stamping
<1>26. QED
  BY <1>1, <1>2, <1>3, <1>4, <1>5, <1>6, <1>7, <1>8, <1>9, <1>10, <1>11, <1>12,
         <1>13, <1>14, <1>15, <1>16, <1>17, <1>18, <1>19, <1>20, <1>21, <1>22, <1>23,
         <1>24, <1>25
  DEF Next, Step, FinalizeFails, StampFails, Crash

\* In an orderly run, renamings or not, the handlers and the publish pipeline implement the documented
\* lifecycle: a published flag leaves only archived and released in that state.
THEOREM LifecycleKept ==
  ASSUME Orderly
  PROVE  Spec => KeepsLifecycle
<1>1. Init => Promise!Init
  <2> SUFFICES ASSUME Init PROVE Promise!Init
    OBVIOUS
  <2>1. ~Stamping /\ \A f \in FlagIds : flags[f] = NoFlag
    BY DEF Init, FlagInit, Stamping
  <2>2. StatusOf(NoFlag) = "absent"
    BY DEF StatusOf
  <2>3. \A f \in FlagIds : Status[f] = "absent"
    BY <2>1, <2>2, StatusAt
  <2>4. QED BY <2>3 DEF Promise!Init, Status
<1>2. VersionInv /\ SequenceInv /\ FlagInv /\ [Next]_vars => [Promise!Next]_Status
  BY LifecycleStep DEF SequenceInv
<1>3. QED BY <1>1, <1>2, FlagInvariant, PTL DEF Spec, KeepsLifecycle, Promise!Spec

=============================================================================
