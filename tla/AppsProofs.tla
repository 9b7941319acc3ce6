----------------------------- MODULE AppsProofs -----------------------------
(***************************************************************************)
(* Theorems about Apps, for any creations, identifiers and bounds: which   *)
(* rows there are, and what is stored under their identifiers.             *)
(***************************************************************************)
EXTENDS Apps, TLAPS

\* The creations and rows as functions.
RowTypes ==
    /\ pc \in [Creators -> Running \union {"idle", "refused", "created", "failed"}]
    /\ want \in [Creators -> Names \union {None}]
    /\ row \in [Creators -> {"absent", "present", "deleted"}]
    /\ name \in [Creators -> Names \union {None}]

\* A creation has no row before its Insert.
NoRowYet ==
    \A c \in Creators : pc[c] \in {"idle", "refused", "found"} => row[c] = "absent"

RowInvariant == RowTypes /\ NoRowYet /\ OneRowPerName /\ FailureLeavesNoApp

\* Every step keeps the functions' types.
LEMMA RowTypesStep ==
  ASSUME RowTypes, [Next]_vars
  PROVE  RowTypes'
<1> USE DEF RowTypes, Running, rows, creation, store, budget, history
<1>1. ASSUME NEW c \in Creators, Step(c) PROVE RowTypes'
  <2>1. CASE Insert(c)
    BY <2>1 DEF Insert
  <2>2. CASE Prepare(c)
    BY <2>2 DEF Prepare
  <2>3. CASE PutSignature(c)
    BY <2>3 DEF PutSignature
  <2>4. CASE PutConfig(c)
    BY <2>4 DEF PutConfig
  <2>5. CASE Log(c)
    BY <2>5 DEF Log
  <2>6. CASE StepFails(c)
    BY <2>6 DEF StepFails
  <2>7. CASE Undo(c)
    BY <2>7 DEF Undo, Gone
  <2>8. CASE UndoFails(c)
    BY <2>8 DEF UndoFails
  <2>9. CASE Crash(c)
    BY <2>9 DEF Crash
  <2>10. QED
    BY <1>1, <2>1, <2>2, <2>3, <2>4, <2>5, <2>6, <2>7, <2>8, <2>9 DEF Step
<1>2. ASSUME NEW a \in Creators, Other(a) PROVE RowTypes'
  BY <1>2 DEF Other, Delete, Gone, Rotate, StartRelease
<1>3. ASSUME NEW c \in Creators, NEW n \in Names, Find(c, n) \/ Rename(c, n)
      PROVE  RowTypes'
  BY <1>3 DEF Find, Rename
<1>4. CASE ReleaseSignature \/ ReleaseConfig \/ AbortRelease
  BY <1>4 DEF ReleaseSignature, ReleaseConfig, AbortRelease
<1>5. CASE UNCHANGED vars
  BY <1>5 DEF vars
<1>6. QED BY <1>1, <1>2, <1>3, <1>4, <1>5 DEF Next

\* The steps that do not touch the rows, their identifiers or want, and that
\* end no creation, keep every conjunct of the invariant.
LEMMA RowsKept ==
  ASSUME RowInvariant,
         UNCHANGED <<row, name>>, stuck \subseteq stuck',
         \A c \in Creators :
            /\ pc'[c] \in {"idle", "refused", "found"} =>
                  pc[c] \in {"idle", "refused", "found"}
            /\ pc'[c] = "failed" => pc[c] = "failed" \/ c \in stuck'
                                      \/ row[c] # "present"
  PROVE  NoRowYet' /\ OneRowPerName' /\ FailureLeavesNoApp'
BY DEF RowInvariant, NoRowYet, OneRowPerName, FailureLeavesNoApp, Present

\* Every step keeps the invariant.
LEMMA RowStep ==
  ASSUME RowInvariant, [Next]_vars
  PROVE  RowInvariant'
<1> USE DEF rows, creation, store, budget, history
<1> RowTypes /\ RowTypes'
  BY RowTypesStep DEF RowInvariant
<1> SUFFICES NoRowYet' /\ OneRowPerName' /\ FailureLeavesNoApp'
  BY DEF RowInvariant
<1>1. ASSUME NEW c \in Creators, Insert(c)
      PROVE  NoRowYet' /\ OneRowPerName' /\ FailureLeavesNoApp'
  <2>1. pc[c] = "found" /\ row[c] = "absent"
    BY <1>1 DEF Insert, RowInvariant, NoRowYet
  <2>2. CASE Taken(want[c])
    BY <1>1, <2>1, <2>2, RowsKept DEF Insert, RowTypes
  <2>3. CASE ~Taken(want[c])
    <3>1. NoRowYet'
      BY <1>1, <2>3 DEF Insert, RowInvariant, NoRowYet, RowTypes
    <3>2. OneRowPerName'
      BY <1>1, <2>3 DEF Insert, Taken, Present, RowInvariant, OneRowPerName, RowTypes
    <3>3. FailureLeavesNoApp'
      BY <1>1, <2>3 DEF Insert, Present, RowInvariant, FailureLeavesNoApp, RowTypes
    <3>4. QED BY <3>1, <3>2, <3>3
  <2>4. QED BY <2>2, <2>3
<1>2. ASSUME NEW c \in Creators, NEW n \in Names, Rename(c, n)
      PROVE  NoRowYet' /\ OneRowPerName' /\ FailureLeavesNoApp'
  <2>1. NoRowYet' /\ FailureLeavesNoApp'
    BY <1>2 DEF Rename, Present, RowInvariant, NoRowYet, FailureLeavesNoApp
  <2>2. OneRowPerName'
    BY <1>2 DEF Rename, Taken, Present, RowInvariant, OneRowPerName, RowTypes
  <2>3. QED BY <2>1, <2>2
<1>3. ASSUME NEW a \in Creators, Delete(a)
      PROVE  NoRowYet' /\ OneRowPerName' /\ FailureLeavesNoApp'
  BY <1>3 DEF Delete, Gone, Present, RowInvariant, NoRowYet, OneRowPerName,
              FailureLeavesNoApp, RowTypes
<1>4. ASSUME NEW c \in Creators, Undo(c)
      PROVE  NoRowYet' /\ OneRowPerName' /\ FailureLeavesNoApp'
  <2>1. CASE Present(c)
    BY <1>4, <2>1 DEF Undo, Gone, Present, RowInvariant, NoRowYet, OneRowPerName,
                      FailureLeavesNoApp, RowTypes
  <2>2. CASE ~Present(c)
    BY <1>4, <2>2, RowsKept DEF Undo, Present, RowTypes
  <2>3. QED BY <2>1, <2>2
<1>5. ASSUME NEW c \in Creators, Crash(c) \/ UndoFails(c)
      PROVE  NoRowYet' /\ OneRowPerName' /\ FailureLeavesNoApp'
  BY <1>5, RowsKept DEF Crash, UndoFails, RowTypes
<1>6. ASSUME NEW c \in Creators,
             \/ Prepare(c) \/ PutSignature(c) \/ PutConfig(c) \/ Log(c) \/ StepFails(c)
      PROVE  NoRowYet' /\ OneRowPerName' /\ FailureLeavesNoApp'
  BY <1>6, RowsKept DEF Prepare, PutSignature, PutConfig, Log, StepFails, RowTypes
<1>7. ASSUME NEW c \in Creators, NEW n \in Names, Find(c, n)
      PROVE  NoRowYet' /\ OneRowPerName' /\ FailureLeavesNoApp'
  BY <1>7, RowsKept DEF Find, RowTypes
<1>8. ASSUME NEW a \in Creators, Rotate(a) \/ StartRelease(a)
      PROVE  NoRowYet' /\ OneRowPerName' /\ FailureLeavesNoApp'
  BY <1>8, RowsKept DEF Rotate, StartRelease
<1>9. CASE ReleaseSignature \/ ReleaseConfig \/ AbortRelease
  BY <1>9, RowsKept DEF ReleaseSignature, ReleaseConfig, AbortRelease
<1>10. CASE UNCHANGED vars
  BY <1>10, RowsKept DEF vars
<1>11. QED
  BY <1>1, <1>2, <1>3, <1>4, <1>5, <1>6, <1>7, <1>8, <1>9, <1>10
  DEF Next, Step, Other

\* RowInvariant holds in every reachable state.
THEOREM RowsInvariant ==
  Spec => []RowInvariant
<1>1. Init => RowInvariant
  BY DEF Init, RowInvariant, RowTypes, NoRowYet, OneRowPerName, FailureLeavesNoApp,
         Present
<1>2. QED BY <1>1, RowStep, PTL DEF Spec

\* POST and PUT /api/apps give an identifier to one app only, however many
\* creations and renamings found it free.
THEOREM IdentifiersAreUnique ==
  Spec => []OneRowPerName
<1>1. RowInvariant => OneRowPerName
  BY DEF RowInvariant
<1>2. QED BY <1>1, RowsInvariant, PTL

\* A creation that failed has no row unless its rollback did not run: by the
\* time a creation has one, every way to fail leads through the rollback.
THEOREM FailuresLeaveNoApp ==
  Spec => []FailureLeavesNoApp
<1>1. RowInvariant => FailureLeavesNoApp
  BY DEF RowInvariant
<1>2. QED BY <1>1, RowsInvariant, PTL
-----------------------------------------------------------------------------
(* What is stored under the identifiers.                                    *)

\* A creation that writes under identifier n.
Creates(c, n) == pc[c] \in {"ready", "signed", "stored"} /\ target[c] = n

\* The release under way, if any, is one of app a.
Releasing(a) == release # NoRelease /\ release.app = a

\* The audit rows of app a but the one the release under way has reserved.
OnRecord(a) == {doc \in log[a] : ~(Releasing(a) /\ doc = Released)}

\* A present app that was served and has not been renamed since.
Kept(a) == Present(a) /\ a \in served /\ a \notin moved

\* What is known of the release under way.
ReleaseTyped ==
    \/ release = NoRelease
    \/ release \in [at : {"reserved", "signed"}, app : Creators, to : Names,
                    ver : 1..MaxVersion]

\* The types of the rest of the state.
StoreTypes ==
    /\ target \in [Creators -> Names \union {None}]
    /\ key \in [Creators -> Nat]
    /\ log \in [Creators -> SUBSET Docs]
    /\ cfg \in [Names -> Docs \union {None}]
    /\ sig \in [Names -> [doc : Docs, key : Nat] \union {None}]
    /\ over \in [Names -> BOOLEAN] /\ mixed \in [Names -> BOOLEAN]
    /\ ReleaseTyped

\* Who writes has, or had, a row with an identifier; rows that are not present have
\* neither keys nor audit rows; and audit rows name their app.
Rooted ==
    /\ \A c \in Creators :
          /\ pc[c] = "found" => want[c] \in Names
          /\ pc[c] \notin {"idle", "refused", "found", "failed"} => row[c] # "absent"
          /\ pc[c] \in {"ready", "signed", "stored"} => target[c] \in Names
          /\ row[c] # "absent" => name[c] \in Names
          /\ c \in served => row[c] # "absent"
          /\ ~Present(c) => key[c] = 0 /\ log[c] = {}
          /\ \A doc \in log[c] : doc.app = c
    /\ release # NoRelease => row[release.app] # "absent"
    /\ \A n \in Names : sig[n] # None => row[sig[n].doc.app] # "absent"

\* Two writers of an identifier have noticed each other; so have a creation that
\* has its row and a release of its app.
Overlaps ==
    /\ \A c, d \in Creators, n \in Names :
          Creates(c, n) /\ Creates(d, n) /\ c # d => over[n]
    /\ \A c \in Creators, n \in Names :
          Creates(c, n) /\ release # NoRelease /\ release.to = n => over[n]
    /\ release # NoRelease /\ pc[release.app] = "inserted" => over[release.to]

\* Where another writer, or an app's own creation, is at work under the identifier
\* of an app that was served, that app counts as mixed.
Disturbed ==
    \A a \in Creators : Kept(a) =>
        /\ \A c \in Creators : c # a /\ Creates(c, name[a]) =>
              over[name[a]] /\ mixed[name[a]]
        /\ release # NoRelease /\ release.app # a /\ release.to = name[a] =>
              over[name[a]] /\ mixed[name[a]]
        /\ pc[a] = "inserted" \/ Creates(a, name[a]) => mixed[name[a]]

\* An app that is written for elsewhere was renamed meanwhile.
Elsewhere ==
    \A a \in Creators : Present(a) =>
        /\ release # NoRelease /\ release.app = a /\ release.to # name[a] =>
              a \in moved \/ (a \in served /\ mixed[name[a]])
        /\ pc[a] \in {"ready", "signed", "stored"} /\ target[a] # name[a] =>
              a \in moved \/ a \in served

\* What a writer that met no other has written is what it finds.
Written ==
    /\ \A c \in Creators, n \in Names :
          Creates(c, n) /\ pc[c] # "ready" /\ ~over[n] =>
             /\ sig[n] # None /\ sig[n].doc = Initial(c)
             /\ pc[c] = "stored" => cfg[n] = Initial(c)
    /\ release.at = "signed" /\ ~over[release.to] =>
          sig[release.to] # None /\ sig[release.to].doc = Released

\* The version that is being released is reserved, is the newest, and is stored
\* nowhere; those released before are on record, and one of them is the newest.
Recorded ==
    /\ release # NoRelease =>
          /\ Present(release.app) => Released \in log[release.app]
          /\ \A doc \in log[release.app] : doc.ver <= release.ver
          /\ \A n \in Names : cfg[n] # Released
    /\ \A n \in Names : cfg[n] # None =>
          row[cfg[n].app] # "absent"
    /\ \A n \in Names : cfg[n] # None /\ Present(cfg[n].app) /\ cfg[n].by = "release" =>
          cfg[n] \in log[cfg[n].app]
    /\ \A a \in Creators : OnRecord(a) = {} \/
          \E doc \in OnRecord(a) : \A other \in OnRecord(a) : other.ver <= doc.ver

\* The signatures are of the active keys, unless they were rotated.
KeysMatch ==
    \A n \in Names : sig[n] # None /\ n \notin rotated /\ Present(sig[n].doc.app) =>
        sig[n].key # 0 /\ sig[n].key = key[sig[n].doc.app]

\* While nobody has written anew under the identifier of a served app, its newest
\* recorded config and the signature of that are there.
Whole ==
    \A a \in Creators :
        /\ Kept(a) /\ ~mixed[name[a]]
        /\ \A c \in Creators : Creates(c, name[a]) => pc[c] = "ready"
        /\ ~(release.at = "signed" /\ release.to = name[a])
        => /\ cfg[name[a]] \in OnRecord(a)
           /\ sig[name[a]] # None /\ sig[name[a]].doc = cfg[name[a]]
           /\ \A doc \in OnRecord(a) : doc.ver <= cfg[name[a]].ver

StoreInvariant ==
    /\ RowInvariant /\ StoreTypes /\ Rooted /\ Overlaps /\ Disturbed /\ Elsewhere
    /\ Written /\ Recorded /\ KeysMatch /\ Whole

\* The documents are of the right type, and Newest is what its name says.
LEMMA InitialTyped ==
  ASSUME NEW c \in Creators
  PROVE  Initial(c) \in Docs /\ Initial(c).app = c /\ Initial(c).ver = 1 /\ Initial(c).by = "creation"
BY AppsAssumption DEF Initial, Docs

LEMMA ReleaseShape ==
  ASSUME ReleaseTyped
  PROVE  /\ release = NoRelease => release.at = "none" /\ release.to = None
         /\ release # NoRelease =>
               /\ release.at \in {"reserved", "signed"} /\ release.app \in Creators
               /\ release.to \in Names /\ release.ver \in 1..MaxVersion
BY DEF ReleaseTyped, NoRelease

LEMMA ReleasedTyped ==
  ASSUME ReleaseTyped, release # NoRelease
  PROVE  /\ Released \in Docs /\ Released.app = release.app
         /\ Released.ver = release.ver /\ Released.by = "release"
BY AppsAssumption DEF ReleaseTyped, NoRelease, Released, Docs

LEMMA DocFields ==
  ASSUME NEW doc \in Docs
  PROVE  doc.app \in Creators /\ doc.ver \in Nat /\ doc.ver >= 1 /\ doc.ver <= MaxVersion + 1
BY AppsAssumption DEF Docs

\* Newest is the highest version on record, if there is one.
LEMMA NewestIs ==
  ASSUME StoreTypes, NEW a \in Creators,
         log[a] = {} \/ \E doc \in log[a] : \A other \in log[a] : other.ver <= doc.ver
  PROVE  /\ Newest(a) \in Nat
         /\ \A doc \in log[a] : doc.ver <= Newest(a)
         /\ Newest(a) = 0 \/ \E doc \in log[a] : doc.ver = Newest(a)
<1> DEFINE IsNewest(v) == /\ \A doc \in log[a] : doc.ver <= v
                          /\ v = 0 \/ \E doc \in log[a] : doc.ver = v
<1>1. \A doc \in log[a] : doc.ver \in 0..(MaxVersion + 1)
  BY AppsAssumption, DocFields DEF StoreTypes
<1>2. \E v \in 0..(MaxVersion + 1) : IsNewest(v)
  <2>1. CASE log[a] = {}
    <3>1. 0 \in 0..(MaxVersion + 1) /\ IsNewest(0)
      BY <2>1, AppsAssumption
    <3>2. QED BY <3>1
  <2>2. CASE \E doc \in log[a] : \A other \in log[a] : other.ver <= doc.ver
    BY <1>1, <2>2
  <2>3. QED BY <2>1, <2>2
<1>3. Newest(a) = CHOOSE v \in 0..(MaxVersion + 1) : IsNewest(v)
  BY DEF Newest
<1>4. Newest(a) \in 0..(MaxVersion + 1) /\ IsNewest(Newest(a))
  <2> HIDE DEF IsNewest
  <2>1. QED BY <1>2, <1>3
<1>5. QED BY <1>4, AppsAssumption

\* When an identifier has no writer, and when only one.
LEMMA WritersOf ==
  ASSUME NEW n \in Names
  PROVE  /\ Writers(n) = {} => /\ \A c \in Creators : ~Creates(c, n)
                               /\ release.to # n
                               /\ \A c \in Creators : pc[c] = "inserted" => name[c] # n
         /\ \A c \in Creators : Writers(n) = {c} =>
              /\ \A d \in Creators : Creates(d, n) => d = c
              /\ release.to # n
BY AppsAssumption DEF Writers, Creates


\* What a release starts with.
LEMMA ReleaseStarts ==
  ASSUME StoreTypes, Rooted, Recorded, NEW a \in Creators, StartRelease(a)
  PROVE  /\ release = NoRelease /\ Present(a) /\ name[a] \in Names
         /\ release' = [at |-> "reserved", app |-> a, to |-> name[a], ver |-> Newest(a) + 1]
         /\ release'.ver \in 1..MaxVersion
         /\ Released' \in Docs /\ Released'.app = a /\ Released'.ver = release'.ver
         /\ Released'.by = "release"
         /\ \A doc \in log[a] :
               doc.ver \in Nat /\ doc.ver < release'.ver /\ doc # Released'
         /\ Released' \notin log[a]
         /\ log' = [log EXCEPT ![a] = @ \union {Released'}]
         /\ over' = [over EXCEPT ![name[a]] = Writers(name[a]) # {}]
<1>1. /\ release = NoRelease /\ Present(a) /\ Newest(a) < MaxVersion
      /\ release' = [at |-> "reserved", app |-> a, to |-> name[a], ver |-> Newest(a) + 1]
      /\ log' = [log EXCEPT ![a] = @ \union {Released'}]
      /\ over' = [over EXCEPT ![name[a]] = Writers(name[a]) # {}]
  BY DEF StartRelease, Starts
<1>2. name[a] \in Names
  BY <1>1 DEF Rooted, Present
<1>3. OnRecord(a) = log[a]
  BY <1>1 DEF OnRecord, Releasing
<1>4. /\ Newest(a) \in Nat
      /\ \A doc \in log[a] : doc.ver <= Newest(a)
  BY <1>3, NewestIs DEF Recorded
<1>5. release'.ver \in 1..MaxVersion
  BY <1>1, <1>4, AppsAssumption
<1>6. Released' = [app |-> a, ver |-> release'.ver, by |-> "release"]
  BY <1>1 DEF Released
<1>7. Released' \in Docs
  BY <1>5, <1>6, AppsAssumption DEF Docs
<1>8. \A doc \in log[a] : doc.ver \in Nat /\ doc.ver < release'.ver /\ doc # Released'
  <2>1. \A doc \in log[a] : doc.ver \in Nat
    BY DocFields DEF StoreTypes
  <2>2. release'.ver = Newest(a) + 1
    BY <1>1
  <2>3. Released'.ver = release'.ver
    BY <1>6
  <2>4. \A doc \in log[a] : doc.ver < release'.ver
    BY <1>4, <2>1, <2>2
  <2>5. QED BY <1>5, <2>1, <2>3, <2>4
<1>9. QED BY <1>1, <1>2, <1>5, <1>6, <1>7, <1>8


\* A creation that has its row starts to write under its identifier, and notices
\* whoever else writes there.
LEMMA PrepareMeets ==
  ASSUME RowTypes, StoreTypes, Rooted, NEW c \in Creators, Prepare(c), Present(c)
  PROVE  /\ name[c] \in Names
         /\ \A n \in Names : over[n] => over'[n]
         /\ \A d \in Creators : d # c /\ Creates(d, name[c]) => over'[name[c]]
         /\ release.to = name[c] => over'[name[c]]
         /\ \A d \in Creators, n \in Names :
               Creates(d, n)' <=> Creates(d, n) \/ (d = c /\ n = name[c])
         /\ pc[c] = "inserted" /\ pc' = [pc EXCEPT ![c] = "ready"]
         /\ target' = [target EXCEPT ![c] = name[c]]
         /\ UNCHANGED <<row, name, log, store, release, mixed, moved, rotated, served>>
         /\ key' = [key EXCEPT ![c] = IF @ = 0 THEN 1 ELSE @]
<1> DEFINE Met == over[name[c]] \/ Writers(name[c]) # {c}
<1>1. /\ over' = [over EXCEPT ![name[c]] = Met]
      /\ pc[c] = "inserted" /\ pc' = [pc EXCEPT ![c] = "ready"]
      /\ target' = [target EXCEPT ![c] = name[c]]
      /\ UNCHANGED <<row, name, log, store, release, mixed, moved, rotated, served>>
      /\ key' = [key EXCEPT ![c] = IF @ = 0 THEN 1 ELSE @]
  BY DEF Prepare, store
<1>2. name[c] \in Names
  BY DEF Rooted, Present
<1>3. \A d \in Creators : d # c /\ Creates(d, name[c]) => Met
  BY <1>2, WritersOf
<1>4. release.to = name[c] => Met
  BY <1>2, WritersOf
<1>5. over[name[c]] => Met
  OBVIOUS
<1>6. \A n \in Names : over[n] => over'[n]
  <2> HIDE DEF Met
  <2> QED BY <1>1, <1>5 DEF StoreTypes
<1>7. Met => over'[name[c]]
  <2> HIDE DEF Met
  <2> QED BY <1>1, <1>2 DEF StoreTypes
<1>8. \A d \in Creators, n \in Names :
         Creates(d, n)' <=> Creates(d, n) \/ (d = c /\ n = name[c])
  BY <1>1, <1>2 DEF Creates, RowTypes, StoreTypes
<1> HIDE DEF Met
<1>9. QED BY <1>1, <1>2, <1>3, <1>4, <1>6, <1>7, <1>8

\* A release notices whoever writes under the identifier it starts with.
LEMMA ReleaseMeets ==
  ASSUME StoreTypes, Rooted, Recorded, NEW a \in Creators, StartRelease(a)
  PROVE  /\ \A n \in Names : n # name[a] => over'[n] = over[n]
         /\ \A d \in Creators : Creates(d, name[a]) => over'[name[a]]
         /\ pc[a] = "inserted" => over'[name[a]]
<1> DEFINE Met == Writers(name[a]) # {}
<1>1. name[a] \in Names /\ over' = [over EXCEPT ![name[a]] = Met]
  BY ReleaseStarts
<1>2. /\ \A d \in Creators : Creates(d, name[a]) => Met
      /\ pc[a] = "inserted" => Met
  BY <1>1, WritersOf
<1> HIDE DEF Met
<1>3. Met => over'[name[a]]
  BY <1>1 DEF StoreTypes
<1>4. \A n \in Names : n # name[a] => over'[n] = over[n]
  BY <1>1 DEF StoreTypes
<1>5. QED BY <1>2, <1>3, <1>4


\* What the two signing steps store.
LEMMA CreationSigns ==
  ASSUME RowTypes, StoreTypes, Rooted, NEW c \in Creators, PutSignature(c), key[c] # 0
  PROVE  /\ target[c] \in Names
         /\ sig' = [sig EXCEPT ![target[c]] = [doc |-> Initial(c), key |-> key[c]]]
         /\ sig'[target[c]].doc = Initial(c) /\ sig'[target[c]].key = key[c]
         /\ sig'[target[c]] # None
         /\ rotated' = rotated \ {target[c]}
         /\ pc[c] = "ready" /\ pc' = [pc EXCEPT ![c] = "signed"]
         /\ UNCHANGED <<rows, target, cfg, release, over, mixed, moved, served>>
<1>1. /\ sig' = [sig EXCEPT ![target[c]] = Signature(Initial(c))]
      /\ rotated' = rotated \ {target[c]}
      /\ pc[c] = "ready" /\ pc' = [pc EXCEPT ![c] = "signed"]
      /\ UNCHANGED <<rows, target, cfg, release, over, mixed, moved, served>>
  BY DEF PutSignature
<1>2. target[c] \in Names
  BY <1>1 DEF Rooted
<1>3. Signature(Initial(c)) = [doc |-> Initial(c), key |-> key[c]]
  BY InitialTyped DEF Signature
<1>4. sig'[target[c]] = [doc |-> Initial(c), key |-> key[c]]
  BY <1>1, <1>2, <1>3 DEF StoreTypes
<1>5. sig'[target[c]] \in [doc : Docs, key : Nat]
  BY <1>4, InitialTyped DEF StoreTypes
<1>6. QED BY <1>1, <1>2, <1>3, <1>4, <1>5, NoneIsNoObject

LEMMA ReleaseSigns ==
  ASSUME StoreTypes, ReleaseSignature
  PROVE  /\ release # NoRelease /\ release.to \in Names /\ release.app \in Creators
         /\ sig' = [sig EXCEPT ![release.to] = [doc |-> Released, key |-> key[release.app]]]
         /\ sig'[release.to].doc = Released /\ sig'[release.to].key = key[release.app]
         /\ sig'[release.to] # None /\ key[release.app] # 0
         /\ rotated' = rotated \ {release.to}
         /\ release.at = "reserved" /\ release' = [release EXCEPT !.at = "signed"]
         /\ release'.at = "signed" /\ release'.app = release.app
         /\ release'.to = release.to /\ release'.ver = release.ver
         /\ release' # NoRelease /\ Released' = Released
         /\ UNCHANGED <<rows, creation, cfg, over, mixed, moved, served>>
<1>1. /\ sig' = [sig EXCEPT ![release.to] = Signature(Released)]
      /\ release.at = "reserved" /\ key[release.app] # 0
      /\ rotated' = rotated \ {release.to}
      /\ release' = [release EXCEPT !.at = "signed"]
      /\ UNCHANGED <<rows, creation, cfg, over, mixed, moved, served>>
  BY DEF ReleaseSignature
<1>2. release # NoRelease /\ release.to \in Names /\ release.app \in Creators
  BY <1>1, ReleaseShape DEF StoreTypes
<1>3. Signature(Released) = [doc |-> Released, key |-> key[release.app]]
  BY <1>2, ReleasedTyped DEF Signature, StoreTypes
<1>4. sig'[release.to] = [doc |-> Released, key |-> key[release.app]]
  BY <1>1, <1>2, <1>3 DEF StoreTypes
<1>5. sig'[release.to] \in [doc : Docs, key : Nat]
  BY <1>2, <1>4, ReleasedTyped DEF StoreTypes
<1>6. /\ release'.at = "signed" /\ release'.app = release.app
      /\ release'.to = release.to /\ release'.ver = release.ver
  BY <1>1, <1>2 DEF StoreTypes, ReleaseTyped
<1>7. release' # NoRelease /\ Released' = Released
  BY <1>6 DEF Released, NoRelease
<1>8. QED BY <1>1, <1>2, <1>3, <1>4, <1>5, <1>6, <1>7, NoneIsNoObject


\* The end of a creation and of a release: the identifier is no longer mixed if the
\* writer was alone, and the app is served.
LEMMA CreationCompletes ==
  ASSUME RowTypes, StoreTypes, Rooted, NEW c \in Creators, Log(c), Present(c)
  PROVE  /\ target[c] \in Names /\ Creates(c, target[c]) /\ pc[c] = "stored"
         /\ mixed'[target[c]] <=> over[target[c]] \/ log[c] # {}
         /\ \A n \in Names : n # target[c] => mixed'[n] = mixed[n]
         /\ served' = served \union {c}
         /\ moved' = IF name[c] = target[c] THEN moved \ {c} ELSE moved
         /\ pc' = [pc EXCEPT ![c] = "created"]
         /\ log' = [log EXCEPT ![c] = @ \union {Initial(c)}]
         /\ UNCHANGED <<row, name, key, target, store, release, over, rotated>>
<1> DEFINE Met == over[target[c]] \/ ~(log[c] = {})
<1>1. /\ pc[c] = "stored" /\ pc' = [pc EXCEPT ![c] = "created"]
      /\ mixed' = [mixed EXCEPT ![target[c]] = Met]
      /\ served' = served \union {c}
      /\ moved' = IF name[c] = target[c] THEN moved \ {c} ELSE moved
      /\ log' = [log EXCEPT ![c] = @ \union {Initial(c)}]
      /\ UNCHANGED <<row, name, key, target, store, release, over, rotated>>
  BY DEF Log, Completes
<1>2. target[c] \in Names
  BY <1>1 DEF Rooted
<1>3. mixed'[target[c]] <=> Met
  <2> HIDE DEF Met
  <2> QED BY <1>1, <1>2 DEF StoreTypes
<1>4. \A n \in Names : n # target[c] => mixed'[n] = mixed[n]
  <2> HIDE DEF Met
  <2> QED BY <1>1, <1>2 DEF StoreTypes
<1>5. QED BY <1>1, <1>2, <1>3, <1>4 DEF Creates

LEMMA ReleaseCompletes ==
  ASSUME StoreTypes, ReleaseConfig
  PROVE  /\ release # NoRelease /\ release.to \in Names /\ release.app \in Creators
         /\ release.at = "signed" /\ release' = NoRelease
         /\ mixed'[release.to] <=> over[release.to]
         /\ \A n \in Names : n # release.to => mixed'[n] = mixed[n]
         /\ served' = served \union {release.app}
         /\ moved' = IF name[release.app] = release.to THEN moved \ {release.app} ELSE moved
         /\ cfg' = [cfg EXCEPT ![release.to] = Released]
         /\ UNCHANGED <<rows, creation, sig, over, rotated>>
<1> DEFINE Met == over[release.to] \/ ~TRUE
<1>1. /\ release.at = "signed" /\ release' = NoRelease
      /\ mixed' = [mixed EXCEPT ![release.to] = Met]
      /\ served' = served \union {release.app}
      /\ moved' = IF name[release.app] = release.to THEN moved \ {release.app} ELSE moved
      /\ cfg' = [cfg EXCEPT ![release.to] = Released]
      /\ UNCHANGED <<rows, creation, sig, over, rotated>>
  BY DEF ReleaseConfig, Completes
<1>2. release # NoRelease /\ release.to \in Names /\ release.app \in Creators
  BY <1>1, ReleaseShape DEF StoreTypes
<1>3. mixed'[release.to] <=> Met
  <2> HIDE DEF Met
  <2> QED BY <1>1, <1>2 DEF StoreTypes
<1>4. \A n \in Names : n # release.to => mixed'[n] = mixed[n]
  <2> HIDE DEF Met
  <2> QED BY <1>1, <1>2 DEF StoreTypes
<1>5. QED BY <1>1, <1>2, <1>3, <1>4

\* The types.
LEMMA StoreTypesStep ==
  ASSUME StoreInvariant, [Next]_vars
  PROVE  StoreTypes'
<1> USE AppsAssumption DEF rows, creation, store, budget, history
<1> RowInvariant /\ RowTypes /\ RowTypes' /\ StoreTypes /\ Rooted /\ Recorded
  BY RowTypesStep DEF StoreInvariant, RowInvariant
<1>1. ASSUME NEW c \in Creators, Insert(c) PROVE StoreTypes'
  <2>1. CASE Taken(want[c])
    BY <1>1, <2>1 DEF Insert, StoreTypes, ReleaseTyped
  <2>2. CASE ~Taken(want[c])
    <3>1. over' \in [Names -> BOOLEAN]
      <4> DEFINE Met == Writers(want[c]) # {}
      <4>1. Met \in BOOLEAN
        OBVIOUS
      <4>2. over' = [over EXCEPT ![want[c]] = Met]
        BY <1>1, <2>2 DEF Insert, Starts
      <4> HIDE DEF Met
      <4>3. QED BY <4>1, <4>2, Zenon DEF StoreTypes
    <3>2. QED BY <1>1, <2>2, <3>1 DEF Insert, StoreTypes, ReleaseTyped
  <2>3. QED BY <2>1, <2>2
<1>2. ASSUME NEW c \in Creators, Prepare(c) PROVE StoreTypes'
  <2>1. CASE Present(c)
    <3>1. over' \in [Names -> BOOLEAN]
      <4> DEFINE Met == over[name[c]] \/ Writers(name[c]) # {c}
      <4>1. Met \in BOOLEAN
        OBVIOUS
      <4>2. over' = [over EXCEPT ![name[c]] = Met]
        BY <1>2, <2>1 DEF Prepare
      <4> HIDE DEF Met
      <4>3. QED BY <4>1, <4>2, Zenon DEF StoreTypes
    <3>2. QED BY <1>2, <2>1, <3>1 DEF Prepare, StoreTypes, ReleaseTyped, RowTypes
  <2>2. CASE ~Present(c)
    BY <1>2, <2>2 DEF Prepare, StoreTypes, ReleaseTyped
  <2>3. QED BY <2>1, <2>2
<1>3. ASSUME NEW c \in Creators, PutSignature(c) PROVE StoreTypes'
  <2>1. CASE key[c] # 0
    BY <1>3, <2>1, InitialTyped
    DEF PutSignature, Signature, StoreInvariant, RowTypes, StoreTypes, ReleaseTyped
  <2>2. CASE key[c] = 0
    BY <1>3, <2>2 DEF PutSignature, StoreInvariant, RowTypes, StoreTypes, ReleaseTyped
  <2>3. QED BY <2>1, <2>2
<1>4. ASSUME NEW c \in Creators, PutConfig(c) PROVE StoreTypes'
  BY <1>4, InitialTyped DEF PutConfig, StoreInvariant, RowTypes, StoreTypes, ReleaseTyped
<1>5. ASSUME NEW c \in Creators, StepFails(c) PROVE StoreTypes'
  BY <1>5 DEF StepFails, HalfDone, StoreInvariant, RowTypes, StoreTypes, ReleaseTyped
<1>6. ASSUME NEW c \in Creators, UndoFails(c) PROVE StoreTypes'
  BY <1>6 DEF UndoFails, StoreInvariant, RowTypes, StoreTypes, ReleaseTyped
<1>7. ASSUME NEW c \in Creators, Crash(c) PROVE StoreTypes'
  BY <1>7 DEF Crash, HalfDone, Running, StoreInvariant, RowTypes, StoreTypes, ReleaseTyped
<1>8. ASSUME NEW c \in Creators, Log(c) PROVE StoreTypes'
  <2>1. CASE Present(c)
    <3>1. mixed' \in [Names -> BOOLEAN]
      <4> DEFINE Met == over[target[c]] \/ ~(log[c] = {})
      <4>1. Met \in BOOLEAN
        OBVIOUS
      <4>2. mixed' = [mixed EXCEPT ![target[c]] = Met]
        BY <1>8, <2>1 DEF Log, Completes
      <4> HIDE DEF Met
      <4>3. QED BY <4>1, <4>2, Zenon DEF StoreTypes
    <3>2. log' \in [Creators -> SUBSET Docs]
      BY <1>8, <2>1, InitialTyped DEF Log, StoreTypes, ReleaseTyped
    <3>3. QED BY <1>8, <2>1, <3>1, <3>2 DEF Log, StoreTypes, ReleaseTyped
  <2>2. CASE ~Present(c)
    BY <1>8, <2>2 DEF Log, StoreTypes, ReleaseTyped
  <2>3. QED BY <2>1, <2>2
<1>9. ASSUME NEW c \in Creators, Undo(c) PROVE StoreTypes'
  <2>1. CASE Present(c)
    BY <1>9, <2>1 DEF Undo, Gone, StoreInvariant, RowTypes, StoreTypes, ReleaseTyped
  <2>2. CASE ~Present(c)
    BY <1>9, <2>2 DEF Undo, Gone, StoreInvariant, RowTypes, StoreTypes, ReleaseTyped
  <2>3. QED BY <2>1, <2>2
<1>10. ASSUME NEW a \in Creators, Delete(a) \/ Rotate(a) PROVE StoreTypes'
  BY <1>10 DEF Delete, Gone, Rotate, StoreInvariant, RowTypes, StoreTypes, ReleaseTyped
<1>11. ASSUME NEW a \in Creators, StartRelease(a) PROVE StoreTypes'
  <2>1. ReleaseTyped'
    BY <1>11, ReleaseStarts DEF ReleaseTyped
  <2>2. log' \in [Creators -> SUBSET Docs]
    BY <1>11, ReleaseStarts DEF StoreTypes, ReleaseTyped
  <2>3. over' \in [Names -> BOOLEAN]
    <3>1. (Writers(name[a]) # {}) \in BOOLEAN
      OBVIOUS
    <3>2. QED BY <1>11, <3>1, ReleaseStarts, Zenon DEF StoreTypes
  <2>4. QED BY <1>11, <2>1, <2>2, <2>3 DEF StartRelease, StoreTypes, ReleaseTyped
<1>12. ASSUME NEW c \in Creators, NEW n \in Names, Find(c, n) \/ Rename(c, n) PROVE StoreTypes'
  BY <1>12 DEF Find, Rename, StoreInvariant, RowTypes, StoreTypes, ReleaseTyped
<1>13. CASE ReleaseSignature
  BY <1>13, ReleaseShape, ReleasedTyped
  DEF ReleaseSignature, Signature, StoreInvariant, RowTypes, StoreTypes, ReleaseTyped
<1>14. CASE ReleaseConfig
  BY <1>14, ReleaseShape, ReleasedTyped
  DEF ReleaseConfig, Completes, StoreInvariant, RowTypes, StoreTypes, ReleaseTyped
<1>15. CASE AbortRelease
  <2>1. sig' \in [Names -> [doc : Docs, key : Nat] \union {None}]
    <3>1. sig' = sig \/ sig' = [sig EXCEPT ![release.to] = None]
      BY <1>15 DEF AbortRelease
    <3>2. QED BY <3>1 DEF StoreTypes, ReleaseTyped
  <2>2. mixed' \in [Names -> BOOLEAN]
    <3>1. mixed' = mixed \/ mixed' = [mixed EXCEPT ![release.to] = TRUE]
      BY <1>15 DEF AbortRelease
    <3>2. QED BY <3>1 DEF StoreTypes, ReleaseTyped
  <2>3. log' = [log EXCEPT ![release.app] = @ \ {Released}] /\ release' = NoRelease
    BY <1>15 DEF AbortRelease
  <2>4. log' \in [Creators -> SUBSET Docs]
    BY <2>3 DEF StoreTypes, ReleaseTyped
  <2>5. QED BY <1>15, <2>1, <2>2, <2>3, <2>4 DEF AbortRelease, StoreTypes, ReleaseTyped
<1>16. CASE UNCHANGED vars
  BY <1>16 DEF vars, StoreInvariant, RowTypes, StoreTypes, ReleaseTyped
<1>17. QED
  BY <1>1, <1>2, <1>3, <1>4, <1>5, <1>6, <1>7, <1>8, <1>9, <1>10, <1>11, <1>12, <1>13, <1>14, <1>15, <1>16
  DEF Next, Step, Other

\* Rows and identifiers.
LEMMA RootedStep ==
  ASSUME StoreInvariant, [Next]_vars
  PROVE  Rooted'
<1> USE AppsAssumption DEF rows, creation, store, budget, history
<1> RowInvariant /\ RowTypes /\ RowTypes' /\ StoreTypes /\ Rooted /\ Recorded
  BY RowTypesStep DEF StoreInvariant, RowInvariant
<1> StoreTypes'
  BY StoreTypesStep DEF StoreInvariant
<1>1. ASSUME NEW c \in Creators, Insert(c) PROVE Rooted'
  <2>1. CASE Taken(want[c])
    BY <1>1, <2>1 DEF Insert, Starts, StoreInvariant, RowTypes, StoreTypes, Present, Rooted
  <2>2. CASE ~Taken(want[c])
    BY <1>1, <2>2, ReleaseShape, DocFields
    DEF Insert, Starts, StoreInvariant, RowTypes, StoreTypes, Present, Rooted
  <2>3. QED BY <2>1, <2>2
<1>2. ASSUME NEW c \in Creators, Prepare(c) PROVE Rooted'
  <2>1. CASE Present(c)
    BY <1>2, <2>1 DEF Prepare, StoreInvariant, RowTypes, StoreTypes, Present, Rooted
  <2>2. CASE ~Present(c)
    BY <1>2, <2>2 DEF Prepare, StoreInvariant, RowTypes, StoreTypes, Present, Rooted
  <2>3. QED BY <2>1, <2>2
<1>3. ASSUME NEW c \in Creators, PutSignature(c) PROVE Rooted'
  <2>1. CASE key[c] # 0
    <3>1. \A n \in Names : sig'[n] # None => row[sig'[n].doc.app] # "absent"
      BY <1>3, <2>1, CreationSigns, InitialTyped DEF StoreTypes, Rooted
    <3>2. QED BY <1>3, <2>1, <3>1, CreationSigns DEF PutSignature, Rooted, Present, RowTypes
  <2>2. CASE key[c] = 0
    BY <1>3, <2>2 DEF PutSignature, Rooted, Present, RowTypes
  <2>3. QED BY <2>1, <2>2
<1>4. ASSUME NEW c \in Creators,
             PutConfig(c) \/ StepFails(c) \/ UndoFails(c) \/ Crash(c)
      PROVE  Rooted'
  BY <1>4
  DEF PutConfig, StepFails, HalfDone, UndoFails, Crash, Running, StoreInvariant, RowTypes,
      StoreTypes, Present, Rooted
<1>5. ASSUME NEW c \in Creators, Log(c) PROVE Rooted'
  <2>1. CASE Present(c)
    BY <1>5, <2>1, InitialTyped
    DEF Log, Completes, StoreInvariant, RowTypes, StoreTypes, Present, Rooted
  <2>2. CASE ~Present(c)
    BY <1>5, <2>2 DEF Log, Completes, StoreInvariant, RowTypes, StoreTypes, Present, Rooted
  <2>3. QED BY <2>1, <2>2
<1>6. ASSUME NEW c \in Creators, Undo(c) PROVE Rooted'
  <2>1. CASE Present(c)
    BY <1>6, <2>1, ReleaseShape, DocFields
    DEF Undo, Gone, StoreInvariant, RowTypes, StoreTypes, Present, Rooted
  <2>2. CASE ~Present(c)
    BY <1>6, <2>2 DEF Undo, Gone, StoreInvariant, RowTypes, StoreTypes, Present, Rooted
  <2>3. QED BY <2>1, <2>2
<1>7. ASSUME NEW a \in Creators, Delete(a) \/ Rotate(a) PROVE Rooted'
  BY <1>7, ReleaseShape, DocFields
  DEF Delete, Gone, Rotate, StoreInvariant, RowTypes, StoreTypes, Present, Rooted
<1>8. ASSUME NEW a \in Creators, StartRelease(a) PROVE Rooted'
  <2>1. Present(a) /\ release'.app = a
    BY <1>8, ReleaseStarts
  <2>2. \A c \in Creators : \A doc \in log'[c] : doc.app = c
    BY <1>8, ReleaseStarts DEF StoreTypes, Rooted
  <2>3. QED BY <1>8, <2>1, <2>2 DEF StartRelease, Rooted, Present, StoreTypes
<1>9. ASSUME NEW c \in Creators, NEW n \in Names, Find(c, n) \/ Rename(c, n) PROVE Rooted'
  BY <1>9 DEF Find, Rename, StoreInvariant, RowTypes, StoreTypes, Present, Rooted
<1>10. CASE ReleaseSignature
  <2>1. \A n \in Names : sig'[n] # None => row[sig'[n].doc.app] # "absent"
    BY <1>10, ReleaseSigns, ReleasedTyped DEF StoreTypes, Rooted
  <2>2. QED BY <1>10, <2>1, ReleaseSigns DEF ReleaseSignature, Rooted, Present
<1>11. CASE ReleaseConfig
  BY <1>11, ReleaseShape
  DEF ReleaseConfig, Completes, StoreInvariant, RowTypes, StoreTypes, Present, Rooted
<1>12. CASE AbortRelease
  <2>1. CASE release.at = "signed"
    BY <1>12, <2>1 DEF AbortRelease, StoreInvariant, RowTypes, StoreTypes, Present, Rooted
  <2>2. CASE release.at # "signed"
    BY <1>12, <2>2 DEF AbortRelease, StoreInvariant, RowTypes, StoreTypes, Present, Rooted
  <2>3. QED BY <2>1, <2>2
<1>13. CASE UNCHANGED vars
  BY <1>13 DEF vars, StoreInvariant, RowTypes, StoreTypes, Present, Rooted
<1>14. QED
  BY <1>1, <1>2, <1>3, <1>4, <1>5, <1>6, <1>7, <1>8, <1>9, <1>10, <1>11, <1>12, <1>13
  DEF Next, Step, Other

\* Two writers of an identifier know of each other: the second to start notices.
LEMMA OverlapsStep ==
  ASSUME StoreInvariant, [Next]_vars
  PROVE  Overlaps'
<1> USE AppsAssumption DEF rows, creation, store, budget, history
<1> RowInvariant /\ RowTypes /\ RowTypes' /\ StoreTypes /\ Rooted /\ Recorded
  BY RowTypesStep DEF StoreInvariant, RowInvariant
<1> StoreTypes'
  BY StoreTypesStep DEF StoreInvariant
<1> Rooted'
  BY RootedStep DEF StoreInvariant
<1>1. ASSUME NEW c \in Creators, Insert(c) PROVE Overlaps'
  <2>1. CASE Taken(want[c])
    BY <1>1, <2>1, ReleaseShape
    DEF Insert, Starts, StoreInvariant, RowTypes, StoreTypes, Overlaps, Creates
  <2>2. CASE ~Taken(want[c])
    BY <1>1, <2>2, ReleaseShape, WritersOf
    DEF Insert, Starts, StoreInvariant, RowInvariant, NoRowYet, RowTypes, StoreTypes, Overlaps,
        Creates, Rooted
  <2>3. QED BY <2>1, <2>2
<1>2. ASSUME NEW c \in Creators, Prepare(c) PROVE Overlaps'
  <2>1. CASE Present(c)
    <3>1. \A d, e \in Creators, n \in Names :
             Creates(d, n)' /\ Creates(e, n)' /\ d # e => over'[n]
      BY <1>2, <2>1, PrepareMeets DEF Overlaps, StoreInvariant
    <3>2. \A d \in Creators, n \in Names :
             Creates(d, n)' /\ release # NoRelease /\ release.to = n => over'[n]
      BY <1>2, <2>1, PrepareMeets DEF Overlaps, StoreInvariant
    <3>3. release # NoRelease /\ pc'[release.app] = "inserted" => over'[release.to]
      BY <1>2, <2>1, ReleaseShape, PrepareMeets DEF Overlaps, StoreInvariant, StoreTypes, RowTypes
    <3>4. QED BY <1>2, <2>1, <3>1, <3>2, <3>3, PrepareMeets DEF Overlaps
  <2>2. CASE ~Present(c)
    <3>1. \A d \in Creators, n \in Names : Creates(d, n)' => Creates(d, n)
      BY <1>2, <2>2 DEF Prepare, Creates, RowTypes
    <3>2. release # NoRelease /\ pc'[release.app] = "inserted" => pc[release.app] = "inserted"
      BY <1>2, <2>2, ReleaseShape DEF Prepare, RowTypes, StoreTypes
    <3>3. QED BY <1>2, <2>2, <3>1, <3>2 DEF Prepare, Overlaps, StoreInvariant
  <2>3. QED BY <2>1, <2>2
<1>3. ASSUME NEW c \in Creators, PutSignature(c) PROVE Overlaps'
  <2>1. \A d \in Creators, n \in Names : Creates(d, n)' => Creates(d, n)
    BY <1>3 DEF PutSignature, Creates, RowTypes
  <2>2. release # NoRelease /\ pc'[release.app] = "inserted" => pc[release.app] = "inserted"
    BY <1>3, ReleaseShape DEF PutSignature, RowTypes, StoreTypes
  <2>3. QED BY <1>3, <2>1, <2>2 DEF PutSignature, Overlaps, StoreInvariant
<1>4. ASSUME NEW c \in Creators,
             PutConfig(c) \/ StepFails(c) \/ UndoFails(c) \/ Crash(c)
      PROVE  Overlaps'
  BY <1>4, ReleaseShape
  DEF PutConfig, StepFails, HalfDone, UndoFails, Crash, Running, StoreInvariant, RowTypes,
      StoreTypes, Overlaps, Creates
<1>5. ASSUME NEW c \in Creators, Log(c) PROVE Overlaps'
  <2>1. CASE Present(c)
    BY <1>5, <2>1, ReleaseShape
    DEF Log, Completes, StoreInvariant, RowTypes, StoreTypes, Overlaps, Creates
  <2>2. CASE ~Present(c)
    BY <1>5, <2>2, ReleaseShape
    DEF Log, Completes, StoreInvariant, RowTypes, StoreTypes, Overlaps, Creates
  <2>3. QED BY <2>1, <2>2
<1>6. ASSUME NEW c \in Creators, Undo(c) PROVE Overlaps'
  <2>1. CASE Present(c)
    BY <1>6, <2>1 DEF Undo, Gone, StoreInvariant, RowTypes, StoreTypes, Overlaps, Creates
  <2>2. CASE ~Present(c)
    BY <1>6, <2>2 DEF Undo, Gone, StoreInvariant, RowTypes, StoreTypes, Overlaps, Creates
  <2>3. QED BY <2>1, <2>2
<1>7. ASSUME NEW a \in Creators, Delete(a) \/ Rotate(a) PROVE Overlaps'
  BY <1>7 DEF Delete, Gone, Rotate, StoreInvariant, RowTypes, StoreTypes, Overlaps, Creates
<1>8. ASSUME NEW a \in Creators, StartRelease(a) PROVE Overlaps'
  <2>1. \A d \in Creators, n \in Names : Creates(d, n)' <=> Creates(d, n)
    BY <1>8 DEF StartRelease, Creates
  <2>2. \A c, d \in Creators : Creates(c, name[a]) /\ Creates(d, name[a]) => over'[name[a]]
    BY <1>8, ReleaseMeets
  <2>3. release'.app = a /\ release'.to = name[a] /\ pc' = pc
    BY <1>8, ReleaseStarts DEF StartRelease
  <2>4. QED BY <1>8, <2>1, <2>2, <2>3, ReleaseMeets DEF Overlaps, StoreInvariant
<1>9. ASSUME NEW c \in Creators, NEW n \in Names, Find(c, n) \/ Rename(c, n) PROVE Overlaps'
  BY <1>9, ReleaseShape
  DEF Find, Rename, StoreInvariant, RowTypes, StoreTypes, Overlaps, Creates
<1>10. CASE ReleaseSignature
  BY <1>10, ReleaseShape
  DEF ReleaseSignature, StoreInvariant, RowTypes, StoreTypes, Overlaps, Creates
<1>11. CASE ReleaseConfig
  BY <1>11 DEF ReleaseConfig, Completes, StoreInvariant, RowTypes, StoreTypes, Overlaps, Creates
<1>12. CASE AbortRelease
  <2>1. CASE release.at = "signed"
    BY <1>12, <2>1 DEF AbortRelease, StoreInvariant, RowTypes, StoreTypes, Overlaps, Creates
  <2>2. CASE release.at # "signed"
    BY <1>12, <2>2 DEF AbortRelease, StoreInvariant, RowTypes, StoreTypes, Overlaps, Creates
  <2>3. QED BY <2>1, <2>2
<1>13. CASE UNCHANGED vars
  BY <1>13 DEF vars, StoreInvariant, RowTypes, StoreTypes, Overlaps, Creates
<1>14. QED
  BY <1>1, <1>2, <1>3, <1>4, <1>5, <1>6, <1>7, <1>8, <1>9, <1>10, <1>11, <1>12, <1>13
  DEF Next, Step, Other

\* Another writer, or an app's own creation, makes the identifier mixed when the app
\* is served, and it stays so until that writer is gone.
LEMMA DisturbedStep ==
  ASSUME StoreInvariant, [Next]_vars
  PROVE  Disturbed'
<1> USE AppsAssumption DEF rows, creation, store, budget, history
<1> RowInvariant /\ RowTypes /\ RowTypes' /\ StoreTypes /\ Rooted /\ Recorded
  BY RowTypesStep DEF StoreInvariant, RowInvariant
<1> StoreTypes'
  BY StoreTypesStep DEF StoreInvariant
<1> Rooted'
  BY RootedStep DEF StoreInvariant
<1>1. ASSUME NEW c \in Creators, Insert(c) PROVE Disturbed'
  <2>1. CASE Taken(want[c])
    BY <1>1, <2>1
    DEF Insert, Starts, StoreInvariant, RowTypes, StoreTypes, Present, Disturbed, Kept, Creates
  <2>2. CASE ~Taken(want[c])
    BY <1>1, <2>2, WritersOf
    DEF Insert, Starts, StoreInvariant, RowInvariant, NoRowYet, RowTypes, StoreTypes, Present,
        Disturbed, Kept, Creates, Rooted
  <2>3. QED BY <2>1, <2>2
<1>2. ASSUME NEW c \in Creators, Prepare(c) PROVE Disturbed'
  <2>1. CASE Present(c)
    <3>1. \A a \in Creators : Kept(a)' <=> Kept(a)
      BY <1>2, <2>1, PrepareMeets DEF Kept, Present
    <3>2. \A a \in Creators : Kept(a) /\ a # c => name[a] # name[c]
      BY <2>1 DEF Kept, Present, StoreInvariant, RowInvariant, OneRowPerName
    <3>3. \A a \in Creators : Kept(a) => name[a] \in Names
      BY DEF Kept, Present, Rooted
    <3>4. QED BY <1>2, <2>1, <3>1, <3>2, <3>3, PrepareMeets
              DEF Disturbed, RowTypes, StoreInvariant
  <2>2. CASE ~Present(c)
    BY <1>2, <2>2 DEF Prepare, Disturbed, Kept, Present, Creates, StoreInvariant, RowTypes,
                      StoreTypes
  <2>3. QED BY <2>1, <2>2
<1>3. ASSUME NEW c \in Creators, PutSignature(c) PROVE Disturbed'
  <2>1. CASE key[c] # 0
    BY <1>3, <2>1
    DEF PutSignature, StoreInvariant, RowTypes, StoreTypes, Present, Disturbed, Kept, Creates
  <2>2. CASE key[c] = 0
    BY <1>3, <2>2
    DEF PutSignature, StoreInvariant, RowTypes, StoreTypes, Present, Disturbed, Kept, Creates
  <2>3. QED BY <2>1, <2>2
<1>4. ASSUME NEW c \in Creators,
             PutConfig(c) \/ StepFails(c) \/ UndoFails(c) \/ Crash(c)
      PROVE  Disturbed'
  BY <1>4
  DEF PutConfig, StepFails, HalfDone, UndoFails, Crash, Running, StoreInvariant, RowTypes,
      StoreTypes, Present, Disturbed, Kept, Creates, Rooted
<1>5. ASSUME NEW c \in Creators, Log(c) PROVE Disturbed'
  <2>1. CASE Present(c)
    <3>1. \A d \in Creators, n \in Names : Creates(d, n)' => Creates(d, n) /\ d # c
      BY <1>5, <2>1, CreationCompletes DEF Creates, RowTypes
    <3>2. \A a \in Creators : Present(a) => Present(a)' /\ name[a] \in Names
      BY <1>5, <2>1, CreationCompletes DEF Present, Rooted
    <3>3. ASSUME NEW a \in Creators, a # c, Kept(a)'
          PROVE  Kept(a) /\ (mixed[name[a]] /\ over[name[a]] => mixed'[name[a]])
                         /\ (name[a] # target[c] => mixed'[name[a]] = mixed[name[a]])
                         /\ (name[a] = target[c] => over[name[a]] /\ mixed'[name[a]])
      BY <1>5, <2>1, <3>2, <3>3, CreationCompletes
      DEF Kept, Present, Disturbed, Rooted, StoreInvariant
    <3>4. ASSUME Kept(c)'
          PROVE  /\ name[c] # target[c] => Kept(c) /\ mixed'[name[c]] = mixed[name[c]]
                 /\ name[c] = target[c] /\ over[name[c]] => mixed'[name[c]]
      BY <1>5, <2>1, <3>2, <3>4, CreationCompletes
      DEF Kept, Present, Elsewhere, StoreInvariant
    <3>5. \A d \in Creators : d # c /\ Creates(d, target[c]) => over[target[c]]
      BY <1>5, <2>1, CreationCompletes DEF Overlaps, StoreInvariant
    <3>6. release # NoRelease /\ release.to = target[c] => over[target[c]]
      BY <1>5, <2>1, CreationCompletes DEF Overlaps, StoreInvariant
    <3>7. pc'[c] = "created" /\ (\A a \in Creators : a # c => pc'[a] = pc[a])
          /\ UNCHANGED <<name, target, release, over>>
      BY <1>5, <2>1, CreationCompletes DEF RowTypes
    <3>8. ASSUME NEW a \in Creators, Kept(a)', a # c
          PROVE  /\ \A d \in Creators : d # a /\ Creates(d, name[a])' =>
                       over'[name[a]] /\ mixed'[name[a]]
                 /\ release # NoRelease /\ release.app # a /\ release.to = name[a] =>
                       over'[name[a]] /\ mixed'[name[a]]
                 /\ pc'[a] = "inserted" \/ Creates(a, name[a])' => mixed'[name[a]]
      <4>1. Kept(a) /\ name[a] \in Names
        BY <3>3, <3>8, <3>2 DEF Kept
      <4>2. QED BY <3>1, <3>3, <3>7, <3>8, <4>1 DEF Disturbed, StoreInvariant
    <3>9. ASSUME Kept(c)'
          PROVE  /\ \A d \in Creators : d # c /\ Creates(d, name[c])' =>
                       over'[name[c]] /\ mixed'[name[c]]
                 /\ release # NoRelease /\ release.app # c /\ release.to = name[c] =>
                       over'[name[c]] /\ mixed'[name[c]]
                 /\ ~(pc'[c] = "inserted" \/ Creates(c, name[c])')
      <4>1. name[c] \in Names
        BY <2>1, <3>2
      <4>2. ~(pc'[c] = "inserted" \/ Creates(c, name[c])')
        BY <3>7 DEF Creates
      <4>3. CASE name[c] = target[c]
        BY <3>1, <3>4, <3>5, <3>6, <3>7, <3>9, <4>1, <4>2, <4>3
      <4>4. CASE name[c] # target[c]
        BY <3>1, <3>4, <3>7, <3>9, <4>1, <4>2, <4>4 DEF Disturbed, StoreInvariant
      <4>5. QED BY <4>3, <4>4
    <3>10. QED BY <3>7, <3>8, <3>9 DEF Disturbed
  <2>2. CASE ~Present(c)
    BY <1>5, <2>2 DEF Log, Disturbed, Kept, Present, Creates, StoreInvariant, RowTypes, StoreTypes
  <2>3. QED BY <2>1, <2>2
<1>6. ASSUME NEW c \in Creators, Undo(c) PROVE Disturbed'
  <2>1. CASE Present(c)
    BY <1>6, <2>1
    DEF Undo, Gone, StoreInvariant, RowTypes, StoreTypes, Present, Disturbed, Kept, Creates
  <2>2. CASE ~Present(c)
    BY <1>6, <2>2
    DEF Undo, Gone, StoreInvariant, RowTypes, StoreTypes, Present, Disturbed, Kept, Creates
  <2>3. QED BY <2>1, <2>2
<1>7. ASSUME NEW a \in Creators, Delete(a) \/ Rotate(a) PROVE Disturbed'
  BY <1>7
  DEF Delete, Gone, Rotate, StoreInvariant, RowTypes, StoreTypes, Present, Disturbed, Kept,
      Creates
<1>8. ASSUME NEW a \in Creators, StartRelease(a) PROVE Disturbed'
  <2>1. \A d \in Creators, n \in Names : Creates(d, n)' <=> Creates(d, n)
    BY <1>8 DEF StartRelease, Creates
  <2>2. \A b \in Creators : Kept(b)' <=> Kept(b)
    BY <1>8 DEF StartRelease, Kept, Present
  <2>3. /\ release'.app = a /\ release'.to = name[a] /\ pc' = pc /\ name' = name
        /\ mixed' = mixed
    BY <1>8, ReleaseStarts DEF StartRelease
  <2>4. \A b \in Creators : Kept(b) => name[b] \in Names
    BY DEF Kept, Present, Rooted
  <2>5. \A b \in Creators : Kept(b) /\ b # a => name[b] # name[a]
    BY <1>8, ReleaseStarts DEF Kept, StoreInvariant, RowInvariant, OneRowPerName
  <2>6. QED BY <1>8, <2>1, <2>2, <2>3, <2>4, <2>5, ReleaseMeets DEF Disturbed, StoreInvariant
<1>9. ASSUME NEW c \in Creators, NEW n \in Names, Find(c, n) \/ Rename(c, n) PROVE Disturbed'
  BY <1>9
  DEF Find, Rename, StoreInvariant, RowTypes, StoreTypes, Present, Disturbed, Kept, Creates
<1>10. CASE ReleaseSignature
  BY <1>10, ReleaseShape
  DEF ReleaseSignature, StoreInvariant, RowTypes, StoreTypes, Present, Disturbed, Kept, Creates
<1>11. CASE ReleaseConfig
  <2>1. UNCHANGED <<pc, target, name, row, over>> /\ release' = NoRelease
    BY <1>11, ReleaseCompletes
  <2>2. \A d \in Creators, n \in Names : Creates(d, n)' <=> Creates(d, n)
    BY <2>1 DEF Creates
  <2>3. \A a \in Creators : Kept(a)' => name[a] \in Names
    BY <2>1 DEF Kept, Present, Rooted
  <2>4. ASSUME NEW a \in Creators, Kept(a)', a # release.app
        PROVE  Kept(a) /\ (mixed[name[a]] => mixed'[name[a]])
    <3>1. Kept(a)
      BY <1>11, <2>1, <2>4, ReleaseCompletes DEF Kept, Present
    <3>2. name[a] = release.to => over[name[a]]
      BY <1>11, <2>4, <3>1, ReleaseCompletes DEF Disturbed, StoreInvariant
    <3>3. QED BY <1>11, <2>3, <2>4, <3>1, <3>2, ReleaseCompletes
  <2>5. ASSUME NEW a \in Creators, Kept(a)', a = release.app
        PROVE  /\ name[a] # release.to => Kept(a) /\ mixed[name[a]] /\ mixed'[name[a]]
               /\ name[a] = release.to =>
                     \/ over[name[a]] /\ mixed'[name[a]]
                     \/ ~(pc[a] = "inserted") /\ \A d \in Creators : ~Creates(d, name[a])
    <3>1. CASE name[a] # release.to
      BY <1>11, <2>1, <2>3, <2>5, <3>1, ReleaseCompletes DEF Kept, Present, Elsewhere, StoreInvariant
    <3>2. CASE name[a] = release.to
      BY <1>11, <2>5, <3>2, ReleaseCompletes DEF Overlaps, StoreInvariant
    <3>3. QED BY <3>1, <3>2
  <2>6. QED BY <2>1, <2>2, <2>3, <2>4, <2>5 DEF Disturbed, StoreInvariant
<1>12. CASE AbortRelease
  <2>1. CASE release.at = "signed"
    BY <1>12, <2>1
    DEF AbortRelease, StoreInvariant, RowTypes, StoreTypes, Present, Disturbed, Kept, Creates,
        Rooted
  <2>2. CASE release.at # "signed"
    BY <1>12, <2>2
    DEF AbortRelease, StoreInvariant, RowTypes, StoreTypes, Present, Disturbed, Kept, Creates
  <2>3. QED BY <2>1, <2>2
<1>13. CASE UNCHANGED vars
  BY <1>13 DEF vars, StoreInvariant, RowTypes, StoreTypes, Present, Disturbed, Kept, Creates
<1>14. QED
  BY <1>1, <1>2, <1>3, <1>4, <1>5, <1>6, <1>7, <1>8, <1>9, <1>10, <1>11, <1>12, <1>13
  DEF Next, Step, Other

\* Only a renaming parts an app from what is written for it.
LEMMA ElsewhereStep ==
  ASSUME StoreInvariant, [Next]_vars
  PROVE  Elsewhere'
<1> USE AppsAssumption DEF rows, creation, store, budget, history
<1> RowInvariant /\ RowTypes /\ RowTypes' /\ StoreTypes /\ Rooted /\ Recorded
  BY RowTypesStep DEF StoreInvariant, RowInvariant
<1> StoreTypes'
  BY StoreTypesStep DEF StoreInvariant
<1> Rooted'
  BY RootedStep DEF StoreInvariant
<1>1. ASSUME NEW c \in Creators, Insert(c) PROVE Elsewhere'
  <2>1. CASE Taken(want[c])
    BY <1>1, <2>1 DEF Insert, Starts, StoreInvariant, RowTypes, StoreTypes, Present, Elsewhere
  <2>2. CASE ~Taken(want[c])
    BY <1>1, <2>2
    DEF Insert, Starts, StoreInvariant, RowInvariant, NoRowYet, RowTypes, StoreTypes, Present,
        Elsewhere, Rooted
  <2>3. QED BY <2>1, <2>2
<1>2. ASSUME NEW c \in Creators, Prepare(c) PROVE Elsewhere'
  <2>1. CASE Present(c)
    BY <1>2, <2>1 DEF Prepare, StoreInvariant, RowTypes, StoreTypes, Present, Elsewhere
  <2>2. CASE ~Present(c)
    BY <1>2, <2>2 DEF Prepare, StoreInvariant, RowTypes, StoreTypes, Present, Elsewhere
  <2>3. QED BY <2>1, <2>2
<1>3. ASSUME NEW c \in Creators, PutSignature(c) PROVE Elsewhere'
  <2>1. CASE key[c] # 0
    BY <1>3, <2>1 DEF PutSignature, StoreInvariant, RowTypes, StoreTypes, Present, Elsewhere
  <2>2. CASE key[c] = 0
    BY <1>3, <2>2 DEF PutSignature, StoreInvariant, RowTypes, StoreTypes, Present, Elsewhere
  <2>3. QED BY <2>1, <2>2
<1>4. ASSUME NEW c \in Creators,
             PutConfig(c) \/ StepFails(c) \/ UndoFails(c) \/ Crash(c)
      PROVE  Elsewhere'
  BY <1>4
  DEF PutConfig, StepFails, HalfDone, UndoFails, Crash, Running, StoreInvariant, RowTypes,
      StoreTypes, Present, Elsewhere, Rooted
<1>5. ASSUME NEW c \in Creators, Log(c) PROVE Elsewhere'
  <2>1. CASE Present(c)
    <3>1. SUFFICES ASSUME NEW a \in Creators, Present(a)
                   PROVE  /\ release # NoRelease /\ release.app = a /\ release.to # name[a] =>
                                a \in moved' \/ (a \in served' /\ mixed'[name[a]])
                          /\ pc'[a] \in {"ready", "signed", "stored"} /\ target[a] # name[a] =>
                                a \in moved' \/ a \in served'
      BY <1>5, <2>1, CreationCompletes DEF Elsewhere, Present
    <3>2. name[a] \in Names
      BY <3>1 DEF Rooted, Present
    <3>3. CASE a = c
      <4>1. release # NoRelease /\ release.app = c => log[c] # {}
        BY <2>1 DEF Recorded
      <4>2. pc'[c] = "created"
        BY <1>5, <2>1, CreationCompletes DEF RowTypes
      <4>3. QED BY <1>5, <2>1, <3>1, <3>2, <3>3, <4>1, <4>2, CreationCompletes
                DEF Elsewhere, StoreInvariant
    <3>4. CASE a # c
      <4>1. (a \in moved' <=> a \in moved) /\ (a \in served' <=> a \in served) /\ pc'[a] = pc[a]
        BY <1>5, <2>1, <3>4, CreationCompletes DEF RowTypes
      <4>2. Kept(a) /\ mixed[name[a]] => mixed'[name[a]]
        BY <1>5, <2>1, <3>2, <3>4, CreationCompletes DEF Disturbed, StoreInvariant
      <4>3. QED BY <3>1, <4>1, <4>2 DEF Elsewhere, Kept, StoreInvariant
    <3>5. QED BY <3>3, <3>4
  <2>2. CASE ~Present(c)
    BY <1>5, <2>2 DEF Log, Elsewhere, Present, StoreInvariant, RowTypes, StoreTypes
  <2>3. QED BY <2>1, <2>2
<1>6. ASSUME NEW c \in Creators, Undo(c) PROVE Elsewhere'
  <2>1. CASE Present(c)
    BY <1>6, <2>1 DEF Undo, Gone, StoreInvariant, RowTypes, StoreTypes, Present, Elsewhere
  <2>2. CASE ~Present(c)
    BY <1>6, <2>2 DEF Undo, Gone, StoreInvariant, RowTypes, StoreTypes, Present, Elsewhere
  <2>3. QED BY <2>1, <2>2
<1>7. ASSUME NEW a \in Creators, Delete(a) \/ Rotate(a) PROVE Elsewhere'
  BY <1>7 DEF Delete, Gone, Rotate, StoreInvariant, RowTypes, StoreTypes, Present, Elsewhere
<1>8. ASSUME NEW a \in Creators, StartRelease(a) PROVE Elsewhere'
  BY <1>8 DEF StartRelease, Starts, StoreInvariant, RowTypes, StoreTypes, Present, Elsewhere
<1>9. ASSUME NEW c \in Creators, NEW n \in Names, Find(c, n) \/ Rename(c, n) PROVE Elsewhere'
  BY <1>9 DEF Find, Rename, StoreInvariant, RowTypes, StoreTypes, Present, Elsewhere
<1>10. CASE ReleaseSignature
  BY <1>10, ReleaseShape
  DEF ReleaseSignature, StoreInvariant, RowTypes, StoreTypes, Present, Elsewhere
<1>11. CASE ReleaseConfig
  BY <1>11
  DEF ReleaseConfig, Completes, StoreInvariant, RowTypes, StoreTypes, Present, Elsewhere
<1>12. CASE AbortRelease
  <2>1. CASE release.at = "signed"
    BY <1>12, <2>1 DEF AbortRelease, StoreInvariant, RowTypes, StoreTypes, Present, Elsewhere
  <2>2. CASE release.at # "signed"
    BY <1>12, <2>2 DEF AbortRelease, StoreInvariant, RowTypes, StoreTypes, Present, Elsewhere
  <2>3. QED BY <2>1, <2>2
<1>13. CASE UNCHANGED vars
  BY <1>13 DEF vars, StoreInvariant, RowTypes, StoreTypes, Present, Elsewhere
<1>14. QED
  BY <1>1, <1>2, <1>3, <1>4, <1>5, <1>6, <1>7, <1>8, <1>9, <1>10, <1>11, <1>12, <1>13
  DEF Next, Step, Other

\* Whoever could disturb a lone writer has been noticed.
LEMMA WrittenStep ==
  ASSUME StoreInvariant, [Next]_vars
  PROVE  Written'
<1> USE AppsAssumption DEF rows, creation, store, budget, history
<1> RowInvariant /\ RowTypes /\ RowTypes' /\ StoreTypes /\ Rooted /\ Recorded
  BY RowTypesStep DEF StoreInvariant, RowInvariant
<1> StoreTypes'
  BY StoreTypesStep DEF StoreInvariant
<1> Rooted'
  BY RootedStep DEF StoreInvariant
<1>1. ASSUME NEW c \in Creators, Insert(c) PROVE Written'
  <2>1. CASE Taken(want[c])
    BY <1>1, <2>1
    DEF Insert, Starts, StoreInvariant, RowTypes, StoreTypes, Written, Creates, Released
  <2>2. CASE ~Taken(want[c])
    BY <1>1, <2>2, ReleaseShape, WritersOf
    DEF Insert, Starts, StoreInvariant, RowTypes, StoreTypes, Written, Creates, Released,
        Overlaps
  <2>3. QED BY <2>1, <2>2
<1>2. ASSUME NEW c \in Creators, Prepare(c) PROVE Written'
  <2>1. CASE Present(c)
    BY <1>2, <2>1, ReleaseShape
    DEF Prepare, StoreInvariant, RowTypes, StoreTypes, Written, Creates, Released
  <2>2. CASE ~Present(c)
    BY <1>2, <2>2 DEF Prepare, StoreInvariant, RowTypes, StoreTypes, Written, Creates, Released
  <2>3. QED BY <2>1, <2>2
<1>3. ASSUME NEW c \in Creators, PutSignature(c) PROVE Written'
  <2>1. CASE key[c] # 0
    <3>0. pc[c] = "ready" /\ pc' = [pc EXCEPT ![c] = "signed"] /\ target' = target
      BY <1>3, <2>1, CreationSigns
    <3>1. \A d \in Creators, n \in Names : Creates(d, n)' <=> Creates(d, n)
      BY <3>0 DEF Creates, RowTypes
    <3>2. Creates(c, target[c]) /\ pc'[c] = "signed"
      BY <3>0 DEF Creates, RowTypes
    <3>3. ASSUME NEW d \in Creators, NEW n \in Names,
                 Creates(d, n), pc'[d] # "ready", ~over[n]
          PROVE  /\ sig'[n] # None /\ sig'[n].doc = Initial(d)
                 /\ pc'[d] = "stored" => cfg[n] = Initial(d)
      <4>1. CASE d = c
        BY <1>3, <2>1, <3>2, <3>3, <4>1, CreationSigns DEF Creates
      <4>2. CASE d # c
        <5>1. n # target[c] /\ pc'[d] = pc[d]
          BY <1>3, <2>1, <3>0, <3>2, <3>3, <4>2, CreationSigns DEF Overlaps, StoreInvariant, RowTypes
        <5>2. sig'[n] = sig[n]
          BY <1>3, <2>1, <5>1, CreationSigns DEF StoreTypes
        <5>3. QED BY <3>3, <5>1, <5>2 DEF Written, StoreInvariant
      <4>3. QED BY <4>1, <4>2
    <3>4. ASSUME release.at = "signed", ~over[release.to]
          PROVE  sig'[release.to] # None /\ sig'[release.to].doc = Released
      <4>1. release # NoRelease /\ release.to \in Names
        BY <3>4, ReleaseShape DEF StoreTypes
      <4>2. release.to # target[c]
        BY <1>3, <2>1, <3>2, <3>4, <4>1 DEF Overlaps, StoreInvariant
      <4>3. sig'[release.to] = sig[release.to]
        BY <1>3, <2>1, <4>1, <4>2, CreationSigns DEF StoreTypes
      <4>4. QED BY <3>4, <4>3 DEF Written, StoreInvariant
    <3>5. UNCHANGED <<release, over, cfg>> /\ Released' = Released /\ \A d \in Creators : Initial(d)' = Initial(d)
      BY <1>3, <2>1, CreationSigns DEF Released, Initial
    <3>6. QED BY <3>1, <3>3, <3>4, <3>5 DEF Written
  <2>2. CASE key[c] = 0
    BY <1>3, <2>2 DEF PutSignature, Written, Creates, Initial, Released, StoreInvariant, RowTypes,
                      StoreTypes
  <2>3. QED BY <2>1, <2>2
<1>4. ASSUME NEW c \in Creators,
             PutConfig(c) \/ StepFails(c) \/ UndoFails(c) \/ Crash(c)
      PROVE  Written'
  BY <1>4
  DEF PutConfig, StepFails, HalfDone, UndoFails, Crash, Running, StoreInvariant, RowInvariant,
      RowTypes, StoreTypes, Written, Creates, Released
<1>5. ASSUME NEW c \in Creators, Log(c) PROVE Written'
  <2>1. CASE Present(c)
    BY <1>5, <2>1
    DEF Log, Completes, StoreInvariant, RowTypes, StoreTypes, Written, Creates, Released
  <2>2. CASE ~Present(c)
    BY <1>5, <2>2
    DEF Log, Completes, StoreInvariant, RowTypes, StoreTypes, Written, Creates, Released
  <2>3. QED BY <2>1, <2>2
<1>6. ASSUME NEW c \in Creators, Undo(c) PROVE Written'
  <2>1. CASE Present(c)
    BY <1>6, <2>1
    DEF Undo, Gone, StoreInvariant, RowTypes, StoreTypes, Written, Creates, Released
  <2>2. CASE ~Present(c)
    BY <1>6, <2>2
    DEF Undo, Gone, StoreInvariant, RowTypes, StoreTypes, Written, Creates, Released
  <2>3. QED BY <2>1, <2>2
<1>7. ASSUME NEW a \in Creators, Delete(a) \/ Rotate(a) PROVE Written'
  BY <1>7
  DEF Delete, Gone, Rotate, StoreInvariant, RowTypes, StoreTypes, Written, Creates, Released
<1>8. ASSUME NEW a \in Creators, StartRelease(a) PROVE Written'
  BY <1>8, WritersOf
  DEF StartRelease, Starts, StoreInvariant, RowTypes, StoreTypes, Written, Creates
<1>9. ASSUME NEW c \in Creators, NEW n \in Names, Find(c, n) \/ Rename(c, n) PROVE Written'
  BY <1>9
  DEF Find, Rename, StoreInvariant, RowTypes, StoreTypes, Present, Written, Creates, Released
<1>10. CASE ReleaseSignature
  <2>1. \A d \in Creators, n \in Names : Creates(d, n)' <=> Creates(d, n)
    BY <1>10, ReleaseSigns DEF Creates, creation
  <2>2. \A d \in Creators, n \in Names : Creates(d, n) /\ ~over[n] => sig'[n] = sig[n]
    BY <1>10, ReleaseSigns DEF Overlaps, StoreInvariant, StoreTypes
  <2>3. UNCHANGED <<pc, over, cfg>> /\ \A d \in Creators : Initial(d)' = Initial(d)
    BY <1>10, ReleaseSigns DEF Initial, creation
  <2>4. QED BY <1>10, <2>1, <2>2, <2>3, ReleaseSigns DEF Written, StoreInvariant
<1>11. CASE ReleaseConfig
  <2>1. \A d \in Creators, n \in Names : Creates(d, n)' <=> Creates(d, n)
    BY <1>11, ReleaseCompletes DEF Creates, creation
  <2>2. \A d \in Creators, n \in Names : Creates(d, n) /\ ~over[n] => cfg'[n] = cfg[n]
    BY <1>11, ReleaseCompletes DEF Overlaps, StoreInvariant, StoreTypes
  <2>3. UNCHANGED <<pc, over, sig>> /\ \A d \in Creators : Initial(d)' = Initial(d)
    BY <1>11, ReleaseCompletes DEF Initial, creation
  <2>4. release'.at # "signed"
    BY <1>11, ReleaseCompletes DEF NoRelease
  <2>5. QED BY <2>1, <2>2, <2>3, <2>4 DEF Written, StoreInvariant
<1>12. CASE AbortRelease
  <2>1. release # NoRelease /\ release.to \in Names /\ release' = NoRelease /\ UNCHANGED <<pc, target, over, cfg>>
    BY <1>12, ReleaseShape DEF AbortRelease, StoreTypes
  <2>2. \A d \in Creators, n \in Names : Creates(d, n)' <=> Creates(d, n)
    BY <2>1 DEF Creates
  <2>3. sig' = sig \/ sig' = [sig EXCEPT ![release.to] = None]
    BY <1>12 DEF AbortRelease
  <2>4. \A d \in Creators, n \in Names : Creates(d, n) /\ ~over[n] => sig'[n] = sig[n]
    BY <2>1, <2>3 DEF Overlaps, StoreInvariant, StoreTypes
  <2>5. release'.at # "signed" /\ \A d \in Creators : Initial(d)' = Initial(d)
    BY <2>1 DEF NoRelease, Initial
  <2>6. QED BY <2>1, <2>2, <2>4, <2>5 DEF Written, StoreInvariant
<1>13. CASE UNCHANGED vars
  BY <1>13 DEF vars, StoreInvariant, RowTypes, StoreTypes, Written, Creates, Released
<1>14. QED
  BY <1>1, <1>2, <1>3, <1>4, <1>5, <1>6, <1>7, <1>8, <1>9, <1>10, <1>11, <1>12, <1>13
  DEF Next, Step, Other

\* A version is reserved before it is stored, above all that are on record.
LEMMA RecordedStep ==
  ASSUME StoreInvariant, [Next]_vars
  PROVE  Recorded'
<1> USE AppsAssumption DEF rows, creation, store, budget, history
<1> RowInvariant /\ RowTypes /\ RowTypes' /\ StoreTypes /\ Rooted /\ Recorded
  BY RowTypesStep DEF StoreInvariant, RowInvariant
<1> StoreTypes'
  BY StoreTypesStep DEF StoreInvariant
<1> Rooted'
  BY RootedStep DEF StoreInvariant
<1>1. ASSUME NEW c \in Creators, Insert(c) PROVE Recorded'
  <2>1. CASE Taken(want[c])
    BY <1>1, <2>1
    DEF Insert, Starts, StoreInvariant, RowTypes, StoreTypes, Present, Recorded, OnRecord,
        Releasing, Released
  <2>2. CASE ~Taken(want[c])
    <3>1. pc[c] = "found" /\ row' = [row EXCEPT ![c] = "present"] /\ UNCHANGED <<log, cfg, release>>
      BY <1>1, <2>2 DEF Insert
    <3>2. row[c] = "absent" /\ \A a \in Creators : a # c => row'[a] = row[a]
      BY <3>1 DEF RowInvariant, NoRowYet, RowTypes
    <3>3. release # NoRelease => release.app \in Creators /\ release.app # c
      BY <3>2, ReleaseShape DEF Rooted, StoreTypes
    <3>4. \A m \in Names : cfg[m] # None => cfg[m].app \in Creators /\ cfg[m].app # c
      BY <3>2, DocFields DEF Recorded, StoreTypes
    <3>5. \A a : OnRecord(a)' = OnRecord(a)
      BY <3>1 DEF OnRecord, Releasing, Released
    <3>6. Released' = Released
      BY <3>1 DEF Released
    <3>7. QED BY <3>1, <3>2, <3>3, <3>4, <3>5, <3>6 DEF Recorded, Present
  <2>3. QED BY <2>1, <2>2
<1>2. ASSUME NEW c \in Creators, Prepare(c) PROVE Recorded'
  <2>1. CASE Present(c)
    BY <1>2, <2>1
    DEF Prepare, StoreInvariant, RowTypes, StoreTypes, Present, Recorded, OnRecord, Releasing,
        Released
  <2>2. CASE ~Present(c)
    BY <1>2, <2>2
    DEF Prepare, StoreInvariant, RowTypes, StoreTypes, Present, Recorded, OnRecord, Releasing,
        Released
  <2>3. QED BY <2>1, <2>2
<1>3. ASSUME NEW c \in Creators, PutSignature(c) PROVE Recorded'
  <2>1. CASE key[c] # 0
    BY <1>3, <2>1
    DEF PutSignature, StoreInvariant, RowTypes, StoreTypes, Present, Recorded, OnRecord,
        Releasing, Released
  <2>2. CASE key[c] = 0
    BY <1>3, <2>2
    DEF PutSignature, StoreInvariant, RowTypes, StoreTypes, Present, Recorded, OnRecord,
        Releasing, Released
  <2>3. QED BY <2>1, <2>2
<1>4. ASSUME NEW c \in Creators, PutConfig(c) PROVE Recorded'
  <2>1. target[c] \in Names /\ row[c] # "absent"
    BY <1>4 DEF PutConfig, Rooted
  <2>2. UNCHANGED <<row, log, release>> /\ cfg' = [cfg EXCEPT ![target[c]] = Initial(c)]
    BY <1>4 DEF PutConfig
  <2>3. \A n \in Names : cfg'[n] = cfg[n] \/ cfg'[n] = Initial(c)
    BY <2>1, <2>2 DEF StoreTypes
  <2>4. Released' = Released /\ \A a \in Creators : OnRecord(a)' = OnRecord(a) /\ (Present(a)' <=> Present(a))
    BY <2>2 DEF Released, OnRecord, Releasing, Present
  <2>5. release # NoRelease => Initial(c) # Released
    BY InitialTyped, ReleasedTyped DEF StoreTypes
  <2>6. release # NoRelease => release.app \in Creators
    BY ReleaseShape DEF StoreTypes
  <2>7. \A n \in Names : cfg[n] # None => cfg[n].app \in Creators
    BY DocFields DEF StoreTypes
  <2>8. QED BY <2>1, <2>2, <2>3, <2>4, <2>5, <2>6, <2>7, InitialTyped DEF Recorded
<1>5. ASSUME NEW c \in Creators, StepFails(c) PROVE Recorded'
  BY <1>5
  DEF StepFails, HalfDone, StoreInvariant, RowTypes, StoreTypes, Present, Recorded, OnRecord,
      Releasing, Released
<1>6. ASSUME NEW c \in Creators, UndoFails(c) PROVE Recorded'
  BY <1>6
  DEF UndoFails, StoreInvariant, RowTypes, StoreTypes, Present, Recorded, OnRecord, Releasing,
      Released
<1>7. ASSUME NEW c \in Creators, Crash(c) PROVE Recorded'
  BY <1>7
  DEF Crash, HalfDone, Running, StoreInvariant, RowTypes, StoreTypes, Present, Recorded,
      OnRecord, Releasing, Released
<1>8. ASSUME NEW c \in Creators, Log(c) PROVE Recorded'
  <2>1. CASE Present(c)
    <3>1. /\ UNCHANGED <<row, cfg, release>> /\ log' = [log EXCEPT ![c] = @ \union {Initial(c)}]
          /\ Released' = Released
      BY <1>8, <2>1, CreationCompletes DEF Released, store
    <3>2. \A a \in Creators : log'[a] = IF a = c THEN log[a] \union {Initial(c)} ELSE log[a]
      BY <3>1 DEF StoreTypes
    <3>3. release # NoRelease => Initial(c) # Released /\ release.ver >= 1 /\ release.app \in Creators
      BY InitialTyped, ReleasedTyped, ReleaseShape, AppsAssumption DEF StoreTypes
    <3>4. release # NoRelease => \A doc \in log'[release.app] : doc.ver <= release.ver
      <4>1. release # NoRelease => \A doc \in log[release.app] : doc.ver <= release.ver
        BY DEF Recorded
      <4>2. release # NoRelease => Initial(c).ver <= release.ver
        BY <3>3, InitialTyped, ReleaseShape, AppsAssumption DEF StoreTypes
      <4>3. QED BY <3>2, <3>3, <4>1, <4>2
    <3>5. \A a \in Creators : OnRecord(a)' = IF a = c THEN OnRecord(a) \union {Initial(c)} ELSE OnRecord(a)
      BY <3>1, <3>2, <3>3 DEF OnRecord, Releasing
    <3>6. \A doc \in OnRecord(c) : doc.ver \in Nat /\ doc.ver >= 1
      BY DocFields DEF OnRecord, StoreTypes
    <3>7. \A a \in Creators : OnRecord(a)' = {} \/
             \E doc \in OnRecord(a)' : \A other \in OnRecord(a)' : other.ver <= doc.ver
      <4>1. \A a \in Creators : a # c => OnRecord(a)' = OnRecord(a)
        BY <3>5
      <4>2. OnRecord(c)' = OnRecord(c) \union {Initial(c)}
        BY <3>5
      <4>3. \E doc \in OnRecord(c)' : \A other \in OnRecord(c)' : other.ver <= doc.ver
        <5>1. CASE OnRecord(c) = {}
          BY <4>2, <5>1, InitialTyped
        <5>2. CASE OnRecord(c) # {}
          <6>1. PICK doc \in OnRecord(c) : \A other \in OnRecord(c) : other.ver <= doc.ver
            BY <5>2 DEF Recorded
          <6>2. QED BY <3>6, <4>2, <6>1, InitialTyped
        <5>3. QED BY <5>1, <5>2
      <4>4. QED BY <4>1, <4>3 DEF Recorded
    <3>8. \A n \in Names : cfg[n] # None => cfg[n].app \in Creators
      BY DocFields DEF StoreTypes
    <3>9. QED BY <3>1, <3>2, <3>3, <3>4, <3>7, <3>8 DEF Recorded, Present
  <2>2. CASE ~Present(c)
    BY <1>8, <2>2 DEF Log, Recorded, OnRecord, Releasing, Released, Present, StoreInvariant, RowTypes,
                      StoreTypes
  <2>3. QED BY <2>1, <2>2
<1>9. ASSUME NEW c \in Creators, Undo(c) PROVE Recorded'
  <2>1. CASE Present(c)
    <3>1. /\ row' = [row EXCEPT ![c] = "deleted"] /\ log' = [log EXCEPT ![c] = {}]
          /\ UNCHANGED <<cfg, release>> /\ Released' = Released
      BY <1>9, <2>1 DEF Undo, Gone, Released
    <3>2. \A a \in Creators : OnRecord(a)' = IF a = c THEN {} ELSE OnRecord(a)
      BY <3>1 DEF OnRecord, Releasing, StoreTypes
    <3>3. \A n \in Names : cfg[n] # None => cfg[n].app \in Creators
      BY DocFields DEF StoreTypes
    <3>4. release # NoRelease => release.app \in Creators
      BY ReleaseShape DEF StoreTypes
    <3>5. \A a \in Creators :
             /\ Present(a)' => a # c /\ Present(a)
             /\ row[a] # "absent" => row'[a] # "absent"
             /\ log'[a] \subseteq log[a] /\ (a # c => log'[a] = log[a])
      BY <3>1 DEF Present, RowTypes, StoreTypes
    <3>6. QED BY <3>1, <3>2, <3>3, <3>4, <3>5 DEF Recorded
  <2>2. CASE ~Present(c)
    BY <1>9, <2>2 DEF Undo, Recorded, OnRecord, Releasing, Released, Present, StoreInvariant, RowTypes,
                      StoreTypes
  <2>3. QED BY <2>1, <2>2
<1>10. ASSUME NEW a \in Creators, Delete(a) PROVE Recorded'
  BY <1>10
  DEF Delete, Gone, StoreInvariant, RowTypes, StoreTypes, Present, Recorded, OnRecord,
      Releasing, Released
<1>11. ASSUME NEW a \in Creators, Rotate(a) PROVE Recorded'
  BY <1>11
  DEF Rotate, StoreInvariant, RowTypes, StoreTypes, Present, Recorded, OnRecord, Releasing,
      Released
<1>12. ASSUME NEW a \in Creators, StartRelease(a) PROVE Recorded'
  <2>1. release' # NoRelease /\ release'.app = a /\ UNCHANGED <<row, cfg>>
    BY <1>12, ReleaseStarts DEF StartRelease, NoRelease
  <2>2. \A b \in Creators : log'[b] = IF b = a THEN log[b] \union {Released'} ELSE log[b]
    BY <1>12, ReleaseStarts DEF StoreTypes
  <2>3. \A b \in Creators : OnRecord(b)' = OnRecord(b)
    <3>1. \A b \in Creators : OnRecord(b) = log[b]
      BY <1>12, ReleaseStarts DEF OnRecord, Releasing
    <3>2. \A b \in Creators : OnRecord(b)' = {doc \in log'[b] : ~(b = a /\ doc = Released')}
      BY <2>1 DEF OnRecord, Releasing
    <3>3. Released' \notin log[a]
      BY <1>12, ReleaseStarts
    <3>4. SUFFICES ASSUME NEW b \in Creators PROVE OnRecord(b)' = OnRecord(b)
      OBVIOUS
    <3>5. CASE b = a
      <4>1. OnRecord(b)' = {doc \in log[a] \union {Released'} : doc # Released'}
        BY <2>2, <3>2, <3>5
      <4>2. QED BY <3>1, <3>3, <3>5, <4>1
    <3>6. CASE b # a
      <4>1. OnRecord(b)' = {doc \in log[b] : TRUE}
        BY <2>2, <3>2, <3>6
      <4>2. QED BY <3>1, <4>1
    <3>7. QED BY <3>5, <3>6
  <2>4. \A n \in Names : cfg[n] # None => cfg[n].app \in Creators
    BY DocFields DEF StoreTypes
  <2>5. \A n \in Names : cfg[n] # Released'
    BY <1>12, <2>4, ReleaseStarts, NoneIsNoObject DEF Recorded
  <2>6. \A doc \in log'[a] : doc.ver <= release'.ver
    <3>1. \A doc \in log[a] : doc.ver <= release'.ver
      BY <1>12, ReleaseStarts, AppsAssumption
    <3>2. Released'.ver <= release'.ver
      BY <1>12, ReleaseStarts, AppsAssumption
    <3>3. QED BY <2>2, <3>1, <3>2
  <2>7. \A n \in Names : cfg[n] # None => log[cfg[n].app] \subseteq log'[cfg[n].app]
    BY <2>2, <2>4
  <2>8. release' # NoRelease => /\ Present(a)' => Released' \in log'[a]
                                /\ \A doc \in log'[a] : doc.ver <= release'.ver
                                /\ \A n \in Names : cfg'[n] # Released'
    BY <2>1, <2>2, <2>5, <2>6
  <2>9. QED BY <2>1, <2>3, <2>4, <2>7, <2>8 DEF Recorded, Present
<1>13. ASSUME NEW c \in Creators, NEW n \in Names, Find(c, n) PROVE Recorded'
  BY <1>13
  DEF Find, StoreInvariant, RowInvariant, RowTypes, StoreTypes, Present, Recorded, OnRecord,
      Releasing, Released
<1>14. ASSUME NEW c \in Creators, NEW n \in Names, Rename(c, n) PROVE Recorded'
  BY <1>14
  DEF Rename, StoreInvariant, RowTypes, StoreTypes, Present, Recorded, OnRecord, Releasing,
      Released
<1>15. CASE ReleaseSignature
  BY <1>15, ReleaseShape
  DEF ReleaseSignature, StoreInvariant, RowTypes, StoreTypes, Present, Recorded, OnRecord,
      Releasing, Released
<1>16. CASE ReleaseConfig
  BY <1>16, ReleaseShape
  DEF ReleaseConfig, Completes, StoreInvariant, RowTypes, StoreTypes, Present, Recorded,
      OnRecord, Releasing, Released, Rooted
<1>17. CASE AbortRelease
  <2> DEFINE r == release.app
  <2>1. /\ release # NoRelease /\ release' = NoRelease /\ r \in Creators
        /\ log' = [log EXCEPT ![r] = @ \ {Released}] /\ UNCHANGED <<row, cfg>>
    BY <1>17, ReleaseShape DEF AbortRelease, StoreTypes
  <2>2. \A a \in Creators : log'[a] = IF a = r THEN log[a] \ {Released} ELSE log[a]
    BY <2>1 DEF StoreTypes
  <2>3. \A a \in Creators : Releasing(a) <=> a = r
    BY <2>1 DEF Releasing
  <2>4. \A a \in Creators : OnRecord(a)' = log'[a]
    BY <2>1 DEF OnRecord, Releasing
  <2>5. \A a \in Creators : OnRecord(a) = log'[a]
    <3> HIDE DEF r
    <3>1. QED BY <2>2, <2>3 DEF OnRecord
  <2>6. \A n \in Names : cfg[n] # None => cfg[n].app \in Creators /\ cfg[n] # Released
    BY <2>1, DocFields DEF StoreTypes, Recorded
  <2>7. \A n \in Names : cfg[n] # None => (cfg[n] \in log'[cfg[n].app] <=> cfg[n] \in log[cfg[n].app])
    BY <2>2, <2>6
  <2>8. QED BY <2>1, <2>4, <2>5, <2>6, <2>7 DEF Recorded, Present
<1>18. CASE UNCHANGED vars
  BY <1>18
  DEF vars, StoreInvariant, RowTypes, StoreTypes, Present, Recorded, OnRecord, Releasing,
      Released
<1>19. QED
  BY <1>1, <1>2, <1>3, <1>4, <1>5, <1>6, <1>7, <1>8, <1>9, <1>10, <1>11, <1>12, <1>13, <1>14, <1>15, <1>16, <1>17, <1>18
  DEF Next, Step, Other

\* A key changes only by rotation, and goes only with its row.
LEMMA KeysMatchStep ==
  ASSUME StoreInvariant, [Next]_vars
  PROVE  KeysMatch'
<1> USE AppsAssumption DEF rows, creation, store, budget, history
<1> RowInvariant /\ RowTypes /\ RowTypes' /\ StoreTypes /\ Rooted /\ Recorded
  BY RowTypesStep DEF StoreInvariant, RowInvariant
<1> StoreTypes'
  BY StoreTypesStep DEF StoreInvariant
<1> Rooted'
  BY RootedStep DEF StoreInvariant
<1>1. ASSUME NEW c \in Creators, Insert(c) PROVE KeysMatch'
  <2>1. CASE Taken(want[c])
    BY <1>1, <2>1 DEF Insert, Starts, StoreInvariant, RowTypes, StoreTypes, Present, KeysMatch
  <2>2. CASE ~Taken(want[c])
    BY <1>1, <2>2, DocFields
    DEF Insert, Starts, StoreInvariant, RowInvariant, NoRowYet, RowTypes, StoreTypes, Present,
        KeysMatch, Rooted
  <2>3. QED BY <2>1, <2>2
<1>2. ASSUME NEW c \in Creators, Prepare(c) PROVE KeysMatch'
  <2>1. CASE Present(c)
    BY <1>2, <2>1, DocFields
    DEF Prepare, StoreInvariant, RowTypes, StoreTypes, Present, KeysMatch
  <2>2. CASE ~Present(c)
    BY <1>2, <2>2 DEF Prepare, StoreInvariant, RowTypes, StoreTypes, Present, KeysMatch
  <2>3. QED BY <2>1, <2>2
<1>3. ASSUME NEW c \in Creators, PutSignature(c) PROVE KeysMatch'
  <2>1. CASE key[c] # 0
    BY <1>3, <2>1, InitialTyped
    DEF PutSignature, Signature, StoreInvariant, RowTypes, StoreTypes, Present, KeysMatch
  <2>2. CASE key[c] = 0
    BY <1>3, <2>2 DEF PutSignature, StoreInvariant, RowTypes, StoreTypes, Present, KeysMatch
  <2>3. QED BY <2>1, <2>2
<1>4. ASSUME NEW c \in Creators,
             PutConfig(c) \/ StepFails(c) \/ UndoFails(c) \/ Crash(c)
      PROVE  KeysMatch'
  BY <1>4
  DEF PutConfig, StepFails, HalfDone, UndoFails, Crash, Running, StoreInvariant, RowTypes,
      StoreTypes, Present, KeysMatch
<1>5. ASSUME NEW c \in Creators, Log(c) PROVE KeysMatch'
  <2>1. CASE Present(c)
    BY <1>5, <2>1 DEF Log, Completes, StoreInvariant, RowTypes, StoreTypes, Present, KeysMatch
  <2>2. CASE ~Present(c)
    BY <1>5, <2>2 DEF Log, Completes, StoreInvariant, RowTypes, StoreTypes, Present, KeysMatch
  <2>3. QED BY <2>1, <2>2
<1>6. ASSUME NEW c \in Creators, Undo(c) PROVE KeysMatch'
  <2>1. CASE Present(c)
    BY <1>6, <2>1, DocFields
    DEF Undo, Gone, StoreInvariant, RowTypes, StoreTypes, Present, KeysMatch
  <2>2. CASE ~Present(c)
    BY <1>6, <2>2 DEF Undo, Gone, StoreInvariant, RowTypes, StoreTypes, Present, KeysMatch
  <2>3. QED BY <2>1, <2>2
<1>7. ASSUME NEW a \in Creators, Delete(a) \/ Rotate(a) PROVE KeysMatch'
  BY <1>7, DocFields
  DEF Delete, Gone, Rotate, StoreInvariant, RowTypes, StoreTypes, Present, KeysMatch
<1>8. ASSUME NEW a \in Creators, StartRelease(a) PROVE KeysMatch'
  BY <1>8 DEF StartRelease, Starts, StoreInvariant, RowTypes, StoreTypes, Present, KeysMatch
<1>9. ASSUME NEW c \in Creators, NEW n \in Names, Find(c, n) \/ Rename(c, n) PROVE KeysMatch'
  BY <1>9 DEF Find, Rename, StoreInvariant, RowTypes, StoreTypes, Present, KeysMatch
<1>10. CASE ReleaseSignature
  BY <1>10, ReleaseShape, ReleasedTyped
  DEF ReleaseSignature, Signature, StoreInvariant, RowTypes, StoreTypes, Present, KeysMatch
<1>11. CASE ReleaseConfig
  BY <1>11
  DEF ReleaseConfig, Completes, StoreInvariant, RowTypes, StoreTypes, Present, KeysMatch
<1>12. CASE AbortRelease
  <2>1. CASE release.at = "signed"
    BY <1>12, <2>1 DEF AbortRelease, StoreInvariant, RowTypes, StoreTypes, Present, KeysMatch
  <2>2. CASE release.at # "signed"
    BY <1>12, <2>2 DEF AbortRelease, StoreInvariant, RowTypes, StoreTypes, Present, KeysMatch
  <2>3. QED BY <2>1, <2>2
<1>13. CASE UNCHANGED vars
  BY <1>13 DEF vars, StoreInvariant, RowTypes, StoreTypes, Present, KeysMatch
<1>14. QED
  BY <1>1, <1>2, <1>3, <1>4, <1>5, <1>6, <1>7, <1>8, <1>9, <1>10, <1>11, <1>12, <1>13
  DEF Next, Step, Other

\* A writer that was alone has left its pair behind, on record and the newest.
LEMMA WholeStep ==
  ASSUME StoreInvariant, [Next]_vars
  PROVE  Whole'
<1> USE AppsAssumption DEF rows, creation, store, budget, history
<1> RowInvariant /\ RowTypes /\ RowTypes' /\ StoreTypes /\ Rooted /\ Recorded
  BY RowTypesStep DEF StoreInvariant, RowInvariant
<1> StoreTypes'
  BY StoreTypesStep DEF StoreInvariant
<1> Rooted'
  BY RootedStep DEF StoreInvariant
<1>1. ASSUME NEW c \in Creators, Insert(c) PROVE Whole'
  <2>1. CASE Taken(want[c])
    <3>1. /\ pc[c] = "found" /\ pc' = [pc EXCEPT ![c] = "failed"]
          /\ UNCHANGED <<row, name, target, log, cfg, sig, release, mixed, served, moved>>
      BY <1>1, <2>1 DEF Insert
    <3>2. \A d \in Creators : \A m :
             /\ Creates(d, m)' <=> Creates(d, m)
             /\ Creates(d, m) => pc'[d] = pc[d]
      BY <3>1 DEF Creates, RowTypes
    <3>3. \A a : OnRecord(a)' = OnRecord(a) /\ (Kept(a)' <=> Kept(a))
      BY <3>1 DEF OnRecord, Releasing, Released, Kept, Present
    <3>4. QED BY <3>1, <3>2, <3>3 DEF StoreInvariant, Whole
  <2>2. CASE ~Taken(want[c])
    <3>1. /\ pc[c] = "found" /\ pc' = [pc EXCEPT ![c] = "inserted"]
          /\ row' = [row EXCEPT ![c] = "present"] /\ name' = [name EXCEPT ![c] = want[c]]
          /\ UNCHANGED <<target, log, cfg, sig, release, mixed, served, moved>>
      BY <1>1, <2>2 DEF Insert
    <3>2. \A a \in Creators : Kept(a)' => a # c /\ Kept(a) /\ name'[a] = name[a]
      <4>1. row[c] = "absent"
        BY <3>1 DEF RowInvariant, NoRowYet
      <4>2. c \notin served
        BY <4>1 DEF Rooted
      <4>3. QED BY <3>1, <4>2 DEF Kept, Present, RowTypes
    <3>3. \A d \in Creators : \A m :
             /\ Creates(d, m)' <=> Creates(d, m)
             /\ Creates(d, m) => pc'[d] = pc[d]
      BY <3>1 DEF Creates, RowTypes
    <3>4. \A a : OnRecord(a)' = OnRecord(a)
      BY <3>1 DEF OnRecord, Releasing, Released
    <3>5. QED BY <3>1, <3>2, <3>3, <3>4 DEF StoreInvariant, Whole
  <2>3. QED BY <2>1, <2>2
<1>2. ASSUME NEW c \in Creators, Prepare(c) PROVE Whole'
  <2>1. CASE Present(c)
    <3>1. /\ pc[c] = "inserted" /\ pc' = [pc EXCEPT ![c] = "ready"]
          /\ target' = [target EXCEPT ![c] = name[c]]
          /\ UNCHANGED <<row, name, log, cfg, sig, release, mixed, served, moved>>
      BY <1>2, <2>1 DEF Prepare
    <3>2. /\ pc'[c] = "ready"
          /\ \A d \in Creators : d # c => pc'[d] = pc[d] /\ target'[d] = target[d]
      BY <3>1 DEF RowTypes, StoreTypes
    <3>3. \A d \in Creators : \A m :
             Creates(d, m) => d # c /\ Creates(d, m)' /\ pc'[d] = pc[d]
      BY <3>1, <3>2 DEF Creates
    <3>4. \A a : OnRecord(a)' = OnRecord(a) /\ (Kept(a)' <=> Kept(a))
      BY <3>1 DEF OnRecord, Releasing, Released, Kept, Present
    <3>5. QED BY <3>1, <3>3, <3>4 DEF StoreInvariant, Whole
  <2>2. CASE ~Present(c)
    <3>1. /\ pc[c] = "inserted" /\ pc' = [pc EXCEPT ![c] = "undo"]
          /\ UNCHANGED <<row, name, target, log, cfg, sig, release, mixed, served, moved>>
      BY <1>2, <2>2 DEF Prepare
    <3>2. \A d \in Creators : \A m :
             /\ Creates(d, m)' <=> Creates(d, m)
             /\ Creates(d, m) => pc'[d] = pc[d]
      BY <3>1 DEF Creates, RowTypes
    <3>3. \A a : OnRecord(a)' = OnRecord(a) /\ (Kept(a)' <=> Kept(a))
      BY <3>1 DEF OnRecord, Releasing, Released, Kept, Present
    <3>4. QED BY <3>1, <3>2, <3>3 DEF StoreInvariant, Whole
  <2>3. QED BY <2>1, <2>2
<1>3. ASSUME NEW c \in Creators, PutSignature(c) PROVE Whole'
  <2>1. CASE key[c] # 0
    BY <1>3, <2>1
    DEF PutSignature, StoreInvariant, RowTypes, StoreTypes, Present, Whole, Kept, Creates,
        OnRecord, Releasing, Released, Rooted, Disturbed
  <2>2. CASE key[c] = 0
    BY <1>3, <2>2
    DEF PutSignature, StoreInvariant, RowTypes, StoreTypes, Present, Whole, Kept, Creates,
        OnRecord, Releasing, Released
  <2>3. QED BY <2>1, <2>2
<1>4. ASSUME NEW c \in Creators,
             PutConfig(c) \/ StepFails(c) \/ UndoFails(c) \/ Crash(c)
      PROVE  Whole'
  BY <1>4
  DEF PutConfig, StepFails, HalfDone, UndoFails, Crash, Running, StoreInvariant, RowTypes,
      StoreTypes, Present, Whole, Kept, Creates, OnRecord, Releasing, Released, Rooted,
      Disturbed
<1>5. ASSUME NEW c \in Creators, Log(c) PROVE Whole'
  <2>1. CASE Present(c)
    <3> DEFINE n == target[c]
    <3>1. /\ pc[c] = "stored" /\ Creates(c, n) /\ n \in Names
          /\ pc' = [pc EXCEPT ![c] = "created"] /\ log' = [log EXCEPT ![c] = @ \union {Initial(c)}]
          /\ mixed' = [mixed EXCEPT ![n] = over[n] \/ ~(log[c] = {})]
          /\ served' = served \union {c}
          /\ moved' = IF name[c] = n THEN moved \ {c} ELSE moved
          /\ UNCHANGED <<row, name, target, cfg, sig, release, over>>
      BY <1>5, <2>1 DEF Log, Completes, Creates, Rooted
    <3>2. /\ mixed'[n] <=> over[n] \/ log[c] # {}
          /\ \A m \in Names : m # n => (mixed'[m] <=> mixed[m])
      BY <3>1 DEF StoreTypes
    <3>3. /\ log'[c] = log[c] \union {Initial(c)}
          /\ \A a \in Creators : a # c => log'[a] = log[a]
      BY <3>1 DEF StoreTypes
    <3>4. \A d \in Creators : \A m : Creates(d, m)' <=> d # c /\ Creates(d, m)
      BY <3>1 DEF Creates, RowTypes
    <3>5. \A d \in Creators : d # c => pc'[d] = pc[d]
      BY <3>1 DEF RowTypes
    <3>6. Released' = Released /\ \A a : Releasing(a)' <=> Releasing(a)
      BY <3>1 DEF Released, Releasing
    <3>7. /\ OnRecord(c)' = OnRecord(c) \union {Initial(c)}
          /\ \A a \in Creators : a # c => OnRecord(a)' = OnRecord(a)
      <4>1. Initial(c) # Released
        BY DEF Initial, Released
      <4>2. QED BY <3>3, <3>6, <4>1 DEF OnRecord
    <3> SUFFICES ASSUME NEW a \in Creators, Kept(a)', ~mixed'[name[a]],
                        \A d \in Creators : Creates(d, name[a])' => pc'[d] = "ready",
                        ~(release.at = "signed" /\ release.to = name[a])
                 PROVE  /\ cfg[name[a]] \in OnRecord(a)'
                        /\ sig[name[a]] # None /\ sig[name[a]].doc = cfg[name[a]]
                        /\ \A doc \in OnRecord(a)' : doc.ver <= cfg[name[a]].ver
      BY <3>1 DEF Whole
    <3> HIDE DEF n
    <3>8. Present(a) /\ name[a] \in Names
      BY <3>1 DEF Kept, Present, Rooted
    <3>9. CASE a = c /\ name[a] = n
      <4>1. ~over[n] /\ log[c] = {}
        BY <3>2, <3>9
      <4>2. sig[n] # None /\ sig[n].doc = Initial(c) /\ cfg[n] = Initial(c)
        BY <3>1, <4>1 DEF StoreInvariant, Written
      <4>3. OnRecord(c)' = {Initial(c)}
        BY <3>7, <4>1 DEF OnRecord
      <4>4. QED BY <3>9, <4>2, <4>3, InitialTyped
    <3>10. CASE a # c /\ name[a] = n
      <4>1. Kept(a)
        BY <3>1, <3>10 DEF Kept, Present
      <4>2. over[n]
        BY <3>1, <3>10, <4>1 DEF StoreInvariant, Disturbed
      <4>3. QED BY <3>2, <3>10, <4>2
    <3>11. CASE name[a] # n
      <4>1. Kept(a)
        BY <3>1, <3>8, <3>11 DEF Kept, StoreInvariant, Elsewhere, n
      <4>2. ~Creates(c, name[a])
        BY <3>1, <3>11 DEF Creates, n
      <4>3. \A d \in Creators : Creates(d, name[a]) => pc[d] = "ready"
        BY <3>1, <3>4, <3>5, <4>2 DEF Creates
      <4>4. ~mixed[name[a]]
        BY <3>2, <3>8, <3>11
      <4>5. /\ cfg[name[a]] \in OnRecord(a)
            /\ sig[name[a]] # None /\ sig[name[a]].doc = cfg[name[a]]
            /\ \A doc \in OnRecord(a) : doc.ver <= cfg[name[a]].ver
        BY <4>1, <4>3, <4>4 DEF StoreInvariant, Whole
      <4>6. Initial(c).ver <= cfg[name[a]].ver
        <5>1. cfg[name[a]] \in Docs
          BY <4>5 DEF OnRecord, StoreTypes
        <5>2. QED BY <5>1, DocFields, InitialTyped
      <4>7. QED BY <3>7, <4>5, <4>6
    <3>12. QED BY <3>9, <3>10, <3>11
  <2>2. CASE ~Present(c)
    BY <1>5, <2>2
    DEF Log, Completes, StoreInvariant, RowTypes, StoreTypes, Present, Whole, Kept, OnRecord,
        Releasing, Released, Disturbed
  <2>3. QED BY <2>1, <2>2
<1>6. ASSUME NEW c \in Creators, Undo(c) PROVE Whole'
  <2>1. CASE Present(c)
    BY <1>6, <2>1
    DEF Undo, Gone, StoreInvariant, RowTypes, StoreTypes, Present, Whole, Kept, Creates,
        OnRecord, Releasing, Released
  <2>2. CASE ~Present(c)
    BY <1>6, <2>2
    DEF Undo, Gone, StoreInvariant, RowTypes, StoreTypes, Present, Whole, Kept, Creates,
        OnRecord, Releasing, Released
  <2>3. QED BY <2>1, <2>2
<1>7. ASSUME NEW a \in Creators, Delete(a) \/ Rotate(a) PROVE Whole'
  BY <1>7
  DEF Delete, Gone, Rotate, StoreInvariant, RowTypes, StoreTypes, Present, Whole, Kept,
      Creates, OnRecord, Releasing, Released
<1>8. ASSUME NEW a \in Creators, StartRelease(a) PROVE Whole'
  <2>1. UNCHANGED <<pc, target, row, name, served, moved, mixed, cfg, sig>>
    BY <1>8 DEF StartRelease
  <2>2. /\ \A b \in Creators, n \in Names : Creates(b, n)' <=> Creates(b, n)
        /\ \A b \in Creators : Kept(b)' <=> Kept(b)
    BY <2>1 DEF Creates, Kept, Present
  <2>3. \A b \in Creators : log'[b] = IF b = a THEN log[b] \union {Released'} ELSE log[b]
    BY <1>8, ReleaseStarts DEF StoreTypes
  <2>4. release' # NoRelease /\ release'.app = a
    BY <1>8, ReleaseStarts DEF NoRelease
  <2>5. \A b \in Creators : OnRecord(b)' = OnRecord(b)
    <3>1. \A b \in Creators : OnRecord(b) = log[b]
      BY <1>8, ReleaseStarts DEF OnRecord, Releasing
    <3>2. \A b \in Creators : OnRecord(b)' = {doc \in log'[b] : ~(b = a /\ doc = Released')}
      BY <2>4 DEF OnRecord, Releasing
    <3>3. Released' \notin log[a]
      BY <1>8, ReleaseStarts
    <3>4. SUFFICES ASSUME NEW b \in Creators PROVE OnRecord(b)' = OnRecord(b)
      OBVIOUS
    <3>5. CASE b = a
      <4>1. OnRecord(b)' = {doc \in log[a] \union {Released'} : doc # Released'}
        BY <2>3, <3>2, <3>5
      <4>2. QED BY <3>1, <3>3, <3>5, <4>1
    <3>6. CASE b # a
      <4>1. OnRecord(b)' = {doc \in log[b] : TRUE}
        BY <2>3, <3>2, <3>6
      <4>2. QED BY <3>1, <4>1
    <3>7. QED BY <3>5, <3>6
  <2>6. ~(release.at = "signed")
    BY <1>8, ReleaseStarts DEF NoRelease
  <2>7. \A b \in Creators : Kept(b) => name[b] \in Names
    BY DEF Kept, Present, Rooted
  <2>8. QED BY <2>1, <2>2, <2>5, <2>6, <2>7 DEF Whole, StoreInvariant
<1>9. ASSUME NEW c \in Creators, NEW n \in Names, Find(c, n) \/ Rename(c, n) PROVE Whole'
  BY <1>9
  DEF Find, Rename, StoreInvariant, RowTypes, StoreTypes, Present, Whole, Kept, Creates,
      OnRecord, Releasing, Released
<1>10. CASE ReleaseSignature
  BY <1>10, ReleaseShape
  DEF ReleaseSignature, StoreInvariant, RowTypes, StoreTypes, Present, Whole, Kept, Creates,
      OnRecord, Releasing, Elsewhere
<1>11. CASE ReleaseConfig
  BY <1>11, ReleaseShape
  DEF ReleaseConfig, Completes, StoreInvariant, RowTypes, StoreTypes, Present, Whole, Kept,
      OnRecord, Releasing, Released, Disturbed, Elsewhere, Written, Recorded
<1>12. CASE AbortRelease
  <2>1. CASE release.at = "signed"
    BY <1>12, <2>1
    DEF AbortRelease, StoreInvariant, RowTypes, StoreTypes, Present, Whole, Kept, Creates,
        OnRecord, Releasing, Rooted
  <2>2. CASE release.at # "signed"
    BY <1>12, <2>2
    DEF AbortRelease, StoreInvariant, RowTypes, StoreTypes, Present, Whole, Kept, Creates,
        OnRecord, Releasing
  <2>3. QED BY <2>1, <2>2
<1>13. CASE UNCHANGED vars
  BY <1>13
  DEF vars, StoreInvariant, RowTypes, StoreTypes, Present, Whole, Kept, Creates, OnRecord,
      Releasing, Released
<1>14. QED
  BY <1>1, <1>2, <1>3, <1>4, <1>5, <1>6, <1>7, <1>8, <1>9, <1>10, <1>11, <1>12, <1>13
  DEF Next, Step, Other

\* Every step keeps the invariant, and it holds in every reachable state.
THEOREM StoresInvariant ==
  Spec => []StoreInvariant
<1>1. Init => StoreInvariant
  <2> SUFFICES ASSUME Init PROVE StoreInvariant
    OBVIOUS
  <2>1. RowInvariant
    BY DEF Init, RowInvariant, RowTypes, NoRowYet, OneRowPerName, FailureLeavesNoApp,
           Present
  <2>2. StoreTypes /\ Rooted
    BY AppsAssumption DEF Init, StoreTypes, ReleaseTyped, Rooted, Present
  <2>3. Overlaps /\ Disturbed /\ Elsewhere /\ Written
    BY AppsAssumption DEF Init, Overlaps, Disturbed, Elsewhere, Written, Creates, Kept, Present,
                          NoRelease
  <2>4. Recorded /\ KeysMatch /\ Whole
    BY AppsAssumption DEF Init, Recorded, KeysMatch, Whole, Kept, Present, OnRecord
  <2>5. QED BY <2>1, <2>2, <2>3, <2>4 DEF StoreInvariant
<1>2. StoreInvariant /\ [Next]_vars => StoreInvariant'
  <2> SUFFICES ASSUME StoreInvariant, [Next]_vars PROVE StoreInvariant'
    OBVIOUS
  <2>1. RowInvariant'
    BY RowStep DEF StoreInvariant
  <2>2. QED
    BY <2>1, StoreTypesStep, RootedStep, OverlapsStep, DisturbedStep, ElsewhereStep,
       WrittenStep, RecordedStep, KeysMatchStep, WholeStep DEF StoreInvariant
<1>3. QED BY <1>1, <1>2, PTL DEF Spec

\* Where nobody writes, what an app has on record is its whole log, and the newest of it
\* is what is stored.
LEMMA SettledStores ==
  ASSUME StoreInvariant, NEW a \in Creators, Settled(a)
  PROVE  /\ name[a] \in Names /\ Present(a)
         /\ cfg[name[a]] \in log[a] /\ cfg[name[a]].ver = Newest(a)
         /\ cfg[name[a]] # None /\ cfg[name[a]].app = a
         /\ sig[name[a]] # None /\ sig[name[a]].doc = cfg[name[a]]
<1>1. Kept(a) /\ ~mixed[name[a]] /\ Writers(name[a]) = {} /\ Present(a)
  BY DEF Settled, Kept
<1>2. name[a] \in Names
  BY <1>1 DEF StoreInvariant, Rooted, Present
<1>3. release.to # name[a] /\ \A c \in Creators : ~Creates(c, name[a])
  BY <1>1, <1>2, WritersOf
<1>4. /\ cfg[name[a]] \in OnRecord(a)
      /\ sig[name[a]] # None /\ sig[name[a]].doc = cfg[name[a]]
      /\ \A doc \in OnRecord(a) : doc.ver <= cfg[name[a]].ver
  BY <1>1, <1>3 DEF StoreInvariant, Whole
<1>5. ~Releasing(a)
  BY <1>1, <1>3 DEF StoreInvariant, Elsewhere, Releasing, Kept
<1>6. OnRecord(a) = log[a]
  BY <1>5 DEF OnRecord
<1>7. cfg[name[a]] \in Docs /\ cfg[name[a]].app = a
  BY <1>4, <1>6 DEF StoreInvariant, StoreTypes, Rooted
<1>8. \A doc \in log[a] : doc.ver \in Nat /\ doc.ver >= 1
  BY DocFields DEF StoreInvariant, StoreTypes
<1>9. /\ Newest(a) \in Nat
      /\ \A doc \in log[a] : doc.ver <= Newest(a)
      /\ Newest(a) = 0 \/ \E doc \in log[a] : doc.ver = Newest(a)
  BY <1>4, <1>6, NewestIs DEF StoreInvariant
<1>10. cfg[name[a]].ver = Newest(a)
  BY <1>4, <1>6, <1>8, <1>9
<1>11. QED BY <1>1, <1>2, <1>4, <1>6, <1>7, <1>10, NoneIsNoObject

\* Whatever creations, releases, renamings and deletions came and went under its
\* identifier, a settled app serves its newest version (publishInitialConfig, the
\* rollback in POST /api/apps, the publish route).
THEOREM NewestIsServed ==
  Spec => []ServedIsNewest
<1>1. StoreInvariant => ServedIsNewest
  BY SettledStores DEF ServedIsNewest
<1>2. QED BY <1>1, StoresInvariant, PTL

\* An SDK built with the plist of a settled app can open what is served there, unless
\* the key was rotated since it was signed (GET /api/bootstrap/plist).
THEOREM PlistOpensWhatIsServed ==
  Spec => []PlistOpensConfig
<1>1. ASSUME StoreInvariant, NEW a \in Creators, Settled(a), name[a] \notin rotated
      PROVE  Opens(Plist(a), a)
  <2>1. sig[name[a]].key # 0 /\ sig[name[a]].key = key[a]
    BY <1>1, SettledStores DEF StoreInvariant, KeysMatch
  <2>2. Plist(a).url = name[a] /\ Plist(a).trusted = {key[a]} \ {0}
    BY DEF Plist
  <2>3. QED BY <1>1, <2>1, <2>2, SettledStores DEF Opens
<1>2. StoreInvariant => PlistOpensConfig
  BY <1>1 DEF PlistOpensConfig
<1>3. QED BY <1>2, StoresInvariant, PTL
=============================================================================
