--------------------------- MODULE BackendProofs ---------------------------
(***************************************************************************)
(* Proofs about what the client keeps of its Hosts and of itself: the      *)
(* record of a Host, the settings database and the identity.               *)
(***************************************************************************)
EXTENDS HostProofs, MCBackend

-----------------------------------------------------------------------------
(* The record of a Host: whom it trusts, and the quit it waits for.        *)

\* The parts of the type invariant the proofs need.
TrustType ==
    /\ query \in [Observers -> [at : {"idle", "asked", "answered"},
                                pin : Certs \cup {NoCert}, game : BOOLEAN]]
    /\ serverCert \in Certs \cup {NoCert}
    /\ hostCert \in Certs /\ hostGame \in BOOLEAN
    /\ pairing \in [at : {"idle", "verifying", "pinned", "cleared"},
                    cert : Certs \cup {NoCert}]
    /\ {identityChanged, gameRuns, pendingQuit, news} \subseteq BOOLEAN
    /\ pendingServerCert \in Certs \cup {NoCert}
    /\ quitTask \in {"idle", "started", "cancelled", "ended"}

LEMMA NoQueryType ==
    NoQuery \in [at : {"idle", "asked", "answered"},
                 pin : Certs \cup {NoCert}, game : BOOLEAN]
BY DEF NoQuery

LEMMA TrustInitType == HostTrustInit => TrustType
<1> SUFFICES ASSUME HostTrustInit PROVE TrustType
    OBVIOUS
<1>1. query \in [Observers -> [at : {"idle", "asked", "answered"},
                              pin : Certs \cup {NoCert}, game : BOOLEAN]]
    BY NoQueryType DEF HostTrustInit
<1>2. pairing \in [at : {"idle", "verifying", "pinned", "cleared"},
                   cert : Certs \cup {NoCert}]
    BY DEF HostTrustInit
<1>3. /\ serverCert \in Certs \cup {NoCert} /\ hostCert \in Certs
      /\ hostGame \in BOOLEAN /\ pendingServerCert \in Certs \cup {NoCert}
    BY DEF HostTrustInit
<1>4. /\ {identityChanged, gameRuns, pendingQuit, news} \subseteq BOOLEAN
      /\ quitTask \in {"idle", "started", "cancelled", "ended"}
    BY DEF HostTrustInit
<1> QED BY <1>1, <1>2, <1>3, <1>4 DEF TrustType

\* What a query may leave in its entry.
LEMMA QueryEntry ==
    ASSUME TrustType, NEW o \in Observers,
           NEW e \in [at : {"idle", "asked", "answered"},
                      pin : Certs \cup {NoCert}, game : BOOLEAN],
           query' = [query EXCEPT ![o] = e]
    PROVE  query' \in [Observers -> [at : {"idle", "asked", "answered"},
                                     pin : Certs \cup {NoCert},
                                     game : BOOLEAN]]
BY DEF TrustType

LEMMA TrustNextType == TrustType /\ [HostTrustNext]_hostTrustVars => TrustType'
<1> SUFFICES ASSUME TrustType, [HostTrustNext]_hostTrustVars PROVE TrustType'
    OBVIOUS
<1>1. CASE HostRotatesCert
    BY <1>1 DEF HostRotatesCert, TrustType, trustVars, quitVars
<1>2. CASE HostStartsGame
    BY <1>2 DEF HostStartsGame, TrustType, trustVars, quitVars
<1>3. CASE HostEndsGame
    BY <1>3 DEF HostEndsGame, TrustType, trustVars, quitVars
<1>4. ASSUME NEW o \in Observers, StartQuery(o) PROVE TrustType'
    <2> DEFINE e == [at |-> "asked", pin |-> serverCert, game |-> FALSE]
    <2>1. e \in [at : {"idle", "asked", "answered"},
                 pin : Certs \cup {NoCert}, game : BOOLEAN]
        BY DEF TrustType
    <2>2. query' = [query EXCEPT ![o] = e]
        BY <1>4 DEF StartQuery
    <2>3. query' \in [Observers -> [at : {"idle", "asked", "answered"},
                                    pin : Certs \cup {NoCert}, game : BOOLEAN]]
        BY <2>1, <2>2, QueryEntry
    <2> QED BY <1>4, <2>3
            DEF StartQuery, TrustType, trustVars, quitVars, hostSideVars
<1>5. ASSUME NEW o \in Observers, HostAnswers(o) PROVE TrustType'
    <2> DEFINE e == [query[o] EXCEPT !.at = "answered", !.game = hostGame]
    <2>1. e \in [at : {"idle", "asked", "answered"},
                 pin : Certs \cup {NoCert}, game : BOOLEAN]
        BY DEF TrustType
    <2>2. query' = [query EXCEPT ![o] = e]
        BY <1>5 DEF HostAnswers
    <2>3. query' \in [Observers -> [at : {"idle", "asked", "answered"},
                                    pin : Certs \cup {NoCert}, game : BOOLEAN]]
        <3> HIDE DEF e
        <3> QED BY <2>1, <2>2, QueryEntry
    <2> QED BY <1>5, <2>3
            DEF HostAnswers, TrustType, trustVars, quitVars, hostSideVars
<1>6. ASSUME NEW o \in Observers, QueryFails(o) PROVE TrustType'
    <2>2. query' = [query EXCEPT ![o] = NoQuery]
        BY <1>6 DEF QueryFails
    <2> QED BY <1>6, NoQueryType, <2>2, QueryEntry
            DEF QueryFails, TrustType, trustVars, quitVars, hostSideVars
<1>7. ASSUME NEW o \in Observers, Update(o) PROVE TrustType'
    <2>2. query' = [query EXCEPT ![o] = NoQuery]
        BY <1>7 DEF Update
    <2>3. query[o].pin \in Certs \cup {NoCert} /\ query[o].game \in BOOLEAN
        BY DEF TrustType
    <2>4. /\ serverCert' \in Certs \cup {NoCert}
          /\ pendingServerCert' \in Certs \cup {NoCert}
          /\ identityChanged' \in BOOLEAN
        BY <1>7, <2>3 DEF Update, ObserveCert, TrustType, trustVars
    <2>5. gameRuns' \in BOOLEAN /\ news' \in BOOLEAN
        BY <1>7, <2>3 DEF Update, TrustType
    <2> QED BY <1>7, NoQueryType, <2>2, <2>4, <2>5, QueryEntry
            DEF Update, TrustType, hostSideVars
<1>8. CASE StartPairing
    BY <1>8 DEF StartPairing, TrustType, trustVars, quitVars, hostSideVars
<1>9. CASE PairingFails
    BY <1>9 DEF PairingFails, TrustType, trustVars, quitVars, hostSideVars
<1>10. CASE PairingPins
    BY <1>10 DEF PairingPins, TrustType, quitVars, hostSideVars
<1>11. CASE PairingClearsChange
    BY <1>11 DEF PairingClearsChange, TrustType, quitVars, hostSideVars
<1>12. CASE PairingCompletes
    BY <1>12 DEF PairingCompletes, TrustType, quitVars, hostSideVars
<1>13. CASE QuitRunningApp
    BY <1>13 DEF QuitRunningApp, TrustType, trustVars, hostSideVars
<1>14. CASE QuitTaskCancels
    BY <1>14 DEF QuitTaskCancels, TrustType, trustVars
<1>15. CASE QuitTaskSucceeds
    BY <1>15 DEF QuitTaskSucceeds, TrustType, trustVars, hostSideVars
<1>16. CASE QuitTaskFails
    BY <1>16 DEF QuitTaskFails, TrustType, trustVars, hostSideVars
<1>17. CASE HandleComputerStateChanged
    BY <1>17 DEF HandleComputerStateChanged, TrustType, trustVars, hostSideVars
<1>18. CASE UNCHANGED hostTrustVars
    BY <1>18 DEF TrustType, hostTrustVars, trustVars, quitVars, hostSideVars
<1> QED BY <1>1, <1>2, <1>3, <1>4, <1>5, <1>6, <1>7, <1>8, <1>9, <1>10, <1>11,
           <1>12, <1>13, <1>14, <1>15, <1>16, <1>17, <1>18
        DEF HostTrustNext, QueryStep, PairingStep, QuitTaskStep

LEMMA TrustTypeInvariant == HostTrustSpec => []TrustType
BY TrustInitType, TrustNextType, PTL DEF HostTrustSpec

(***************************************************************************)
(* What is observed never replaces a pin.  No invariant is needed: each    *)
(* action that writes the trust fields is looked at.                       *)
(***************************************************************************)

\* The body of OnlyPairingTrusts, as a relation between two states.
TrustStep ==
    (\/ serverCert # NoCert /\ serverCert' # serverCert
     \/ identityChanged /\ ~identityChanged')
    => pairing.at \in {"verifying", "pinned"} /\ pairing' # pairing

LEMMA ObservationTrusts ==
    ASSUME NEW cert, identityChanged \in BOOLEAN, ObserveCert(cert)
    PROVE  /\ serverCert # NoCert => serverCert' = serverCert
           /\ identityChanged => identityChanged'
BY DEF ObserveCert, trustVars

LEMMA StepTrusts ==
    ASSUME TrustType, [HostTrustNext]_hostTrustVars PROVE TrustStep
<1>1. CASE UNCHANGED trustVars
    BY <1>1 DEF TrustStep, trustVars
<1>2. ASSUME NEW o \in Observers, Update(o) PROVE TrustStep
    <2>1. identityChanged \in BOOLEAN
        BY DEF TrustType
    <2> QED BY <1>2, <2>1, ObservationTrusts DEF Update, TrustStep
<1>3. CASE PairingPins
    <2>1. pairing.at = "verifying" /\ pairing'.at = "pinned"
        BY <1>3 DEF PairingPins, TrustType
    <2> QED BY <2>1 DEF TrustStep
<1>4. CASE PairingClearsChange
    <2>1. pairing.at = "pinned" /\ pairing'.at = "cleared"
        BY <1>4 DEF PairingClearsChange, TrustType
    <2> QED BY <2>1 DEF TrustStep
<1>5. CASE PairingCompletes
    BY <1>5 DEF PairingCompletes, TrustStep
<1>6. CASE UNCHANGED hostTrustVars
    BY <1>6, <1>1 DEF hostTrustVars
<1>7. CASE HostRotatesCert \/ HostStartsGame \/ HostEndsGame
    BY <1>7, <1>1 DEF HostRotatesCert, HostStartsGame, HostEndsGame
<1>8. ASSUME NEW o \in Observers, StartQuery(o) \/ HostAnswers(o) \/ QueryFails(o)
      PROVE  TrustStep
    BY <1>8, <1>1 DEF StartQuery, HostAnswers, QueryFails
<1>9. CASE StartPairing \/ PairingFails
    BY <1>9, <1>1 DEF StartPairing, PairingFails
<1>10. CASE QuitRunningApp \/ QuitTaskCancels \/ QuitTaskSucceeds
              \/ QuitTaskFails \/ HandleComputerStateChanged
    BY <1>10, <1>1 DEF QuitRunningApp, QuitTaskCancels, QuitTaskSucceeds,
                       QuitTaskFails, HandleComputerStateChanged
<1> QED BY <1>2, <1>3, <1>4, <1>5, <1>6, <1>7, <1>8, <1>9, <1>10
        DEF HostTrustNext, QueryStep, PairingStep, QuitTaskStep

\* Whatever the queries, the pairings and the Host do, what is observed
\* neither replaces a pinned certificate nor clears Identity Changed
\* (NvComputer::update): only a pairing task does.
THEOREM PairingAloneTrusts == HostTrustSpec => OnlyPairingTrusts
<1>1. TrustType /\ [HostTrustNext]_hostTrustVars => [TrustStep]_hostTrustVars
    BY StepTrusts
<1> QED BY <1>1, TrustTypeInvariant, PTL
        DEF HostTrustSpec, OnlyPairingTrusts, TrustStep

(***************************************************************************)
(* A quit is not forgotten.  The invariant is inductive on its own.        *)
(***************************************************************************)

LEMMA QuitStep ==
    ASSUME TrustType, QuitWillBeAnswered, [HostTrustNext]_hostTrustVars
    PROVE  QuitWillBeAnswered'
<1>1. CASE UNCHANGED <<quitVars, news>>
    BY <1>1 DEF QuitWillBeAnswered, quitVars
<1>2. ASSUME NEW o \in Observers, Update(o) PROVE QuitWillBeAnswered'
    <2>1. query[o].game \in BOOLEAN /\ gameRuns \in BOOLEAN
        BY DEF TrustType
    <2>2. news' <=> (news \/ gameRuns' # gameRuns
                       \/ query[o].pin \notin {NoCert, serverCert})
        BY <1>2 DEF Update
    <2>3. gameRuns /\ ~gameRuns' => news'
        BY <2>2
    <2>4. news => news'
        BY <2>2
    <2>5. pendingQuit' = pendingQuit /\ quitTask' = quitTask
        BY <1>2 DEF Update
    <2> QED BY <2>3, <2>4, <2>5 DEF QuitWillBeAnswered
<1>3. CASE QuitRunningApp
    BY <1>3 DEF QuitRunningApp, QuitWillBeAnswered
<1>4. CASE QuitTaskCancels
    BY <1>4 DEF QuitTaskCancels, QuitWillBeAnswered
<1>5. CASE QuitTaskSucceeds
    BY <1>5 DEF QuitTaskSucceeds, QuitWillBeAnswered
<1>6. CASE QuitTaskFails
    BY <1>6 DEF QuitTaskFails, QuitWillBeAnswered
<1>7. CASE HandleComputerStateChanged
    <2>1. gameRuns' = gameRuns /\ (pendingQuit' => gameRuns)
        BY <1>7 DEF HandleComputerStateChanged
    <2> QED BY <2>1 DEF QuitWillBeAnswered
<1>8. CASE UNCHANGED hostTrustVars
    BY <1>8, <1>1 DEF hostTrustVars
<1>9. CASE HostRotatesCert \/ HostStartsGame \/ HostEndsGame
    BY <1>9, <1>1 DEF HostRotatesCert, HostStartsGame, HostEndsGame
<1>10. ASSUME NEW o \in Observers, StartQuery(o) \/ HostAnswers(o) \/ QueryFails(o)
       PROVE  QuitWillBeAnswered'
    BY <1>10, <1>1 DEF StartQuery, HostAnswers, QueryFails
<1>11. CASE StartPairing \/ PairingFails \/ PairingPins \/ PairingClearsChange
              \/ PairingCompletes
    BY <1>11, <1>1 DEF StartPairing, PairingFails, PairingPins,
                       PairingClearsChange, PairingCompletes
<1> QED BY <1>2, <1>3, <1>4, <1>5, <1>6, <1>7, <1>8, <1>9, <1>10, <1>11
        DEF HostTrustNext, QueryStep, PairingStep, QuitTaskStep

\* For every number of observers and every bound: after the application was
\* cancelled, the user's wait is never left with nothing to end it.
THEOREM QuitIsNotForgotten == HostTrustSpec => []QuitWillBeAnswered
<1>1. HostTrustInit => QuitWillBeAnswered
    BY DEF HostTrustInit, QuitWillBeAnswered
<1> QED BY <1>1, QuitStep, TrustTypeInvariant, PTL DEF HostTrustSpec

-----------------------------------------------------------------------------
(* The settings database: the schema of the build, and what is acknowledged. *)

\* The type of a content, without the bounds.
Stored == [version : Nat, schema : SUBSET (Nat \X Nat), hosts : Nat,
           imported : BOOLEAN]

SettingsType ==
    /\ file \in Stored /\ seen \in Stored /\ tx \in Stored
    /\ snapshots \in [SchemaVersions -> Stored \cup {NoSnapshot, Partial}]
    /\ build \in Builds /\ target \in Nat /\ stmt \in Nat \ {0}
    /\ saved \in Nat /\ legacy \in BOOLEAN
    /\ logLost \in BOOLEAN /\ reimported \in BOOLEAN

\* The steps of open() at which a migration is chosen, and its snapshot taken.
Migrating == {"backup", "vacuum", "apply", "close", "dropLog", "replace"}
Snapped == {"apply", "close", "dropLog", "replace"}

TargetOK == step \in Migrating => target \in 1..build

LEMMA BuildsAreNat == Builds \subseteq Nat /\ Statements \in Nat \ {0}
BY SettingsDatabaseAssumption

LEMMA TargetIsVersion ==
    ASSUME build \in Builds, target \in 1..build PROVE target \in SchemaVersions
BY BuildsAreNat DEF SchemaVersions

LEMMA EmptyStored == Empty \in Stored
BY DEF Empty, Stored

LEMMA SettingsInit == SettingsDatabaseInit => SettingsType /\ TargetOK
<1> SUFFICES ASSUME SettingsDatabaseInit PROVE SettingsType /\ TargetOK
    OBVIOUS
<1>1. file \in Stored /\ seen \in Stored /\ tx \in Stored
    BY EmptyStored DEF SettingsDatabaseInit
<1>2. snapshots \in [SchemaVersions -> Stored \cup {NoSnapshot, Partial}]
    <2>1. NoSnapshot \in Stored \cup {NoSnapshot, Partial}
        OBVIOUS
    <2>2. snapshots = [v \in SchemaVersions |-> NoSnapshot]
        BY DEF SettingsDatabaseInit
    <2> QED BY <2>1, <2>2
<1>3. build \in Builds /\ target \in Nat /\ stmt \in Nat \ {0} /\ saved \in Nat
    BY DEF SettingsDatabaseInit
<1>5. legacy \in BOOLEAN /\ logLost \in BOOLEAN /\ reimported \in BOOLEAN
    BY DEF SettingsDatabaseInit
<1>4. TargetOK
    BY DEF SettingsDatabaseInit, TargetOK, Migrating
<1> QED BY <1>1, <1>2, <1>3, <1>4, <1>5 DEF SettingsType

LEMMA ChoiceType ==
    ASSUME build \in Builds, target \in Nat, NEW v \in Nat, ChooseMigration(v),
           build' = build
    PROVE  target' \in Nat /\ TargetOK'
BY BuildsAreNat DEF ChooseMigration, Goto, TargetOK, Migrating

LEMMA SettingsNext ==
    ASSUME SettingsType, TargetOK, [SettingsDatabaseNext]_settingsVars
    PROVE  SettingsType' /\ TargetOK'
<1>1. CASE Launch
    BY <1>1 DEF Launch, Goto, files, claims, SettingsType, TargetOK, Migrating
<1>2. CASE ReadVersion
    <2>1. seen.version \in Nat
        BY DEF SettingsType, Stored
    <2>2. target' \in Nat /\ TargetOK'
        BY <1>2, <2>1, ChoiceType DEF ReadVersion, SettingsType
    <2> QED BY <1>2, <2>2 DEF ReadVersion, SettingsType, files, claims
<1>3. CASE DropStaleSnapshot
    <2>1. snapshots' \in [SchemaVersions -> Stored \cup {NoSnapshot, Partial}]
        BY <1>3 DEF DropStaleSnapshot, SettingsType
    <2>2. TargetOK'
        BY <1>3 DEF DropStaleSnapshot, Goto, TargetOK, Migrating
    <2> QED BY <1>3, <2>1, <2>2 DEF DropStaleSnapshot, SettingsType, claims
<1>4. CASE TakeSnapshot
    <2>1. snapshots' \in [SchemaVersions -> Stored \cup {NoSnapshot, Partial}]
        BY <1>4 DEF TakeSnapshot, SettingsType
    <2>2. tx' \in Stored /\ stmt' \in Nat \ {0}
        BY <1>4 DEF TakeSnapshot, SettingsType
    <2>3. TargetOK'
        BY <1>4 DEF TakeSnapshot, Goto, TargetOK, Migrating
    <2> QED BY <1>4, <2>1, <2>2, <2>3 DEF TakeSnapshot, SettingsType, claims
<1>5. CASE ExecStatement
    <2>1. <<target, stmt>> \in Nat \X Nat
        BY DEF SettingsType
    <2>2. tx' \in Stored
        BY <1>5, <2>1 DEF ExecStatement, SettingsType, Stored
    <2>3. stmt' \in Nat \ {0} /\ TargetOK'
        BY <1>5 DEF ExecStatement, SettingsType, TargetOK
    <2> QED BY <1>5, <2>2, <2>3 DEF ExecStatement, SettingsType, files, claims
<1>6. CASE CommitMigration
    <2>1. seen' \in Stored
        BY <1>6 DEF CommitMigration, SettingsType, Stored
    <2>2. target' \in Nat /\ TargetOK'
        BY <1>6, BuildsAreNat
        DEF CommitMigration, SettingsType, TargetOK, Migrating, Goto
    <2> QED BY <1>6, <2>1, <2>2 DEF CommitMigration, SettingsType, claims
<1>7. CASE MigrationFails
    BY <1>7 DEF MigrationFails, Goto, SettingsType, files, claims, TargetOK,
                Migrating
<1>8. CASE CloseConnection
    BY <1>8 DEF CloseConnection, Goto, SettingsType, claims, TargetOK, Migrating
<1>9. CASE DropLog
    BY <1>9 DEF DropLog, Goto, SettingsType, TargetOK, Migrating
<1>10. CASE ReplaceFile
    <2>1. file' \in Stored /\ seen' \in Stored
        <3>1. CASE /\ snapshots[target] \notin {NoSnapshot, Partial}
                   /\ file' = snapshots[target] /\ seen' = snapshots[target]
            <4>1. target \in SchemaVersions
                BY <1>10, TargetIsVersion
                DEF ReplaceFile, TargetOK, Migrating, SettingsType
            <4> QED BY <3>1, <4>1 DEF SettingsType
        <3>2. CASE UNCHANGED <<file, seen>>
            BY <3>2 DEF SettingsType
        <3> QED BY <1>10, <3>1, <3>2 DEF ReplaceFile
    <2>2. TargetOK'
        BY <1>10 DEF ReplaceFile, Goto, TargetOK, Migrating
    <2>3. logLost' \in BOOLEAN /\ reimported' \in BOOLEAN
        BY <1>10 DEF ReplaceFile, StillLost
    <2>4. saved' \in Nat
        BY <1>10 DEF ReplaceFile, SettingsType
    <2> QED BY <1>10, <2>1, <2>2, <2>3, <2>4 DEF ReplaceFile, SettingsType
<1>11. CASE PruneBackupSnapshots
    <2>1. snapshots' \in [SchemaVersions -> Stored \cup {NoSnapshot, Partial}]
        BY <1>11 DEF PruneBackupSnapshots, SettingsType
    <2>2. TargetOK'
        BY <1>11 DEF PruneBackupSnapshots, Goto, TargetOK, Migrating
    <2> QED BY <1>11, <2>1, <2>2 DEF PruneBackupSnapshots, SettingsType, claims
<1>12. CASE ImportLegacyHostRecords
    <2>1. seen' \in Stored
        BY <1>12 DEF ImportLegacyHostRecords, SettingsType, Stored, Legacy
    <2>2. saved' \in Nat
        BY <1>12 DEF ImportLegacyHostRecords, SettingsType, Legacy
    <2>3. logLost' \in BOOLEAN /\ reimported' \in BOOLEAN
        BY <1>12 DEF ImportLegacyHostRecords, StillLost
    <2>4. TargetOK'
        BY <1>12 DEF ImportLegacyHostRecords, Goto, TargetOK, Migrating
    <2> QED BY <1>12, <2>1, <2>2, <2>3, <2>4
            DEF ImportLegacyHostRecords, SettingsType
<1>13. CASE ImportNothing
    BY <1>13 DEF ImportNothing, Goto, SettingsType, files, claims, TargetOK,
                 Migrating
<1>14. CASE ReplaceHostRecords
    <2>1. NextEdit \in Nat
        BY DEF NextEdit, SettingsType, Legacy
    <2>2. seen' \in Stored /\ saved' \in Nat
        BY <1>14, <2>1 DEF ReplaceHostRecords, SettingsType, Stored
    <2> QED BY <1>14, <2>2 DEF ReplaceHostRecords, SettingsType, TargetOK
<1>15. CASE Checkpoint
    BY <1>15 DEF Checkpoint, SettingsType, claims, TargetOK, Migrating
<1>16. CASE Crash
    <2>1. snapshots' \in [SchemaVersions -> Stored \cup {NoSnapshot, Partial}]
        BY <1>16 DEF Crash, SettingsType
    <2>2. TargetOK'
        BY <1>16 DEF Crash, Goto, TargetOK, Migrating
    <2> QED BY <1>16, <2>1, <2>2 DEF Crash, SettingsType, claims
<1>17. CASE UNCHANGED settingsVars
    BY <1>17 DEF settingsVars, files, claims, SettingsType, TargetOK
<1> QED BY <1>1, <1>2, <1>3, <1>4, <1>5, <1>6, <1>7, <1>8, <1>9, <1>10, <1>11,
           <1>12, <1>13, <1>14, <1>15, <1>16, <1>17 DEF SettingsDatabaseNext

LEMMA SettingsTypeInvariant ==
    SettingsDatabaseSpec => [](SettingsType /\ TargetOK)
BY SettingsInit, SettingsNext, PTL DEF SettingsDatabaseSpec

(***************************************************************************)
(* Schemas.                                                                *)
(***************************************************************************)

Complete(c) == c.schema = SchemaOf(c.version)

\* The schema of version v with the first statements of migration t.
SchemaUpTo(v, t, s) == SchemaOf(v) \cup ({t} \X (1..(s - 1)))

LEMMA NothingRun ==
    ASSUME NEW v \in Nat, NEW t \in Nat PROVE SchemaUpTo(v, t, 1) = SchemaOf(v)
<1>1. 1..(1 - 1) = {}
    OBVIOUS
<1>2. {t} \X {} = {}
    OBVIOUS
<1> QED BY <1>1, <1>2 DEF SchemaUpTo

LEMMA OneMoreRun ==
    ASSUME NEW v \in Nat, NEW t \in Nat, NEW s \in Nat \ {0}
    PROVE  SchemaUpTo(v, t, s) \cup {<<t, s>>} = SchemaUpTo(v, t, s + 1)
<1>1. 1..((s + 1) - 1) = (1..(s - 1)) \cup {s}
    OBVIOUS
<1>2. {t} \X ((1..(s - 1)) \cup {s}) = ({t} \X (1..(s - 1))) \cup {<<t, s>>}
    OBVIOUS
<1> QED BY <1>1, <1>2 DEF SchemaUpTo

LEMMA AllRun ==
    ASSUME NEW v \in Nat
    PROVE  SchemaUpTo(v, v + 1, Statements + 1) = SchemaOf(v + 1)
<1>1. (Statements + 1) - 1 = Statements
    BY BuildsAreNat
<1>2. 1..(v + 1) = (1..v) \cup {v + 1}
    OBVIOUS
<1>3. ((1..v) \cup {v + 1}) \X (1..Statements)
      = ((1..v) \X (1..Statements)) \cup ({v + 1} \X (1..Statements))
    OBVIOUS
<1> QED BY <1>1, <1>2, <1>3 DEF SchemaUpTo, SchemaOf

LEMMA FirstIsThere ==
    ASSUME NEW v \in Nat \ {0}, NEW s \in 1..Statements
    PROVE  <<1, s>> \in SchemaOf(v)
BY DEF SchemaOf

(***************************************************************************)
(* The inductive invariant: what lies on the disk is complete, and only    *)
(* the open transaction holds a part of a migration.                       *)
(***************************************************************************)

FilesComplete ==
    /\ Complete(file) /\ Complete(seen)
    /\ \A v \in SchemaVersions :
         snapshots[v] \notin {NoSnapshot, Partial} => Complete(snapshots[v])

\* A migration is the next one, or the first one after a failed query.
NextOrFirst ==
    step \in {"backup", "vacuum", "apply"} =>
        target = seen.version + 1 \/ target = 1

Half ==
    step = "apply" =>
        /\ tx.version = seen.version
        /\ stmt \in 1..(Statements + 1)
        /\ tx.schema = SchemaUpTo(seen.version, target, stmt)
        /\ stmt > 1 => target = seen.version + 1

Accepted == step \in {"prune", "import", "running"} => seen.version = build

SchemaInv == FilesComplete /\ NextOrFirst /\ Half /\ Accepted

LEMMA EmptyComplete == Complete(Empty)
<1>1. (1..0) \X (1..Statements) = {}
    OBVIOUS
<1> QED BY <1>1 DEF Complete, Empty, SchemaOf

LEMMA SchemaInvInit == SettingsDatabaseInit => SchemaInv
<1> SUFFICES ASSUME SettingsDatabaseInit PROVE SchemaInv
    OBVIOUS
<1>1. file = Empty /\ seen = Empty /\ step = "off"
    BY DEF SettingsDatabaseInit
<1>2. snapshots = [v \in SchemaVersions |-> NoSnapshot]
    BY DEF SettingsDatabaseInit
<1>3. FilesComplete
    BY <1>1, <1>2, EmptyComplete DEF FilesComplete
<1> QED BY <1>1, <1>3 DEF SchemaInv, NextOrFirst, Half, Accepted

\* What is complete stays so as long as the files are left alone.
LEMMA FilesKept ==
    ASSUME FilesComplete, UNCHANGED <<file, seen, snapshots>>
    PROVE  FilesComplete'
BY DEF FilesComplete, Complete

\* Removing snapshots, or adding one of a complete database.
LEMMA SnapshotsComplete ==
    ASSUME FilesComplete, UNCHANGED <<file, seen>>,
           \A v \in SchemaVersions :
              snapshots'[v] \in {snapshots[v], NoSnapshot, Partial, seen}
    PROVE  FilesComplete'
BY DEF FilesComplete, Complete

LEMMA SchemaInvNext ==
    ASSUME SettingsType, TargetOK, SchemaInv,
           [SettingsDatabaseNext]_settingsVars
    PROVE  SchemaInv'
<1> USE DEF SchemaInv
<1>0. seen.version \in Nat /\ build \in Nat \ {0} /\ target \in Nat
      /\ stmt \in Nat \ {0}
    <2>1. seen \in Stored /\ build \in Builds
        BY DEF SettingsType
    <2>2. target \in Nat /\ stmt \in Nat \ {0}
        BY DEF SettingsType
    <2>3. seen.version \in Nat
        BY <2>1 DEF Stored
    <2>4. Builds \subseteq Nat \ {0}
        BY SettingsDatabaseAssumption
    <2> QED BY <2>1, <2>2, <2>3, <2>4
<1>1. CASE Launch
    <2>1. FilesComplete'
        BY <1>1, FilesKept DEF Launch, files
    <2> QED BY <1>1, <2>1 DEF Launch, Goto, NextOrFirst, Half, Accepted
<1>2. CASE ReadVersion
    <2>1. FilesComplete'
        BY <1>2, FilesKept DEF ReadVersion, files
    <2>2. CASE ChooseMigration(seen.version)
        BY <1>2, <2>1, <2>2, <1>0
        DEF ReadVersion, ChooseMigration, Goto, NextOrFirst, Half, Accepted, files
    <2>3. CASE ChooseMigration(0)
        BY <1>2, <2>1, <2>3, <1>0
        DEF ReadVersion, ChooseMigration, Goto, NextOrFirst, Half, Accepted, files
    <2> QED BY <1>2, <2>2, <2>3 DEF ReadVersion
<1>3. CASE DropStaleSnapshot
    <2>1. \A v \in SchemaVersions :
             snapshots'[v] \in {snapshots[v], NoSnapshot, Partial, seen}
        BY <1>3 DEF DropStaleSnapshot, SettingsType
    <2>2. FilesComplete'
        BY <1>3, <2>1, SnapshotsComplete DEF DropStaleSnapshot
    <2> QED BY <1>3, <2>2 DEF DropStaleSnapshot, Goto, NextOrFirst, Half, Accepted
<1>4. CASE TakeSnapshot
    <2>1. \A v \in SchemaVersions :
             snapshots'[v] \in {snapshots[v], NoSnapshot, Partial, seen}
        BY <1>4 DEF TakeSnapshot, SettingsType
    <2>2. FilesComplete'
        BY <1>4, <2>1, SnapshotsComplete DEF TakeSnapshot
    <2>3. CASE tx' = seen /\ stmt' = 1 /\ Goto("apply")
        <3>1. SchemaUpTo(seen.version, target, 1) = SchemaOf(seen.version)
            BY <1>0, NothingRun
        <3>2. 1 \in 1..(Statements + 1)
            BY BuildsAreNat
        <3>3. Half'
            BY <1>4, <2>3, <3>1, <3>2
            DEF TakeSnapshot, Half, FilesComplete, Complete
        <3> QED BY <1>4, <2>2, <2>3, <3>3
                DEF TakeSnapshot, Goto, NextOrFirst, Accepted
    <2>4. CASE Goto("off")
        BY <1>4, <2>2, <2>4 DEF Goto, NextOrFirst, Half, Accepted
    <2> QED BY <1>4, <2>3, <2>4 DEF TakeSnapshot
<1>5. CASE ExecStatement
    <2>1. FilesComplete'
        BY <1>5, FilesKept DEF ExecStatement, files
    <2>2. target = seen.version + 1
        <3>1. tx.schema = SchemaUpTo(seen.version, target, stmt)
            BY <1>5 DEF ExecStatement, Half
        <3>2. stmt \in 1..Statements
            BY <1>0, <1>5, BuildsAreNat DEF ExecStatement
        <3>3. CASE target = 1 /\ seen.version \in Nat \ {0}
            <4>1. <<target, stmt>> \in SchemaOf(seen.version)
                BY <3>2, <3>3, FirstIsThere
            <4> QED BY <3>1, <4>1, <1>5 DEF ExecStatement, SchemaUpTo
        <3>4. target = seen.version + 1 \/ target = 1
            BY <1>5 DEF ExecStatement, NextOrFirst
        <3> QED BY <1>0, <3>3, <3>4
    <2>3. /\ tx'.version = tx.version
          /\ tx'.schema = tx.schema \cup {<<target, stmt>>}
        BY <1>5 DEF ExecStatement, SettingsType, Stored
    <2>4. tx'.schema = SchemaUpTo(seen.version, target, stmt + 1)
        BY <1>0, <1>5, <2>3, OneMoreRun DEF ExecStatement, Half
    <2>5. stmt' \in 1..(Statements + 1)
        BY <1>0, <1>5, BuildsAreNat DEF ExecStatement
    <2>6. stmt' = stmt + 1 /\ step' = step /\ target' = target /\ seen' = seen
          /\ step = "apply" /\ build' = build
        BY <1>5 DEF ExecStatement, files
    <2> QED BY <2>1, <2>2, <2>3, <2>4, <2>5, <2>6
            DEF NextOrFirst, Half, Accepted
<1>6. CASE CommitMigration
    <2>1. stmt = Statements + 1 /\ target = seen.version + 1
        BY <1>0, <1>6, BuildsAreNat DEF CommitMigration, Half
    <2>2. tx.schema = SchemaOf(target)
        BY <1>0, <1>6, <2>1, AllRun DEF CommitMigration, Half
    <2>3. seen'.version = target /\ seen'.schema = tx.schema
        BY <1>6 DEF CommitMigration, SettingsType, Stored
    <2>4. FilesComplete'
        BY <1>6, <2>2, <2>3 DEF CommitMigration, FilesComplete, Complete
    <2> QED BY <1>6, <2>3, <2>4
            DEF CommitMigration, Goto, NextOrFirst, Half, Accepted
<1>7. CASE MigrationFails
    <2>1. FilesComplete'
        BY <1>7, FilesKept DEF MigrationFails, files
    <2> QED BY <1>7, <2>1 DEF MigrationFails, Goto, NextOrFirst, Half, Accepted
<1>8. CASE CloseConnection
    <2>1. FilesComplete'
        BY <1>8 DEF CloseConnection, FilesComplete, Complete
    <2> QED BY <1>8, <2>1 DEF CloseConnection, Goto, NextOrFirst, Half, Accepted
<1>9. CASE DropLog
    <2>1. FilesComplete'
        BY <1>9 DEF DropLog, FilesComplete, Complete
    <2> QED BY <1>9, <2>1 DEF DropLog, Goto, NextOrFirst, Half, Accepted
<1>10. CASE ReplaceFile
    <2>1. target \in SchemaVersions
        BY <1>10, TargetIsVersion
        DEF ReplaceFile, TargetOK, Migrating, SettingsType
    <2>2. FilesComplete'
        BY <1>10, <2>1 DEF ReplaceFile, FilesComplete, Complete
    <2> QED BY <1>10, <2>2 DEF ReplaceFile, Goto, NextOrFirst, Half, Accepted
<1>11. CASE PruneBackupSnapshots
    <2>1. \A v \in SchemaVersions :
             snapshots'[v] \in {snapshots[v], NoSnapshot, Partial, seen}
        BY <1>11 DEF PruneBackupSnapshots
    <2>2. FilesComplete'
        BY <1>11, <2>1, SnapshotsComplete DEF PruneBackupSnapshots
    <2> QED BY <1>11, <2>2
            DEF PruneBackupSnapshots, Goto, NextOrFirst, Half, Accepted
<1>12. CASE ImportLegacyHostRecords
    <2>1. seen'.version = seen.version /\ seen'.schema = seen.schema
        BY <1>12 DEF ImportLegacyHostRecords, SettingsType, Stored
    <2>2. FilesComplete'
        BY <1>12, <2>1 DEF ImportLegacyHostRecords, FilesComplete, Complete
    <2> QED BY <1>12, <2>1, <2>2
            DEF ImportLegacyHostRecords, Goto, NextOrFirst, Half, Accepted
<1>13. CASE ImportNothing
    <2>1. FilesComplete'
        BY <1>13, FilesKept DEF ImportNothing, files
    <2> QED BY <1>13, <2>1
            DEF ImportNothing, files, Goto, NextOrFirst, Half, Accepted
<1>14. CASE ReplaceHostRecords
    <2>1. seen'.version = seen.version /\ seen'.schema = seen.schema
        BY <1>14 DEF ReplaceHostRecords, SettingsType, Stored
    <2>2. FilesComplete'
        BY <1>14, <2>1 DEF ReplaceHostRecords, FilesComplete, Complete
    <2> QED BY <1>14, <2>1, <2>2
            DEF ReplaceHostRecords, NextOrFirst, Half, Accepted
<1>15. CASE Checkpoint
    <2>1. FilesComplete'
        BY <1>15 DEF Checkpoint, FilesComplete, Complete
    <2> QED BY <1>15, <2>1 DEF Checkpoint, NextOrFirst, Half, Accepted
<1>16. CASE Crash
    <2>1. \A v \in SchemaVersions :
             snapshots'[v] \in {snapshots[v], NoSnapshot, Partial, seen}
        BY <1>16 DEF Crash, SettingsType
    <2>2. FilesComplete'
        BY <1>16, <2>1, SnapshotsComplete DEF Crash
    <2> QED BY <1>16, <2>2 DEF Crash, Goto, NextOrFirst, Half, Accepted
<1>17. CASE UNCHANGED settingsVars
    BY <1>17, FilesKept
    DEF settingsVars, files, NextOrFirst, Half, Accepted
<1> QED BY <1>1, <1>2, <1>3, <1>4, <1>5, <1>6, <1>7, <1>8, <1>9, <1>10, <1>11,
           <1>12, <1>13, <1>14, <1>15, <1>16, <1>17 DEF SettingsDatabaseNext

\* A database that open() accepted has the schema of the build, whatever
\* migrations, recoveries, crashes and other builds came before
\* (settingsdatabase.cpp:106-147), for any builds, statements and bounds.
THEOREM OpenHasTheSchema == SettingsDatabaseSpec => []OpenedIsComplete
<1>1. SettingsDatabaseInit => SettingsType /\ TargetOK /\ SchemaInv
    BY SettingsInit, SchemaInvInit
<1>2. SettingsType /\ TargetOK /\ SchemaInv
      /\ [SettingsDatabaseNext]_settingsVars
      => (SettingsType /\ TargetOK /\ SchemaInv)'
    BY SettingsNext, SchemaInvNext
<1>3. SettingsType /\ TargetOK /\ SchemaInv => OpenedIsComplete
    BY DEF SchemaInv, FilesComplete, Complete, Accepted, OpenedIsComplete
<1> QED BY <1>1, <1>2, <1>3, PTL DEF SettingsDatabaseSpec

(***************************************************************************)
(* What was acknowledged is in the database, in the transaction and in the *)
(* snapshot a recovery goes back to.                                       *)
(***************************************************************************)

Excused == logLost \/ reimported

KeptInv ==
    \/ Excused
    \/ /\ seen.hosts = saved
       /\ step = "apply" => tx.hosts = saved
       /\ step \in Snapped => snapshots[target].hosts = saved

LEMMA KeptInvInit == SettingsDatabaseInit => KeptInv
BY DEF SettingsDatabaseInit, KeptInv, Snapped, Empty

LEMMA KeptInvNext ==
    ASSUME SettingsType, TargetOK, KeptInv, [SettingsDatabaseNext]_settingsVars
    PROVE  KeptInv'
<1> USE DEF KeptInv, Excused, Snapped, Goto
<1>1. CASE Launch
    BY <1>1 DEF Launch, files, claims
<1>2. CASE ReadVersion
    BY <1>2 DEF ReadVersion, ChooseMigration, files, claims
<1>3. CASE DropStaleSnapshot
    BY <1>3 DEF DropStaleSnapshot, claims
<1>4. CASE TakeSnapshot
    <2>1. target \in SchemaVersions
        BY <1>4, TargetIsVersion
        DEF TakeSnapshot, TargetOK, Migrating, SettingsType
    <2>2. CASE /\ snapshots' = [snapshots EXCEPT ![target] = seen]
               /\ tx' = seen
        <3>1. snapshots'[target] = seen
            BY <2>1, <2>2 DEF SettingsType
        <3> QED BY <1>4, <2>2, <3>1 DEF TakeSnapshot, claims
    <2>3. CASE step' = "off"
        BY <1>4, <2>3 DEF TakeSnapshot, claims
    <2> QED BY <1>4, <2>2, <2>3 DEF TakeSnapshot
<1>5. CASE ExecStatement
    <2>1. tx'.hosts = tx.hosts
        BY <1>5 DEF ExecStatement, SettingsType, Stored
    <2> QED BY <1>5, <2>1 DEF ExecStatement, files, claims
<1>6. CASE CommitMigration
    <2>1. seen'.hosts = tx.hosts
        BY <1>6 DEF CommitMigration, SettingsType, Stored
    <2> QED BY <1>6, <2>1 DEF CommitMigration, claims
<1>7. CASE MigrationFails
    BY <1>7 DEF MigrationFails, files, claims
<1>8. CASE CloseConnection
    BY <1>8 DEF CloseConnection, claims
<1>9. CASE DropLog
    BY <1>9 DEF DropLog
<1>10. CASE ReplaceFile
    BY <1>10 DEF ReplaceFile, StillLost
<1>11. CASE PruneBackupSnapshots
    BY <1>11 DEF PruneBackupSnapshots, claims
<1>12. CASE ImportLegacyHostRecords
    <2>1. seen'.hosts = IF legacy THEN Legacy ELSE seen.hosts
        BY <1>12 DEF ImportLegacyHostRecords, SettingsType, Stored
    <2>2. saved' = IF legacy /\ saved = 0 THEN Legacy ELSE saved
        BY <1>12 DEF ImportLegacyHostRecords
    <2>3. /\ reimported' <=> StillLost(reimported
                                        \/ (legacy /\ seen.hosts > Legacy))
          /\ logLost' <=> StillLost(logLost)
          /\ step' = "running"
        BY <1>12 DEF ImportLegacyHostRecords
    <2>4. saved \in Nat
        BY DEF SettingsType
    <2>5. CASE ~Excused' /\ seen'.hosts # saved'
        <3>1. ~Excused /\ ~(legacy /\ seen.hosts > Legacy)
            BY <2>3, <2>5 DEF StillLost
        <3>2. seen.hosts = saved
            BY <3>1
        <3>3. seen'.hosts = saved'
            <4>1. CASE legacy
                <5>1. ~(saved > Legacy)
                    BY <3>1, <3>2, <4>1
                <5>2. saved = 0 \/ saved = Legacy
                    BY <2>4, <5>1 DEF Legacy
                <5> QED BY <2>1, <2>2, <4>1, <5>2
            <4> QED BY <2>1, <2>2, <3>2, <4>1
        <3> QED BY <2>5, <3>3
    <2> QED BY <2>3, <2>5
<1>13. CASE ImportNothing
    BY <1>13 DEF ImportNothing, files, claims
<1>14. CASE ReplaceHostRecords
    <2>1. seen'.hosts = NextEdit
        BY <1>14 DEF ReplaceHostRecords, SettingsType, Stored
    <2> QED BY <1>14, <2>1 DEF ReplaceHostRecords
<1>15. CASE Checkpoint
    BY <1>15 DEF Checkpoint, claims
<1>16. CASE Crash
    BY <1>16 DEF Crash, claims
<1>17. CASE UNCHANGED settingsVars
    BY <1>17 DEF settingsVars, files, claims
<1> QED BY <1>1, <1>2, <1>3, <1>4, <1>5, <1>6, <1>7, <1>8, <1>9, <1>10, <1>11,
           <1>12, <1>13, <1>14, <1>15, <1>16, <1>17 DEF SettingsDatabaseNext

\* Host records whose write was acknowledged are in the database from then on
\* (settingsdatabase.cpp:1208-1259), but for the two losses the property names.
THEOREM AcknowledgedRecordsStay == SettingsDatabaseSpec => []AcknowledgedIsKept
<1>1. SettingsDatabaseInit => SettingsType /\ TargetOK /\ KeptInv
    BY SettingsInit, KeptInvInit
<1>2. SettingsType /\ TargetOK /\ KeptInv
      /\ [SettingsDatabaseNext]_settingsVars
      => (SettingsType /\ TargetOK /\ KeptInv)'
    BY SettingsNext, KeptInvNext
<1>3. SettingsType /\ TargetOK /\ KeptInv => AcknowledgedIsKept
    BY DEF KeptInv, Excused, AcknowledgedIsKept
<1> QED BY <1>1, <1>2, <1>3, PTL DEF SettingsDatabaseSpec

-----------------------------------------------------------------------------
(* The identity: the pair the Hosts trust is kept, and used.               *)

\* The parts of the type invariant the proofs need.
IdentityType ==
    /\ vaultCert \in Secrets /\ vaultKey \in Secrets
    /\ pemCert \in Secrets /\ pemKey \in Secrets
    /\ legacyPair \in Pairs \cup {None} /\ sslCert \in Pairs \cup {None}
    /\ trusted \in Pairs \cup {None} /\ made \in Pairs \cup {None}
    /\ marker \in BOOLEAN /\ dbIsOpen \in BOOLEAN
    /\ alreadyImported \in BOOLEAN /\ dbFailed \in BOOLEAN
    /\ damaged \in BOOLEAN

\* The pairs are apart from the two values that stand for no pair.
LEMMA PairsApart ==
    /\ 1 \in Pairs /\ None \notin Pairs /\ Unreadable \notin Pairs
    /\ None # Unreadable
BY ClientIdentityAssumption DEF Pairs, None, Unreadable

LEMMA SecretsHave ==
    /\ Pairs \cup {None} \subseteq Secrets
    /\ None \in Secrets /\ Unreadable \in Secrets
BY DEF Secrets

LEMMA IdentityInitType == ClientIdentityInit => IdentityType
<1> SUFFICES ASSUME ClientIdentityInit PROVE IdentityType
    OBVIOUS
<1>1. legacyPair \in Pairs \cup {None} /\ made = legacyPair
      /\ trusted = legacyPair
    BY PairsApart DEF ClientIdentityInit
<1>2. vaultCert = None /\ vaultKey = None /\ pemCert = None /\ pemKey = None
      /\ sslCert = None
    BY DEF ClientIdentityInit
<1>3. marker = FALSE /\ dbIsOpen = FALSE /\ alreadyImported = FALSE
      /\ dbFailed = FALSE /\ damaged = FALSE
    BY DEF ClientIdentityInit
<1> QED BY <1>1, <1>2, <1>3, SecretsHave DEF IdentityType

LEMMA LoadType ==
    ASSUME IdentityType, NEW c \in Secrets, NEW k \in Secrets, AfterLoad(c, k)
    PROVE  pemCert' \in Secrets /\ pemKey' \in Secrets
BY SecretsHave DEF AfterLoad, IdentityType

LEMMA IdentityNextType ==
    ASSUME IdentityType, [ClientIdentityNext]_identityVars PROVE IdentityType'
<1>1. CASE LaunchClient
    <2>1. /\ dbIsOpen' \in BOOLEAN /\ alreadyImported' \in BOOLEAN
          /\ dbFailed' \in BOOLEAN
        BY <1>1 DEF LaunchClient, IdentityType
    <2> QED BY <1>1, <2>1, SecretsHave DEF LaunchClient, IdentityType, kept
<1>2. CASE LoadCredentials
    <2>1. pemCert' \in Secrets /\ pemKey' \in Secrets
        BY <1>2, LoadType, SecretsHave DEF LoadCredentials, IdentityType
    <2> QED BY <1>2, <2>1 DEF LoadCredentials, IdentityType, kept, trust
<1>3. CASE NoDurableVault
    BY <1>3 DEF NoDurableVault, IdentityType, kept, cached, trust
<1>4. ASSUME NEW from, NEW next, StoreCert(from, next) PROVE IdentityType'
    <2>1. vaultCert' \in Secrets
        BY <1>4 DEF StoreCert, IdentityType
    <2> QED BY <1>4, <2>1 DEF StoreCert, IdentityType, cached, trust
<1>5. ASSUME NEW from, NEW next, StoreKey(from, next) PROVE IdentityType'
    <2>1. vaultKey' \in Secrets
        BY <1>5 DEF StoreKey, IdentityType
    <2> QED BY <1>5, <2>1 DEF StoreKey, IdentityType, cached, trust
<1>6. CASE CheckCredentials
    <2>1. sslCert' \in Pairs \cup {None}
        BY <1>6 DEF CheckCredentials, IdentityType, Secrets
    <2> QED BY <1>6, <2>1 DEF CheckCredentials, IdentityType, kept, trust
<1>7. CASE CreateCredentials
    <2>1. made' \in Pairs
        BY <1>7, ClientIdentityAssumption
        DEF CreateCredentials, IdentityType, Pairs, None
    <2>2. pemCert' \in Secrets /\ pemKey' \in Secrets
          /\ sslCert' \in Pairs \cup {None}
        BY <1>7, <2>1, SecretsHave DEF CreateCredentials, IdentityType
    <2> QED BY <1>7, <2>1, <2>2 DEF CreateCredentials, IdentityType, kept, trust
<1>8. CASE RecordMigration
    BY <1>8 DEF RecordMigration, IdentityType, cached
<1>9. CASE RemoveLegacy
    BY <1>9 DEF RemoveLegacy, IdentityType, cached, trust
<1>10. CASE PairWithHost
    <2>1. trusted' \in Pairs \cup {None} /\ damaged' \in BOOLEAN
        BY <1>10 DEF PairWithHost, IdentityType
    <2> QED BY <1>10, <2>1 DEF PairWithHost, IdentityType, kept, cached
<1>11. CASE VaultDamaged
    <2>1. vaultCert' \in Secrets /\ vaultKey' \in Secrets
        BY <1>11, SecretsHave DEF VaultDamaged, IdentityType
    <2> QED BY <1>11, <2>1 DEF VaultDamaged, IdentityType, cached
<1>12. CASE StopClient
    BY <1>12 DEF StopClient, IdentityType, kept, cached, trust
<1>13. CASE UNCHANGED identityVars
    BY <1>13 DEF IdentityType, identityVars, kept, cached, trust
<1> QED BY <1>1, <1>2, <1>3, <1>4, <1>5, <1>6, <1>7, <1>8, <1>9, <1>10, <1>11,
           <1>12, <1>13 DEF ClientIdentityNext

LEMMA IdentityTypeInvariant == ClientIdentitySpec => []IdentityType
BY IdentityInitType, IdentityNextType, PTL DEF ClientIdentitySpec

(***************************************************************************)
(* The inductive invariant.                                                *)
(***************************************************************************)

Phases == {"off", "load", "migrateCert", "migrateKey", "check", "generate",
           "storeCert", "storeKey", "mark", "removeLegacy", "running"}

\* While the database works, this launch knows what the marker says, and has
\* written it before it runs.
MarkerKnown ==
    ~dbFailed =>
        /\ phase # "off" => dbIsOpen
        /\ phase \notin {"off", "removeLegacy", "running"} =>
              alreadyImported = marker
        /\ phase \in {"removeLegacy", "running"} => marker

Sound == trusted # None /\ ~damaged /\ ~dbFailed

\* What is kept: the vault holds the trusted pair or a part of it, and so do
\* the old settings as long as the marker is not written.
KeptPair ==
    /\ vaultCert \in {None, trusted} /\ vaultKey \in {None, trusted}
    /\ legacyPair \in {None, trusted}
    /\ legacyPair = trusted \/ Vaulted(trusted)
    /\ marker \/ legacyPair = trusted

\* What the constructor carries from step to step.
CarriedPair ==
    /\ phase \notin {"generate", "storeCert", "storeKey"}
    /\ phase \in {"migrateCert", "migrateKey", "check", "mark", "removeLegacy",
                  "running"} => pemCert = trusted /\ pemKey = trusted
    /\ phase = "migrateKey" => vaultCert = trusted
    /\ phase \in {"check", "mark", "removeLegacy", "running"} => Vaulted(trusted)

IdentityInv ==
    /\ phase \in Phases
    /\ MarkerKnown
    /\ Sound => KeptPair /\ CarriedPair

LEMMA IdentityInvInit == ClientIdentityInit => IdentityInv
<1> SUFFICES ASSUME ClientIdentityInit PROVE IdentityInv
    OBVIOUS
<1>1. phase = "off" /\ vaultCert = None /\ vaultKey = None
      /\ legacyPair = trusted
    BY DEF ClientIdentityInit
<1> QED BY <1>1
        DEF IdentityInv, Phases, MarkerKnown, KeptPair, CarriedPair, Vaulted

\* A step that keeps the trusted pair and takes no damage away.
LEMMA SoundBefore ==
    ASSUME UNCHANGED trust, Sound' PROVE Sound /\ trusted' = trusted
BY DEF trust, Sound

LEMMA LoadStep ==
    ASSUME IdentityType, IdentityInv, phase = "load", UNCHANGED <<kept, trust>>,
           NEW c \in {vaultCert, None}, NEW k \in {vaultKey, None},
           AfterLoad(c, k), UNCHANGED <<dbIsOpen, alreadyImported>>
    PROVE  IdentityInv'
<1>1. phase' \in {"check", "migrateCert", "off", "generate"}
    BY DEF AfterLoad, Enter
<1>2. MarkerKnown'
    BY <1>1 DEF IdentityInv, MarkerKnown, kept, trust
<1>3. ASSUME Sound' PROVE KeptPair' /\ CarriedPair'
    <2>1. Sound /\ trusted' = trusted /\ KeptPair
        BY <1>3, SoundBefore DEF IdentityInv
    <2>2. KeptPair'
        BY <2>1 DEF KeptPair, Vaulted, kept
    <2>3. CASE c # None /\ k # None
        <3>1. c = trusted /\ k = trusted /\ Vaulted(trusted)
            BY <2>1, <2>3 DEF KeptPair, Vaulted
        <3>2. pemCert' = trusted' /\ pemKey' = trusted' /\ phase' = "check"
            BY <2>1, <2>3, <3>1 DEF AfterLoad, Enter
        <3>3. Vaulted(trusted)'
            BY <2>1, <3>1 DEF Vaulted, kept
        <3> QED BY <2>2, <3>2, <3>3 DEF CarriedPair
    <2>4. CASE ~(c # None /\ k # None) /\ legacyPair # None
        <3>1. pemCert' = trusted' /\ pemKey' = trusted'
              /\ phase' = "migrateCert"
            BY <2>1, <2>4 DEF AfterLoad, Enter, KeptPair
        <3> QED BY <2>2, <3>1 DEF CarriedPair
    <2>5. CASE ~(c # None /\ k # None) /\ legacyPair = None
        <3>1. marker
            BY <2>1, <2>5 DEF KeptPair, Sound
        <3>2. alreadyImported
            BY <2>1, <3>1 DEF IdentityInv, MarkerKnown, Sound
        <3>3. phase' = "off"
            BY <2>5, <3>2 DEF AfterLoad, Enter
        <3> QED BY <2>2, <3>3 DEF CarriedPair
    <2> QED BY <2>2, <2>3, <2>4, <2>5
<1> QED BY <1>1, <1>2, <1>3 DEF IdentityInv, Phases

LEMMA IdentityInvNext ==
    ASSUME IdentityType, IdentityInv, [ClientIdentityNext]_identityVars
    PROVE  IdentityInv'
<1>1. CASE LaunchClient
    <2>1. phase' = "load" /\ (~dbFailed' => dbIsOpen') /\ marker' = marker
        BY <1>1 DEF LaunchClient, Enter, kept, IdentityType
    <2>2. ~dbFailed' => alreadyImported' = marker
        BY <1>1, <2>1 DEF LaunchClient, IdentityType
    <2>3. MarkerKnown'
        BY <2>1, <2>2 DEF MarkerKnown
    <2>4. ASSUME Sound' PROVE KeptPair' /\ CarriedPair'
        <3>1. Sound
            BY <1>1, <2>4 DEF LaunchClient, Sound, IdentityType
        <3>2. KeptPair'
            BY <1>1, <3>1 DEF LaunchClient, IdentityInv, KeptPair, Vaulted, kept
        <3> QED BY <2>1, <3>2 DEF CarriedPair
    <2> QED BY <2>1, <2>3, <2>4 DEF IdentityInv, Phases
<1>2. CASE LoadCredentials
    <2>1. phase = "load" /\ UNCHANGED <<kept, trust>>
          /\ UNCHANGED <<dbIsOpen, alreadyImported>>
        BY <1>2 DEF LoadCredentials
    <2>2. \/ AfterLoad(vaultCert, vaultKey) \/ AfterLoad(None, vaultKey)
          \/ AfterLoad(vaultCert, None) \/ AfterLoad(None, None)
        BY <1>2 DEF LoadCredentials
    <2> QED BY <2>1, <2>2, LoadStep
<1>3. CASE NoDurableVault \/ StopClient
    <2>1. phase' = "off" /\ UNCHANGED <<kept, trust>>
        BY <1>3 DEF NoDurableVault, StopClient, Enter
    <2>2. Sound' => KeptPair' /\ CarriedPair'
        BY <2>1, SoundBefore
        DEF IdentityInv, KeptPair, CarriedPair, Vaulted, kept
    <2> QED BY <2>1, <2>2 DEF IdentityInv, MarkerKnown, Phases
<1>4. CASE StoreCert("migrateCert", "migrateKey")
    <2>1. /\ phase = "migrateCert" /\ phase' \in {"migrateKey", "off"}
          /\ UNCHANGED <<trust, cached, vaultKey, legacyPair, marker>>
          /\ vaultCert' = pemCert \/ (phase' = "off" /\ vaultCert' = vaultCert)
        BY <1>4 DEF StoreCert, Enter
    <2>2. MarkerKnown'
        BY <2>1 DEF IdentityInv, MarkerKnown, trust, cached
    <2>3. ASSUME Sound' PROVE KeptPair' /\ CarriedPair'
        <3>1. Sound /\ trusted' = trusted /\ KeptPair /\ pemCert = trusted
              /\ pemKey = trusted
            BY <2>1, <2>3, SoundBefore DEF IdentityInv, CarriedPair
        <3>2. vaultCert' = trusted \/ (phase' = "off" /\ vaultCert' = vaultCert)
            BY <2>1, <3>1
        <3>3. KeptPair'
            BY <2>1, <3>1, <3>2 DEF KeptPair, Vaulted
        <3>4. phase' = "migrateKey" => vaultCert' = trusted'
            BY <3>1, <3>2
        <3>5. pemCert' = trusted' /\ pemKey' = trusted'
            BY <2>1, <3>1 DEF cached
        <3> QED BY <2>1, <3>3, <3>4, <3>5 DEF CarriedPair
    <2> QED BY <2>1, <2>2, <2>3 DEF IdentityInv, Phases
<1>5. CASE StoreKey("migrateKey", "check")
    <2>1. /\ phase = "migrateKey" /\ phase' \in {"check", "off"}
          /\ UNCHANGED <<trust, cached, vaultCert, legacyPair, marker>>
          /\ vaultKey' = pemKey \/ (phase' = "off" /\ vaultKey' = vaultKey)
        BY <1>5 DEF StoreKey, Enter
    <2>2. MarkerKnown'
        BY <2>1 DEF IdentityInv, MarkerKnown, trust, cached
    <2>3. ASSUME Sound' PROVE KeptPair' /\ CarriedPair'
        <3>1. Sound /\ trusted' = trusted /\ KeptPair /\ pemCert = trusted
              /\ pemKey = trusted /\ vaultCert = trusted
            BY <2>1, <2>3, SoundBefore DEF IdentityInv, CarriedPair
        <3>2. vaultKey' = trusted \/ (phase' = "off" /\ vaultKey' = vaultKey)
            BY <2>1, <3>1
        <3>3. KeptPair'
            BY <2>1, <3>1, <3>2 DEF KeptPair, Vaulted
        <3>4. phase' = "check" => Vaulted(trusted)'
            BY <2>1, <3>1, <3>2 DEF Vaulted
        <3>5. pemCert' = trusted' /\ pemKey' = trusted'
            BY <2>1, <3>1 DEF cached
        <3> QED BY <2>1, <3>3, <3>4, <3>5 DEF CarriedPair
    <2> QED BY <2>1, <2>2, <2>3 DEF IdentityInv, Phases
<1>6. CASE CheckCredentials
    <2>1. /\ phase = "check" /\ phase' \in {"generate", "mark"}
          /\ phase' = "generate" => Unreadable \in {pemCert, pemKey}
          /\ UNCHANGED <<trust, kept, dbIsOpen, alreadyImported, pemCert, pemKey>>
        BY <1>6 DEF CheckCredentials, Enter
    <2>2. MarkerKnown'
        BY <2>1 DEF IdentityInv, MarkerKnown, trust, kept
    <2>3. ASSUME Sound' PROVE KeptPair' /\ CarriedPair'
        <3>1. Sound /\ trusted' = trusted /\ KeptPair /\ pemCert = trusted
              /\ pemKey = trusted /\ Vaulted(trusted)
            BY <2>1, <2>3, SoundBefore DEF IdentityInv, CarriedPair
        <3>2. trusted # Unreadable
            BY <3>1, PairsApart DEF Sound, IdentityType
        <3>3. phase' = "mark"
            BY <2>1, <3>1, <3>2
        <3>4. KeptPair' /\ Vaulted(trusted)'
            BY <2>1, <3>1 DEF KeptPair, Vaulted, kept
        <3> QED BY <2>1, <3>1, <3>3, <3>4 DEF CarriedPair
    <2> QED BY <2>1, <2>2, <2>3 DEF IdentityInv, Phases
<1>7. CASE \/ CreateCredentials \/ StoreCert("storeCert", "storeKey")
           \/ StoreKey("storeKey", "mark")
    <2>1. /\ phase \in {"generate", "storeCert", "storeKey"}
          /\ phase' \in {"storeCert", "storeKey", "mark", "off"}
          /\ UNCHANGED <<trust, dbIsOpen, alreadyImported, marker>>
        BY <1>7 DEF CreateCredentials, StoreCert, StoreKey, Enter, kept, cached
    <2>2. MarkerKnown'
        BY <2>1 DEF IdentityInv, MarkerKnown, trust
    <2>3. ~Sound'
        BY <2>1, SoundBefore DEF IdentityInv, CarriedPair
    <2> QED BY <2>1, <2>2, <2>3 DEF IdentityInv, Phases
<1>8. CASE RecordMigration
    <2>1. /\ phase = "mark" /\ phase' \in {"removeLegacy", "running"}
          /\ phase' = "removeLegacy" => marker' = TRUE
          /\ UNCHANGED <<vaultCert, vaultKey, legacyPair, cached, trusted, damaged>>
          /\ marker' = TRUE \/ marker' = marker
        BY <1>8 DEF RecordMigration, Enter
    <2>2. ~dbFailed' => ~dbFailed /\ phase' = "removeLegacy"
        BY <1>8, <2>1 DEF RecordMigration, IdentityInv, MarkerKnown, Enter,
                          IdentityType
    <2>3. MarkerKnown'
        BY <2>1, <2>2 DEF IdentityInv, MarkerKnown, cached
    <2>4. ASSUME Sound' PROVE KeptPair' /\ CarriedPair'
        <3>1. Sound /\ trusted' = trusted
            BY <2>1, <2>2, <2>4 DEF Sound
        <3>2. KeptPair /\ CarriedPair
            BY <3>1 DEF IdentityInv
        <3>3. KeptPair'
            BY <2>1, <3>1, <3>2 DEF KeptPair, Vaulted
        <3>4. Vaulted(trusted)' /\ pemCert' = trusted' /\ pemKey' = trusted'
            BY <2>1, <3>1, <3>2 DEF CarriedPair, Vaulted, cached
        <3> QED BY <2>1, <3>3, <3>4 DEF CarriedPair
    <2> QED BY <2>1, <2>3, <2>4 DEF IdentityInv, Phases
<1>9. CASE RemoveLegacy
    <2>1. /\ phase = "removeLegacy" /\ phase' = "running"
          /\ legacyPair' \in {legacyPair, None}
          /\ UNCHANGED <<vaultCert, vaultKey, marker, cached, trust>>
        BY <1>9 DEF RemoveLegacy, Enter
    <2>2. MarkerKnown'
        BY <2>1 DEF IdentityInv, MarkerKnown, cached, trust
    <2>3. ASSUME Sound' PROVE KeptPair' /\ CarriedPair'
        <3>1. Sound /\ trusted' = trusted
            BY <2>1, <2>3, SoundBefore
        <3>2. KeptPair /\ CarriedPair /\ marker
            BY <2>1, <3>1 DEF IdentityInv, MarkerKnown, Sound
        <3>3. Vaulted(trusted)' /\ pemCert' = trusted' /\ pemKey' = trusted'
            BY <2>1, <3>1, <3>2 DEF CarriedPair, Vaulted, cached
        <3>4. KeptPair'
            BY <2>1, <3>1, <3>2, <3>3 DEF KeptPair
        <3> QED BY <2>1, <3>3, <3>4 DEF CarriedPair
    <2> QED BY <2>1, <2>2, <2>3 DEF IdentityInv, Phases
<1>10. CASE PairWithHost
    <2>1. /\ phase = "running" /\ phase' = "running" /\ trusted' = pemCert
          /\ pemCert = pemKey /\ UNCHANGED <<kept, cached, dbFailed>>
        BY <1>10 DEF PairWithHost
    <2>2. ~damaged' => Vaulted(pemCert) /\ legacyPair \in {None, pemCert}
        BY <1>10 DEF PairWithHost
    <2>3. MarkerKnown'
        BY <2>1 DEF IdentityInv, MarkerKnown, kept, cached
    <2>4. ASSUME Sound' PROVE KeptPair' /\ CarriedPair'
        <3>1. marker /\ Vaulted(pemCert) /\ legacyPair \in {None, pemCert}
            BY <2>1, <2>2, <2>4 DEF IdentityInv, MarkerKnown, Sound
        <3>2. Vaulted(trusted)' /\ pemCert' = trusted' /\ pemKey' = trusted'
            BY <2>1, <3>1 DEF Vaulted, kept, cached
        <3>3. KeptPair'
            BY <2>1, <3>1, <3>2 DEF KeptPair, Vaulted, kept
        <3> QED BY <2>1, <3>2, <3>3 DEF CarriedPair
    <2> QED BY <2>1, <2>3, <2>4 DEF IdentityInv, Phases
<1>11. CASE VaultDamaged
    <2>1. ~Sound' /\ phase' = phase /\ UNCHANGED <<marker, cached, dbFailed>>
        BY <1>11 DEF VaultDamaged, Sound
    <2> QED BY <2>1 DEF IdentityInv, MarkerKnown, cached
<1>12. CASE UNCHANGED identityVars
    BY <1>12 DEF identityVars, kept, cached, trust, IdentityInv, MarkerKnown,
                 Sound, KeptPair, CarriedPair, Vaulted
<1> QED BY <1>1, <1>2, <1>3, <1>4, <1>5, <1>6, <1>7, <1>8, <1>9, <1>10, <1>11,
           <1>12 DEF ClientIdentityNext

LEMMA IdentityInvariant == ClientIdentitySpec => []IdentityInv
BY IdentityTypeInvariant, IdentityInvInit, IdentityInvNext, PTL
   DEF ClientIdentitySpec

\* For every number of launches, crashes, failed lookups and failed writes: the
\* pair the Hosts trust can always be loaded from somewhere.
THEOREM PairIsKept == ClientIdentitySpec => []TrustedPairIsKept
<1>1. IdentityInv => TrustedPairIsKept
    BY DEF IdentityInv, Sound, KeptPair, TrustedPairIsKept
<1> QED BY <1>1, IdentityInvariant, PTL

\* Likewise, a client that runs has the pair its Hosts trust: where it cannot
\* load it, it has refused to start.
THEOREM RunsWithTrustedPair == ClientIdentitySpec => []NoSilentRotation
<1>1. IdentityInv => NoSilentRotation
    BY DEF IdentityInv, Sound, CarriedPair, NoSilentRotation
<1> QED BY <1>1, IdentityInvariant, PTL

-----------------------------------------------------------------------------
(* The types of the four parts, one in each behaviour.                     *)

TrustCounted == {rotations, games, quits} \subseteq Nat

LEMMA TrustCountedInit == HostTrustInit => TrustCounted
BY HostTrustAssumption DEF HostTrustInit, TrustCounted

LEMMA TrustCountedNext ==
    ASSUME TrustCounted, [HostTrustNext]_hostTrustVars PROVE TrustCounted'
<1> USE DEF trustVars, quitVars, hostSideVars
<1>1. CASE HostRotatesCert \/ HostStartsGame \/ HostEndsGame
    BY <1>1 DEF HostRotatesCert, HostStartsGame, HostEndsGame, TrustCounted
<1>2. ASSUME NEW o \in Observers, QueryStep(o) PROVE TrustCounted'
    BY <1>2 DEF QueryStep, StartQuery, HostAnswers, QueryFails, Update, TrustCounted
<1>3. CASE StartPairing \/ PairingStep
    BY <1>3 DEF StartPairing, PairingStep, PairingFails, PairingPins,
                PairingClearsChange, PairingCompletes, TrustCounted
<1>4. CASE QuitRunningApp \/ QuitTaskStep \/ HandleComputerStateChanged
    BY <1>4 DEF QuitRunningApp, QuitTaskStep, QuitTaskCancels, QuitTaskSucceeds,
                QuitTaskFails, HandleComputerStateChanged, TrustCounted
<1>5. CASE UNCHANGED hostTrustVars
    BY <1>5 DEF hostTrustVars, TrustCounted
<1> QED BY <1>1, <1>2, <1>3, <1>4, <1>5 DEF HostTrustNext

\* What a content can be, and where open() can stand.
Steps == {"off", "version", "backup", "vacuum", "apply", "close", "dropLog",
          "replace", "prune", "import", "running"}

ContentBound ==
    /\ file \in Content /\ seen \in Content /\ tx \in Content
    /\ \A v \in SchemaVersions : snapshots[v] \in Content \cup {NoSnapshot, Partial}
WorkBound ==
    /\ target \in SchemaVersions /\ stmt \in 1..(Statements + 1)
    /\ step \in Steps /\ saved \in Edits
    /\ launches \in Nat /\ faults \in Nat

LEMMA VersionsAndEdits ==
    /\ Statements \in Nat /\ Statements > 0 /\ MaxEdits \in Nat
    /\ 0 \in SchemaVersions /\ 0 \in Edits /\ Legacy \in Edits
    /\ \A b \in Builds : 1..b \subseteq SchemaVersions
<1>1. Statements \in Nat /\ Statements > 0 /\ MaxEdits \in Nat
    BY SettingsDatabaseAssumption
<1>2. PICK b \in Builds : b \in Nat
    BY SettingsDatabaseAssumption
<1>3. 0 \in 0..b
    BY <1>2
<1> QED BY <1>1, <1>3, SettingsDatabaseAssumption
        DEF SchemaVersions, Edits, Legacy

LEMMA EmptyContent == Empty \in Content
BY VersionsAndEdits DEF Empty, Content

LEMMA BoundsInit == SettingsDatabaseInit => ContentBound /\ WorkBound
<1> SUFFICES ASSUME SettingsDatabaseInit PROVE ContentBound /\ WorkBound
    OBVIOUS
<1>1. ContentBound
    BY EmptyContent DEF SettingsDatabaseInit, ContentBound
<1>2. target \in SchemaVersions /\ stmt \in 1..(Statements + 1) /\ saved \in Edits
    BY VersionsAndEdits DEF SettingsDatabaseInit
<1>3. step \in Steps /\ launches \in Nat /\ faults \in Nat
    BY DEF SettingsDatabaseInit, Steps
<1> QED BY <1>1, <1>2, <1>3 DEF WorkBound

LEMMA ContentNext ==
    ASSUME SettingsType, TargetOK, ContentBound, WorkBound,
           [SettingsDatabaseNext]_settingsVars
    PROVE  ContentBound'
<1> USE DEF files
<1>1. step \in Migrating => target \in SchemaVersions
    BY DEF WorkBound
<1>2. CASE \/ Launch \/ ReadVersion \/ MigrationFails \/ ImportNothing
           \/ UNCHANGED settingsVars
    BY <1>2 DEF Launch, ReadVersion, MigrationFails, ImportNothing,
                settingsVars, ContentBound
<1>3. CASE DropStaleSnapshot \/ PruneBackupSnapshots
    BY <1>3 DEF DropStaleSnapshot, PruneBackupSnapshots, ContentBound,
                SettingsType
<1>4. CASE TakeSnapshot \/ Crash
    BY <1>4 DEF TakeSnapshot, Crash, ContentBound, SettingsType
<1>5. CASE ExecStatement
    <2>1. <<target, stmt>> \in SchemaVersions \X (1..Statements)
        BY <1>5, VersionsAndEdits DEF ExecStatement, WorkBound
    <2>2. tx' \in Content
        BY <1>5, <2>1 DEF ExecStatement, ContentBound, Content
    <2> QED BY <1>5, <2>2 DEF ExecStatement, ContentBound
<1>6. CASE CommitMigration
    <2>1. seen' \in Content
        BY <1>6 DEF CommitMigration, ContentBound, WorkBound, Content
    <2> QED BY <1>6, <2>1 DEF CommitMigration, ContentBound
<1>7. CASE CloseConnection \/ DropLog \/ Checkpoint
    BY <1>7 DEF CloseConnection, DropLog, Checkpoint, ContentBound
<1>8. CASE ReplaceFile
    BY <1>8 DEF ReplaceFile, ContentBound, WorkBound
<1>9. CASE ImportLegacyHostRecords
    <2>1. seen' \in Content
        BY <1>9, VersionsAndEdits
        DEF ImportLegacyHostRecords, ContentBound, Content
    <2> QED BY <1>9, <2>1 DEF ImportLegacyHostRecords, ContentBound
<1>10. CASE ReplaceHostRecords
    <2>1. NextEdit \in Edits
        BY <1>10, VersionsAndEdits
        DEF ReplaceHostRecords, NextEdit, WorkBound, Edits, Legacy
    <2>2. seen' \in Content
        BY <1>10, <2>1 DEF ReplaceHostRecords, ContentBound, Content
    <2> QED BY <1>10, <2>2 DEF ReplaceHostRecords, ContentBound
<1> QED BY <1>2, <1>3, <1>4, <1>5, <1>6, <1>7, <1>8, <1>9, <1>10
        DEF SettingsDatabaseNext

LEMMA WorkNext ==
    ASSUME SettingsType, TargetOK, WorkBound, [SettingsDatabaseNext]_settingsVars
    PROVE  WorkBound'
<1> USE DEF claims
<1>1. ASSUME NEW v \in Nat, ChooseMigration(v), build' = build
      PROVE  target' \in SchemaVersions /\ step' \in Steps
    <2>1. CASE v < build /\ target' = v + 1
        <3>1. build \in Builds /\ target' \in 1..build
            BY <2>1, <1>1, BuildsAreNat DEF SettingsType
        <3>2. target' \in SchemaVersions
            BY <3>1, VersionsAndEdits
        <3> QED BY <1>1, <3>2 DEF ChooseMigration, Goto, Steps
    <2>2. CASE target' = target
        BY <1>1, <2>2 DEF ChooseMigration, Goto, Steps, WorkBound
    <2> QED BY <1>1, <2>1, <2>2 DEF ChooseMigration
<1>2. CASE Launch
    BY <1>2 DEF Launch, Goto, Steps, WorkBound
<1>3. CASE ReadVersion
    <2>1. seen.version \in Nat
        BY DEF SettingsType, Stored
    <2>2. target' \in SchemaVersions /\ step' \in Steps
        BY <1>1, <1>3, <2>1 DEF ReadVersion
    <2> QED BY <1>3, <2>2 DEF ReadVersion, Fault, WorkBound
<1>4. CASE DropStaleSnapshot \/ CloseConnection \/ DropLog \/ ReplaceFile
    BY <1>4 DEF DropStaleSnapshot, CloseConnection, DropLog, ReplaceFile, Fault,
                Goto, Steps, WorkBound
<1>5. CASE PruneBackupSnapshots \/ Checkpoint \/ Crash \/ ImportNothing
    BY <1>5 DEF PruneBackupSnapshots, Checkpoint, Crash, ImportNothing, Fault,
                Goto, Steps, WorkBound
<1>6. CASE TakeSnapshot
    <2>1. stmt' \in 1..(Statements + 1) /\ step' \in Steps
        BY <1>6, VersionsAndEdits DEF TakeSnapshot, Goto, Steps, WorkBound
    <2> QED BY <1>6, <2>1 DEF TakeSnapshot, Fault, WorkBound
<1>7. CASE ExecStatement
    <2>1. stmt' \in 1..(Statements + 1)
        BY <1>7, VersionsAndEdits DEF ExecStatement, WorkBound
    <2> QED BY <1>7, <2>1 DEF ExecStatement, WorkBound
<1>8. CASE CommitMigration
    <2>1. build \in Builds /\ build \in Nat /\ target \in 1..build
        BY <1>8, BuildsAreNat
        DEF CommitMigration, TargetOK, Migrating, SettingsType
    <2>2. target' \in 1..build
        BY <1>8, <2>1 DEF CommitMigration
    <2>3. target' \in SchemaVersions /\ step' \in Steps
        BY <1>8, <2>1, <2>2, VersionsAndEdits DEF CommitMigration, Goto, Steps
    <2> QED BY <1>8, <2>3 DEF CommitMigration, WorkBound
<1>9. CASE MigrationFails
    BY <1>9 DEF MigrationFails, Fault, Goto, Steps, WorkBound
<1>10. CASE ImportLegacyHostRecords
    <2>1. saved' \in Edits /\ step' \in Steps
        BY <1>10, VersionsAndEdits
        DEF ImportLegacyHostRecords, Goto, Steps, WorkBound
    <2> QED BY <1>10, <2>1 DEF ImportLegacyHostRecords, Fault, WorkBound
<1>11. CASE ReplaceHostRecords
    <2>1. saved' \in Edits
        BY <1>11, VersionsAndEdits
        DEF ReplaceHostRecords, NextEdit, WorkBound, Edits, Legacy
    <2> QED BY <1>11, <2>1 DEF ReplaceHostRecords, WorkBound
<1>12. CASE UNCHANGED settingsVars
    BY <1>12 DEF settingsVars, WorkBound
<1> QED BY <1>2, <1>3, <1>4, <1>5, <1>6, <1>7, <1>8, <1>9, <1>10, <1>11, <1>12
        DEF SettingsDatabaseNext

IdentityCounted == {lookups, damages, storeFaults} \subseteq Nat

LEMMA IdentityCountedInit == ClientIdentityInit => IdentityCounted
BY DEF ClientIdentityInit, IdentityCounted

LEMMA IdentityCountedNext ==
    ASSUME IdentityCounted, [ClientIdentityNext]_identityVars
    PROVE  IdentityCounted'
<1> USE DEF IdentityCounted, StoreFault, kept, cached, trust
<1>1. CASE LaunchClient \/ LoadCredentials \/ NoDurableVault
    BY <1>1 DEF LaunchClient, LoadCredentials, NoDurableVault
<1>2. ASSUME NEW from, NEW next, StoreCert(from, next) PROVE IdentityCounted'
    BY <1>2 DEF StoreCert
<1>3. ASSUME NEW from, NEW next, StoreKey(from, next) PROVE IdentityCounted'
    BY <1>3 DEF StoreKey
<1>4. CASE CheckCredentials \/ CreateCredentials \/ RecordMigration
    BY <1>4 DEF CheckCredentials, CreateCredentials, RecordMigration
<1>5. CASE RemoveLegacy \/ PairWithHost \/ VaultDamaged \/ StopClient
    BY <1>5 DEF RemoveLegacy, PairWithHost, VaultDamaged, StopClient
<1>6. CASE UNCHANGED identityVars
    BY <1>6 DEF identityVars
<1> QED BY <1>1, <1>2, <1>3, <1>4, <1>5, <1>6 DEF ClientIdentityNext

(***************************************************************************)
(* All four.                                                               *)
(***************************************************************************)

TrustPart == TrustType /\ TrustCounted
SettingsPart == SettingsType /\ TargetOK /\ ContentBound /\ WorkBound
IdentityPart == IdentityType /\ IdentityInv /\ IdentityCounted

BackendInv == ManagerInv /\ TrustPart /\ SettingsPart /\ IdentityPart

LEMMA BackendInit == MCInit => BackendInv
<1> SUFFICES ASSUME MCInit PROVE BackendInv
    OBVIOUS
<1>1. /\ HostManagerInit /\ HostTrustInit /\ SettingsDatabaseInit
      /\ ClientIdentityInit
    BY DEF MCInit
<1>2. TrustPart
    BY <1>1, TrustInitType, TrustCountedInit DEF TrustPart
<1>3. SettingsPart
    BY <1>1, SettingsInit, BoundsInit DEF SettingsPart
<1>4. IdentityPart
    BY <1>1, IdentityInitType, IdentityInvInit, IdentityCountedInit
    DEF IdentityPart
<1> QED BY <1>1, <1>2, <1>3, <1>4, ManagerInit DEF BackendInv

LEMMA BackendNext == BackendInv /\ [MCNext]_mcVars => BackendInv'
<1> SUFFICES ASSUME BackendInv, [MCNext]_mcVars PROVE BackendInv'
    OBVIOUS
<1>1. /\ [HostManagerNext]_hostManagerVars
      /\ [HostTrustNext]_hostTrustVars
      /\ [SettingsDatabaseNext]_settingsVars
      /\ [ClientIdentityNext]_identityVars
    BY DEF MCNext, mcVars
<1>2. ManagerInv'
    BY <1>1, ManagerNext DEF BackendInv
<1>3. TrustPart'
    BY <1>1, TrustNextType, TrustCountedNext DEF BackendInv, TrustPart
<1>4. SettingsPart'
    BY <1>1, SettingsNext, ContentNext, WorkNext DEF BackendInv, SettingsPart
<1>5. IdentityPart'
    BY <1>1, IdentityNextType, IdentityInvNext, IdentityCountedNext
    DEF BackendInv, IdentityPart
<1> QED BY <1>2, <1>3, <1>4, <1>5 DEF BackendInv

\* The variables of the four parts keep their types: no version, record count
\* or migration target leaves its range, whatever fails or is interrupted.
THEOREM BackendTypes == MCSpec => []BackendTypeOK
<1>1. ManagerInv => HostManagerTypeOK
    BY ManagerTypes
<1>2. TrustPart => HostTrustTypeOK
    BY DEF TrustPart, TrustType, TrustCounted, HostTrustTypeOK
<1>3. SettingsPart => SettingsDatabaseTypeOK
    <2> SUFFICES ASSUME SettingsPart PROVE SettingsDatabaseTypeOK
        OBVIOUS
    <2>1. /\ {file, seen, tx} \subseteq Content
          /\ \A v \in SchemaVersions :
                snapshots[v] \in Content \cup {NoSnapshot, Partial}
        BY DEF SettingsPart, ContentBound
    <2>2. {legacy, logLost, reimported} \subseteq BOOLEAN /\ build \in Builds
        BY DEF SettingsPart, SettingsType
    <2> QED BY <2>1, <2>2
            DEF SettingsPart, WorkBound, Steps, SettingsDatabaseTypeOK
<1>4. IdentityPart => ClientIdentityTypeOK
    BY DEF IdentityPart, IdentityType, IdentityInv, Phases, IdentityCounted,
           ClientIdentityTypeOK
<1>5. BackendInv => BackendTypeOK
    BY <1>1, <1>2, <1>3, <1>4 DEF BackendInv, BackendTypeOK
<1> QED BY <1>5, BackendInit, BackendNext, PTL DEF MCSpec
=============================================================================
