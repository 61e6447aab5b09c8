--------------------------- MODULE ClientIdentity ---------------------------
(***************************************************************************)
(* The certificate and the private key the client is paired with           *)
(* (src/app/backend/identitymanager.cpp over core/credentialstore.cpp):    *)
(* IdentityManager's constructor as a procedure that loads them from the   *)
(* vault of the operating system, migrates them from the old settings,     *)
(* refuses to start or makes new ones, with a crash possible between any   *)
(* two of its writes.                                                      *)
(*                                                                         *)
(* A certificate and a key that belong together carry the same number.     *)
(* Every qFatal() ends the process and is, for what is kept, a stop like   *)
(* any other.                                                              *)
(***************************************************************************)
EXTENDS Integers

CONSTANTS
    MaxMade,      \* bound: pairs ever made
    MaxLookups,   \* bound: lookups of the vault that fail
    MaxDamages,   \* bound: times the vault loses or spoils an entry
    MaxStoreFaults \* bound: writes to the vault or the database that fail

ASSUME ClientIdentityAssumption ==
    /\ MaxMade \in Nat \ {0}
    /\ {MaxLookups, MaxDamages, MaxStoreFaults} \subseteq Nat

None == 0          \* an empty QByteArray
Unreadable == -1   \* bytes that do not parse
Pairs == 1..MaxMade
Secrets == Pairs \cup {None, Unreadable}

VARIABLES
    vaultCert, vaultKey,   \* what the vault holds
    legacyPair,            \* "certificate" and "key" of the old settings
    marker,                \* IDENTITY_MIGRATION_MARKER in the database
    phase,                 \* where the constructor is; "off" when not running
    dbIsOpen,              \* of this launch
    alreadyImported,       \* of this launch: the marker, as it was read
    pemCert, pemKey,       \* m_CachedPemCert, m_CachedPrivateKey
    sslCert,               \* m_CachedSslCert, parsed from the first on demand
    made,                  \* pairs made so far
    trusted,               \* the pair the Hosts were paired with
    dbFailed,              \* the database did not open, or did not read or
                           \* write the marker
    damaged,               \* the vault was damaged since
    lookups, damages, storeFaults  \* spent of the bounds

kept == <<vaultCert, vaultKey, legacyPair, marker>>
cached == <<dbIsOpen, alreadyImported, pemCert, pemKey, sslCert>>
trust == <<trusted, damaged, dbFailed>>
identityVars == <<kept, cached, phase, made, trust,
                  lookups, damages, storeFaults>>

\* A new installation, or one whose pair is still in the old settings.
ClientIdentityInit ==
    /\ vaultCert = None /\ vaultKey = None
    /\ legacyPair \in {None, 1} /\ made = legacyPair
    /\ marker = FALSE
    /\ phase = "off" /\ dbIsOpen = FALSE /\ alreadyImported = FALSE
    /\ pemCert = None /\ pemKey = None /\ sslCert = None
    /\ trusted = legacyPair /\ dbFailed = FALSE /\ damaged = FALSE
    /\ lookups = 0 /\ damages = 0 /\ storeFaults = 0

Vaulted(p) == vaultCert = p /\ vaultKey = p

StoreFault == storeFaults < MaxStoreFaults /\ storeFaults' = storeFaults + 1

Enter(p) == phase' = p

(***************************************************************************)
(* The constructor.                                                        *)
(***************************************************************************)

\* A marker that cannot be read is taken for absent, as one of a database that
\* did not open is.
LaunchClient ==
    /\ phase = "off"
    /\ \/ /\ dbIsOpen' = TRUE /\ alreadyImported' = marker
          /\ UNCHANGED <<dbFailed, storeFaults>>
       \/ /\ dbIsOpen' \in BOOLEAN /\ alreadyImported' = FALSE
          /\ dbFailed' = TRUE /\ StoreFault
    /\ pemCert' = None /\ pemKey' = None /\ sslCert' = None
    /\ Enter("load")
    /\ UNCHANGED <<kept, made, trusted, damaged, lookups, damages>>

\* X_Mistake, here and below, is the definition X with a plausible mistake in
\* it.  No specification uses it: it shows that a property would catch it.
AfterLoad_Regenerates(cert, key) ==
    IF cert # None /\ key # None
    THEN pemCert' = cert /\ pemKey' = key /\ Enter("check")
    ELSE IF legacyPair # None
    THEN pemCert' = legacyPair /\ pemKey' = legacyPair /\ Enter("migrateCert")
    ELSE pemCert' = cert /\ pemKey' = key /\ Enter("generate")

\* Where the constructor goes with what the vault gave.  A legacy pair is
\* taken; with none, a vault that was seen to hold a pair stops the program.
AfterLoad(cert, key) ==
    IF cert # None /\ key # None
    THEN pemCert' = cert /\ pemKey' = key /\ Enter("check")
    ELSE IF legacyPair # None
    THEN pemCert' = legacyPair /\ pemKey' = legacyPair /\ Enter("migrateCert")
    ELSE /\ pemCert' = cert /\ pemKey' = key
         /\ Enter(IF alreadyImported THEN "off" ELSE "generate")

\* getSecret() answers with an empty array when the lookup fails.
LoadCredentials ==
    /\ phase = "load"
    /\ \/ AfterLoad(vaultCert, vaultKey) /\ UNCHANGED lookups
       \/ /\ lookups < MaxLookups /\ lookups' = lookups + 1
          /\ \/ AfterLoad(None, vaultKey)
             \/ AfterLoad(vaultCert, None)
             \/ AfterLoad(None, None)
    /\ UNCHANGED <<kept, dbIsOpen, alreadyImported, sslCert, made, trust,
                   damages, storeFaults>>

\* Without the credential service nothing is found, and every way on from
\* there is a qFatal().
NoDurableVault ==
    /\ phase = "load" /\ Enter("off")
    /\ UNCHANGED <<kept, cached, made, trust, lookups, damages, storeFaults>>

\* setSecret() of the certificate and then of the key; a failure is fatal.
StoreCert(from, next) ==
    /\ phase = from
    /\ \/ vaultCert' = pemCert /\ Enter(next) /\ UNCHANGED storeFaults
       \/ StoreFault /\ Enter("off") /\ UNCHANGED vaultCert
    /\ UNCHANGED <<vaultKey, legacyPair, marker, cached, made, trust, lookups,
                   damages>>

StoreKey_Unchecked(from, next) ==
    /\ phase = from /\ Enter(next)
    /\ \/ vaultKey' = pemKey /\ UNCHANGED storeFaults
       \/ StoreFault /\ UNCHANGED vaultKey
    /\ UNCHANGED <<vaultCert, legacyPair, marker, cached, made, trust, lookups,
                   damages>>

StoreKey(from, next) ==
    /\ phase = from
    /\ \/ vaultKey' = pemKey /\ Enter(next) /\ UNCHANGED storeFaults
       \/ StoreFault /\ Enter("off") /\ UNCHANGED vaultKey
    /\ UNCHANGED <<vaultCert, legacyPair, marker, cached, made, trust, lookups,
                   damages>>

\* An unreadable certificate or key is replaced with the other half.  The
\* certificate is parsed first, and stays parsed.
CheckCredentials ==
    /\ phase = "check"
    /\ sslCert' = IF pemCert = Unreadable THEN None ELSE pemCert
    /\ Enter(IF Unreadable \in {pemCert, pemKey} THEN "generate" ELSE "mark")
    /\ UNCHANGED <<kept, dbIsOpen, alreadyImported, pemCert, pemKey, made,
                   trust, lookups, damages, storeFaults>>

\* createCredentials(): getSslCertificate() parses only what it has not.
CreateCredentials ==
    /\ phase = "generate" /\ made < MaxMade
    /\ made' = made + 1
    /\ pemCert' = made' /\ pemKey' = made'
    /\ sslCert' = IF sslCert = None THEN made' ELSE sslCert
    /\ Enter("storeCert")
    /\ UNCHANGED <<kept, dbIsOpen, alreadyImported, trust, lookups, damages,
                   storeFaults>>

\* The marker is written once the vault holds a readable pair, and read back.
RecordMigration ==
    /\ phase = "mark"
    /\ \/ /\ alreadyImported \/ dbIsOpen
          /\ marker' = TRUE /\ Enter("removeLegacy")
          /\ UNCHANGED <<dbFailed, storeFaults>>
       \/ /\ ~alreadyImported
          /\ IF dbIsOpen THEN StoreFault /\ dbFailed' = TRUE
                         ELSE UNCHANGED <<dbFailed, storeFaults>>
          /\ Enter("running")
          /\ UNCHANGED marker
    /\ UNCHANGED <<vaultCert, vaultKey, legacyPair, cached, made, trusted,
                   damaged, lookups, damages>>

\* The plaintext pair is removed from the old settings; a failure is logged.
RemoveLegacy ==
    /\ phase = "removeLegacy"
    /\ \/ legacyPair' = None /\ UNCHANGED storeFaults
       \/ StoreFault /\ UNCHANGED legacyPair
    /\ Enter("running")
    /\ UNCHANGED <<vaultCert, vaultKey, marker, cached, made, trust, lookups,
                   damages>>

(***************************************************************************)
(* Around it.                                                              *)
(***************************************************************************)

\* A Host is paired, which succeeds when the certificate sent, the one of the
\* connection and the key belong together.  Damage is over when the pair is in
\* the vault and no older one is left in the old settings.
PairWithHost ==
    /\ phase = "running" /\ trusted # pemCert
    /\ pemCert = pemKey /\ sslCert = pemCert
    /\ trusted' = pemCert
    /\ damaged' = ~(Vaulted(pemCert) /\ legacyPair \in {None, pemCert})
    /\ UNCHANGED <<kept, cached, phase, made, dbFailed, lookups, damages,
                   storeFaults>>

\* The vault of the system loses or spoils an entry.
VaultDamaged ==
    /\ damages < MaxDamages /\ damages' = damages + 1
    /\ \/ vaultCert' \in {None, Unreadable} /\ UNCHANGED vaultKey
       \/ vaultKey' \in {None, Unreadable} /\ UNCHANGED vaultCert
    /\ damaged' = TRUE
    /\ UNCHANGED <<legacyPair, marker, cached, phase, made, trusted, dbFailed,
                   lookups, storeFaults>>

\* The client ends, or is killed.
StopClient ==
    /\ phase # "off" /\ Enter("off")
    /\ UNCHANGED <<kept, cached, made, trust, lookups, damages, storeFaults>>

ClientIdentityNext ==
    \/ LaunchClient \/ LoadCredentials \/ NoDurableVault
    \/ StoreCert("migrateCert", "migrateKey") \/ StoreKey("migrateKey", "check")
    \/ CheckCredentials \/ CreateCredentials
    \/ StoreCert("storeCert", "storeKey") \/ StoreKey("storeKey", "mark")
    \/ RecordMigration \/ RemoveLegacy
    \/ PairWithHost \/ VaultDamaged \/ StopClient

ClientIdentitySpec ==
    ClientIdentityInit /\ [][ClientIdentityNext]_identityVars

(***************************************************************************)
(* Properties.                                                             *)
(***************************************************************************)

\* Every variable keeps its type.
ClientIdentityTypeOK ==
    /\ {vaultCert, vaultKey, pemCert, pemKey} \subseteq Secrets
    /\ {legacyPair, sslCert, trusted, made} \subseteq Pairs \cup {None}
    /\ {marker, dbIsOpen, alreadyImported, dbFailed, damaged} \subseteq BOOLEAN
    /\ phase \in {"off", "load", "migrateCert", "migrateKey", "check",
                  "generate", "storeCert", "storeKey", "mark", "removeLegacy",
                  "running"}
    /\ {lookups, damages, storeFaults} \subseteq Nat

\* The pair the Hosts trust is always somewhere it can be loaded from: the old
\* settings give it up only when the vault has all of it
\* (identitymanager.cpp:218-241), and nothing else takes it out of there while
\* the vault is not damaged and the database can be opened and written.
TrustedPairIsKept ==
    trusted = None \/ damaged \/ dbFailed
        \/ legacyPair = trusted \/ Vaulted(trusted)

\* The client never goes on with another pair than the one its Hosts trust:
\* when the vault does not answer it refuses to start
\* (identitymanager.cpp:174-183).
NoSilentRotation ==
    phase = "running" /\ trusted # None =>
        damaged \/ dbFailed \/ (pemCert = trusted /\ pemKey = trusted)
=============================================================================
