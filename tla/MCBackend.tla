------------------------------ MODULE MCBackend ------------------------------
(***************************************************************************)
(* What the client keeps about itself and its Hosts, for TLC: the manager  *)
(* of the Hosts, the record of one Host, the settings database and the     *)
(* identity of the client.  A behaviour runs one part; the others keep     *)
(* their first state.                                                      *)
(*                                                                         *)
(* The bounds that HostManager's initial states leave free are spent in    *)
(* three ways:                                                             *)
(*   tasks:   two add tasks race each other, a deletion and the end of the *)
(*            program, without polling                                     *)
(*   polling: polling is started and stopped around edits, a deletion, the *)
(*            end of the program and flushes that may fail                 *)
(*   readded: a Host is deleted and found again while polling is on        *)
(***************************************************************************)
EXTENDS HostManager, HostTrust, SettingsDatabase, ClientIdentity

VARIABLE part

mcVars == <<part, hostManagerVars, hostTrustVars, settingsVars, identityVars>>

Spent(a) == add[a].at = "done"
OneAdder == CHOOSE a \in Adders : TRUE

HostParts == {"tasks", "polling", "readded"}

HostScenarios ==
    \/ /\ part = "tasks"
       /\ starts = MaxStarts /\ failures = 0 /\ version = 1
       /\ \A a \in Adders : ~Spent(a)
    \/ /\ part = "polling"
       /\ starts = 0 /\ failures = 0 /\ version = 1
       /\ \A a \in Adders : Spent(a)
    \/ /\ part = "readded"
       /\ starts = MaxStarts - 1 /\ failures = MaxFailures
       /\ version = MaxVersion /\ known # NoObject
       /\ \A a \in Adders : Spent(a) <=> a # OneAdder

\* The Host changes its certificate, or runs applications.
TrustScenarios ==
    \/ rotations = 0 /\ games = MaxGames /\ quits = MaxQuits
    \/ rotations = MaxRotations /\ games = 0 /\ quits = 0

\* One of the initial states, for a part that does not run.
HostsRest ==
    /\ known = NoObject /\ version = 1 /\ starts = 0 /\ failures = 0
    /\ \A a \in Adders : Spent(a)
TrustRest ==
    /\ hostCert = CHOOSE c \in Certs : TRUE
    /\ serverCert = NoCert /\ ~hostGame
    /\ rotations = 0 /\ games = 0 /\ quits = 0
SettingsRest == ~legacy /\ build = CHOOSE b \in Builds : TRUE
IdentityRest == legacyPair = None

MCInit ==
    /\ part \in HostParts \cup {"trust", "settings", "identity"}
    /\ HostManagerInit /\ HostTrustInit /\ SettingsDatabaseInit
    /\ ClientIdentityInit
    /\ IF part \in HostParts THEN HostScenarios ELSE HostsRest
    /\ IF part = "trust" THEN TrustScenarios ELSE TrustRest
    /\ part # "settings" => SettingsRest
    /\ part # "identity" => IdentityRest

MCNext ==
    /\ UNCHANGED part
    /\ \/ /\ part \in HostParts /\ HostManagerNext
          /\ part # "polling" => main'.at # "edit"
          /\ part = "readded" => ~quitting'
          /\ UNCHANGED <<hostTrustVars, settingsVars, identityVars>>
       \/ /\ part = "trust" /\ HostTrustNext
          /\ UNCHANGED <<hostManagerVars, settingsVars, identityVars>>
       \/ /\ part = "settings" /\ SettingsDatabaseNext
          /\ UNCHANGED <<hostManagerVars, hostTrustVars, identityVars>>
       \/ /\ part = "identity" /\ ClientIdentityNext
          /\ UNCHANGED <<hostManagerVars, hostTrustVars, settingsVars>>

\* Every thread of the manager that can go on does.  (Weak fairness is enough
\* for DeletionEnds.)
MCSpec ==
    /\ MCInit /\ [][MCNext]_mcVars
    /\ WF_hostManagerVars(MainStep)
    /\ WF_hostManagerVars(DelStep)
    /\ \A t \in Pollers : WF_hostManagerVars(PollerStep(t))
    /\ \A a \in Adders : WF_hostManagerVars(AddStep(a))

\* Every variable of the four parts keeps its type.
BackendTypeOK ==
    /\ HostManagerTypeOK /\ HostTrustTypeOK
    /\ SettingsDatabaseTypeOK /\ ClientIdentityTypeOK
==============================================================================
