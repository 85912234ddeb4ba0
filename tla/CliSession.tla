----------------------------- MODULE CliSession -----------------------------
(***************************************************************************)
(* The command line over the in-memory world: a heartbeat before each      *)
(* command, the command itself, an autosave after it; users who log in and *)
(* out; the process that stops and is started again with the state file it *)
(* left.                                                                   *)
(*                                                                         *)
(* A command goes through the phases "command" (the heartbeat, then the    *)
(* use case) and "autosave" before the prompt returns.  A failed autosave  *)
(* prints a warning.  An exception or Ctrl-C anywhere else in the command  *)
(* skips the autosave, whatever the command has changed by then.           *)
(***************************************************************************)
EXTENDS WorldSnapshot

CONSTANTS
    NoFile,         \* there is no snapshot file
    NoUser,         \* nobody is logged in
    DiskMayFail     \* whether a write of the file may raise OSError

ASSUME NoFileAssumption == NoFile \notin WorldStateSnapshot

VARIABLES
    cli,            \* the phase of the process
    session,        \* the role of AuthorizationService.current_user
    changed,        \* heartbeat_changed of the command in progress
    file,           \* the default state file
    aside,          \* a state file the operator has moved out of the way
    behind,         \* file may lag: an autosave failed, a use case was cut
                    \* short after a change, or another file was loaded, and
                    \* nothing has been saved since
    mutated         \* the use case in progress has changed the world

cliVars == <<vars, cli, session, changed, file, aside, behind, mutated>>

world == <<routes, packages, trucks, nextRouteId, nextPackageId, accounts>>

Roles == {"EMPLOYEE", "MANAGER"}

\* ROLE_PERMISSIONS: both roles may run every command on the world, only a
\* manager may save or load it.
Allowed(user, perm) ==
    CASE user = NoUser -> FALSE
      [] user = "EMPLOYEE" -> perm = "LOGISTICS"
      [] user = "MANAGER" -> TRUE

CliInit ==
    /\ Init
    /\ cli = "down"
    /\ session = NoUser
    /\ changed = FALSE
    /\ file = NoFile
    /\ aside = NoFile
    /\ behind = FALSE
    /\ mutated = FALSE

-----------------------------------------------------------------------------
(* Starting and stopping                                                   *)

\* main(): a new container, nobody logged in, no state file to load.
StartEmpty ==
    /\ cli = "down"
    /\ file = NoFile
    /\ cli' = "prompt"
    /\ session' = NoUser
    /\ behind' = FALSE
    /\ UNCHANGED <<vars, changed, file, aside, mutated>>

\* _load_default_world_state dispatches LOAD_WORLD while nobody is logged in:
\* the use case denies it and main() does not handle the PermissionError.
StartDenied ==
    /\ cli = "down"
    /\ file # NoFile
    /\ ~ Allowed(NoUser, "APP_LOAD_STATE")
    /\ cli' = "failed"
    /\ UNCHANGED <<vars, session, changed, file, aside, behind, mutated>>

\* The operator moves the file away so that the program starts again.
MoveAside ==
    /\ cli = "failed"
    /\ aside' = file
    /\ file' = NoFile
    /\ cli' = "down"
    /\ UNCHANGED <<vars, session, changed, behind, mutated>>

\* The process ends in any phase, and the in-memory world with it.
Stop ==
    /\ cli \notin {"down", "failed"}
    /\ cli' = "down"
    /\ routes' = [r \in RouteIds |-> NoRoute]
    /\ packages' = [p \in PackageIds |-> NoPackage]
    /\ trucks' = [t \in Trucks |-> FreeTruck(InitialLocation[t])]
    /\ nextRouteId' = 1
    /\ nextPackageId' = 1
    /\ accounts' = [c \in Customers |-> {}]
    /\ job' = Idle
    /\ session' = NoUser
    /\ changed' = FALSE
    /\ behind' = FALSE
    /\ mutated' = FALSE
    /\ UNCHANGED <<clock, file, aside>>

-----------------------------------------------------------------------------
(* Session commands: no heartbeat, no autosave                             *)

Login(role) ==
    /\ cli = "prompt"
    /\ session' = role
    /\ UNCHANGED <<vars, cli, changed, file, aside, behind, mutated>>

Logout ==
    /\ cli = "prompt"
    /\ session # NoUser
    /\ session' = NoUser
    /\ UNCHANGED <<vars, cli, changed, file, aside, behind, mutated>>

\* `load' of the file that was moved aside; it is not autosaved.
LoadAside ==
    /\ cli = "prompt"
    /\ Allowed(session, "APP_LOAD_STATE")
    /\ aside # NoFile
    /\ LoadWorld(aside)
    /\ behind' = TRUE
    /\ UNCHANGED <<cli, session, changed, file, aside, mutated>>

-----------------------------------------------------------------------------
(* Engine._exec_line_in_context                                            *)

\* Any line: ADVANCE_WORLD_STATE is dispatched, whoever is logged in.
EnterCommand ==
    /\ cli = "prompt"
    /\ Heartbeat
    /\ cli' = "command"
    /\ changed' = FALSE
    /\ UNCHANGED <<session, file, aside, behind, mutated>>

HeartbeatStep ==
    /\ cli = "command"
    /\ \E r \in RouteIds : ReconcileRoute(r) \/ ReconcileRouteFails(r)
    /\ changed' = (changed \/ world # world')
    /\ UNCHANGED <<cli, session, file, aside, behind, mutated>>

\* Faulty variant: the autosave is left to commands that follow no change.
AutosaveDueUnlessBeat(mutates) == mutates /\ ~ changed

\* autosave_enabled is TRUE: the memory backend is the one that is modelled.
AutosaveDue(mutates) == changed \/ mutates

PhaseAfter(mutates) == IF AutosaveDue(mutates) THEN "autosave" ELSE "prompt"

\* A use case that changes the world; the batch assignment runs on until its
\* loop has ended.
Mutate ==
    /\ cli = "command"
    /\ Allowed(session, "LOGISTICS")
    /\ \/ \E path \in Paths, dep \in Departures : CreateRoute(path, dep)
       \/ \E parcel \in Parcels, c \in Customers : CreatePackage(parcel, c)
       \/ \E r \in RouteIds, ids \in SUBSET PackageIds \ {{}} : AssignPackagesToRoute(r, ids)
       \/ \E p \in PackageIds : AssignPackage(p) \/ SkipPackage(p)
       \/ \E r \in RouteIds, t \in Trucks : AssignTruckToRoute(r, t)
       \/ \E r \in RouteIds : RemoveRoute(r)
       \/ \E p \in PackageIds : RemovePackage(p)
    /\ cli' = IF job'.kind = "idle" THEN PhaseAfter(TRUE) ELSE "command"
    /\ mutated' = TRUE
    /\ UNCHANGED <<session, changed, file, aside, behind>>

\* A query.
View ==
    /\ cli = "command"
    /\ job.kind = "idle"
    /\ Allowed(session, "LOGISTICS")
    /\ cli' = PhaseAfter(FALSE)
    /\ UNCHANGED <<vars, session, changed, file, aside, behind, mutated>>

\* The command ends in an exception: a ValueError or PermissionError of wrong
\* input or a missing right, before the use case changes anything; any other
\* exception, or Ctrl-C, in the middle of the heartbeat or of a batch, or after
\* the use case, the autosave included.  The prompt returns without an autosave
\* and without a warning about the file; what was changed stays.
CutShort ==
    /\ cli \in {"command", "autosave"}
    /\ cli' = "prompt"
    /\ job' = Idle
    /\ behind' = (behind \/ mutated)
    /\ mutated' = FALSE
    /\ changed' = FALSE
    /\ UNCHANGED <<world, clock, session, file, aside>>

\* SaveWorldStateUseCase.execute: the file is written beside the old one and
\* renamed over it, so that a write that fails leaves the old one.
SaveWorld ==
    /\ Allowed(session, "APP_SAVE_STATE")
    /\ file' = CurrentSnapshot
    /\ behind' = FALSE

\* The `save' command to the default path.
Save ==
    /\ cli = "command"
    /\ job.kind = "idle"
    /\ SaveWorld
    /\ cli' = PhaseAfter(FALSE)
    /\ UNCHANGED <<vars, session, changed, aside, mutated>>

Autosave ==
    /\ cli = "autosave"
    /\ SaveWorld
    /\ cli' = "prompt"
    /\ mutated' = FALSE
    /\ changed' = FALSE
    /\ UNCHANGED <<vars, session, aside>>

\* "Warning: autosave failed"
AutosaveFails ==
    /\ cli = "autosave"
    /\ Allowed(session, "APP_SAVE_STATE") => DiskMayFail
    /\ behind' = TRUE
    /\ cli' = "prompt"
    /\ mutated' = FALSE
    /\ changed' = FALSE
    /\ UNCHANGED <<vars, session, file, aside>>

TimePasses ==
    /\ Tick
    /\ UNCHANGED <<cli, session, changed, file, aside, behind, mutated>>

CliNext ==
    \/ StartEmpty
    \/ StartDenied
    \/ MoveAside
    \/ Stop
    \/ \E role \in Roles : Login(role)
    \/ Logout
    \/ LoadAside
    \/ EnterCommand
    \/ HeartbeatStep
    \/ Mutate
    \/ View
    \/ CutShort
    \/ Save
    \/ Autosave
    \/ AutosaveFails
    \/ TimePasses

CliSpec == CliInit /\ [][CliNext]_cliVars

-----------------------------------------------------------------------------
(* Properties                                                              *)

\* Type invariant: the phases of the process and what it keeps on disk.
CliTypeOK ==
    /\ TypeOK
    /\ cli \in {"down", "failed", "prompt", "command", "autosave"}
    /\ session \in Roles \cup {NoUser}
    /\ changed \in BOOLEAN
    /\ file \in WorldStateSnapshot \cup {NoFile}
    /\ aside \in WorldStateSnapshot \cup {NoFile}
    /\ behind \in BOOLEAN
    /\ mutated \in BOOLEAN

\* What a load at this instant would bring back from s.
Recovered(s) ==
    [routes |-> [r \in RouteIds |-> LoadedRoute(s, r, clock)],
     packages |-> [p \in PackageIds |-> LoadedPackage(s, p, clock)],
     trucks |-> [t \in Trucks |-> LoadedTruck(s, t, clock)],
     nextRouteId |-> s.nextRouteId, nextPackageId |-> s.nextPackageId]

\* At the prompt the state file brings the world back, up to what a heartbeat
\* computes anyway, unless an autosave failed with a warning or a use case was
\* cut short after it had changed the world, and then only until the next save.
\* A heartbeat loses nothing, although a command that is refused, raises or is
\* cancelled before its use case changes anything skips the heartbeat's autosave.
AutosaveKeepsUp ==
    cli = "prompt" /\ ~ behind =>
        IF file = NoFile
        THEN LiveRoutes = {} /\ LivePackages = {}
        ELSE ValidSnapshot(file) /\ Recovered(file) = Recovered(CurrentSnapshot)

\* "Startup recovery runs when autosave is enabled": a state file that the
\* program left never keeps it from starting.
StartupRecovers == cli # "failed"

=============================================================================
