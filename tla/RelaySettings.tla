--------------------------- MODULE RelaySettings ---------------------------
(***************************************************************************)
(* The destination of the stream: its URL, kept with the scene collection  *)
(* (relay-settings.cpp), its key, kept by CredentialStore; the dialog that *)
(* sets both, points OBS at the relay and restarts the relay               *)
(* (setup-dialog.cpp, streaming-setup.cpp); and the dock's part in it      *)
(* (syncManagedRelayStartup, openSetupDialog, onRestartRelayClicked).      *)
(* The dialogs run event loops of their own: everything else goes on while *)
(* one is open.  setup_complete_ is set with the URL and never without, so *)
(* url # None stands for both.                                             *)
(***************************************************************************)
EXTENDS RelayProcess, CredentialStore

CONSTANTS
    Urls, Collections,
    Missing,       \* a collection that was never saved with the plugin
    MaxEvents      \* bound on what the operator, OBS and the manager do

ASSUME SomeCollection == Collections # {} /\ MaxEvents \in Nat

VARIABLES
    url,           \* output_url_
    disk,          \* what each collection holds of it
    collection,    \* the scene collection in use
    saveQueued,    \* obs_frontend_save was called; OBS saves later
    syncQueued,    \* syncManagedRelayStartup is on the event queue
    dialog,        \* the dialog of the dock that is open
    streaming,     \* obs_frontend_streaming_active
    service,       \* the streaming service of OBS: the relay, or the operator's own
    dockState,     \* process_state_ of the dock
    used,          \* the destination the relay was started with (ghost)
    drifted,       \* the destination changed without a restart since (ghost)
    events         \* how many bounded events have happened (ghost)

svars == <<url, disk, collection, saveQueued, syncQueued, dialog, streaming, service,
           dockState, used, drifted, events>>
vars == <<pvars, cvars, svars>>

Destination == <<url, ReadStreamKey>>
Complete == url # None /\ ReadStreamKey # None

(* A relay that is started remembers with what; a later change is drift.   *)
Remember ==
    IF state' = "Running" /\ session' # session
    THEN used' = Destination' /\ drifted' = FALSE
    ELSE UNCHANGED <<used, drifted>>

Drift(change) == drifted' = (drifted \/ change) /\ UNCHANGED used

Event == events < MaxEvents /\ events' = events + 1

(* Mutant: a collection without an entry empties the settings.             *)
Loaded_Unchecked(c, before) == disk[c]

(* loadFromObsData: a collection without an entry changes nothing.         *)
Loaded(c, before) == IF disk[c] = Missing THEN before ELSE disk[c]

(* Mutant: a relay that is being stopped counts as down.                   *)
Busy_StoppingIsDown == {"Running"}

(* The states in which syncManagedRelayStartup has nothing to do.          *)
Busy == {"Running", "Stopping"}

Init ==
    /\ ProcessInit /\ StoreInit
    /\ disk = [c \in Collections |-> Missing] /\ collection = CHOOSE c \in Collections : TRUE
    /\ url = None /\ saveQueued = FALSE /\ syncQueued = TRUE
    /\ dialog = "closed" /\ streaming = FALSE /\ service = "own"
    /\ dockState = "Idle" /\ used = <<None, None>> /\ drifted = FALSE /\ events = 0
-----------------------------------------------------------------------------
(* syncManagedRelayStartup.  It resets the dock's state before the start:  *)
(* a second failure to find the binary is not signalled, and leaves Idle.  *)
Sync ==
    /\ UNCHANGED <<cvars, url, disk, collection, saveQueued, dialog, streaming, service, events>>
    /\ syncQueued /\ syncQueued' = FALSE
    /\ \/ /\ state \in Busy
          /\ UNCHANGED <<pvars, dockState, used, drifted>>
       \/ /\ state \notin Busy /\ url # None
          /\ \E found \in BOOLEAN : Start(found, Complete)
          /\ dockState' = IF state = "FailedToStart" /\ session' = session
                             THEN "Idle" ELSE state'
          /\ Remember
       \/ /\ state \notin Busy /\ url = None
          /\ dockState' = "FailedToStart" /\ UNCHANGED <<pvars, used, drifted>>

(* The process ends, or its stop is forced; the dock is told of its state. *)
ProcessEnds ==
    /\ UNCHANGED <<cvars, url, disk, collection, saveQueued, syncQueued, dialog, streaming,
                   service, events>>
    /\ \E found \in BOOLEAN : OnProcessFinished(found, Complete)
    /\ dockState' = state' /\ Remember

ForceStop == TerminateFallback /\ UNCHANGED <<cvars, svars>>

(* openSetupDialog from its button or maybePromptSetup: not while a stream *)
(* is on.  onRestartRelayClicked: the button is off during a stop.         *)
OpenDialog(d) ==
    /\ dialog = "closed" /\ dialog' = d /\ Event
    /\ \/ d = "setup" /\ ~streaming
       \/ d = "restart" /\ dockState # "Stopping"
    /\ UNCHANGED <<pvars, cvars, url, disk, collection, saveQueued, syncQueued, streaming,
                   service, dockState, used, drifted>>

(* applySettings up to its question.                                       *)
ApplySettings ==
    /\ dialog = "setup" /\ ~streaming /\ dialog' = "confirm"
    /\ UNCHANGED <<pvars, cvars, url, disk, collection, saveQueued, syncQueued, streaming,
                   service, dockState, used, drifted, events>>

(* No to a question, or the setup dialog cancelled.                        *)
Dismiss ==
    /\ dialog # "closed"
    /\ dialog' = IF dialog = "confirm" THEN "setup" ELSE "closed"
    /\ UNCHANGED <<pvars, cvars, url, disk, collection, saveQueued, syncQueued, streaming,
                   service, dockState, used, drifted, events>>

(* Mutant: saveDestination leaves it to OBS when to save.                  *)
SaveDestination_NotSaved(u, k) ==
    /\ WriteStreamKey(k) /\ url' = u /\ UNCHANGED saveQueued

(* saveDestination with fields that are filled in and a URL that is valid. *)
SaveDestination(u, k) ==
    /\ WriteStreamKey(k) /\ url' = u /\ saveQueued' = TRUE

(* Mutant: applyLocalRelayIngest trusts the check before the question.     *)
ApplyLocalRelayIngest_Unchecked == service' = "relay"

(* applyLocalRelayIngest: OBS is pointed at the relay, never during a      *)
(* stream.                                                                 *)
ApplyLocalRelayIngest == ~streaming /\ service' = "relay"

(* Mutant: the relay goes on with the destination it was started with.     *)
RestartAfterSetup_Omitted == UNCHANGED pvars

(* The end of openSetupDialog, with the destination just saved.            *)
RestartAfterSetup == \E found \in BOOLEAN : RestartRelay(found, Complete')

(* Yes to the question of applySettings: the rest of it, and of            *)
(* openSetupDialog.  The fields are those of the dialog.                   *)
ConfirmSetup(u, k) ==
    /\ dialog = "confirm"
    /\ \/ /\ SaveDestination(u, k) /\ ApplyLocalRelayIngest /\ dialog' = "closed"
          /\ RestartAfterSetup
          /\ dockState' = state' /\ Remember
       \/ /\ SaveDestination(u, k) /\ dialog' = "setup" /\ UNCHANGED service
          /\ UNCHANGED <<pvars, dockState>> /\ Drift(TRUE)
       \/ /\ WriteFails /\ dialog' = "setup"
          /\ UNCHANGED <<pvars, url, saveQueued, service, dockState>> /\ Drift(TRUE)
    /\ UNCHANGED <<disk, collection, syncQueued, streaming, events>>

(* Yes to the question of onRestartRelayClicked.                           *)
ConfirmRestart ==
    /\ UNCHANGED <<cvars, url, disk, collection, saveQueued, syncQueued, streaming, service, events>>
    /\ dialog = "restart" /\ dialog' = "closed"
    /\ \E found \in BOOLEAN : RestartRelay(found, Complete)
    /\ dockState' = state' /\ Remember
-----------------------------------------------------------------------------
(* OBS saves the collection: relaySettingsCallback with saving.            *)
Save ==
    /\ disk[collection] # url \/ saveQueued
    /\ disk' = [disk EXCEPT ![collection] = url] /\ saveQueued' = FALSE
    /\ UNCHANGED <<pvars, cvars, url, collection, syncQueued, dialog, streaming, service,
                   dockState, used, drifted, events>>

(* OBS saves the collection in use and loads another: relaySettingsCallback*)
(* for both.  A collection that has no entry keeps the URL in memory.      *)
SwitchCollection(c) ==
    /\ c # collection /\ collection' = c /\ Event
    /\ disk' = [disk EXCEPT ![collection] = url]
    /\ url' = Loaded(c, url) /\ syncQueued' = TRUE /\ Drift(url' # url)
    /\ UNCHANGED <<pvars, cvars, saveQueued, dialog, streaming, service, dockState>>

(* OBS ends, after a last save or not, and starts again with what is kept. *)
ObsEnds(saved) ==
    /\ Event /\ Shutdown /\ UNCHANGED <<cvars, collection, service>>
    /\ disk' = IF saved THEN [disk EXCEPT ![collection] = url] ELSE disk
    /\ url' = Loaded(collection, None)'
    /\ saveQueued' = FALSE /\ syncQueued' = TRUE
    /\ dialog' = "closed" /\ streaming' = FALSE /\ dockState' = "Idle"
    /\ used' = <<None, None>> /\ drifted' = FALSE

Stream ==
    /\ streaming' = ~streaming /\ IF streaming THEN UNCHANGED events ELSE Event
    /\ UNCHANGED <<pvars, cvars, url, disk, collection, saveQueued, syncQueued, dialog, service,
                   dockState, used, drifted>>

(* The operator picks a service in the settings of OBS, off the air.       *)
OwnService ==
    /\ ~streaming /\ service = "relay" /\ service' = "own" /\ Event
    /\ UNCHANGED <<pvars, cvars, url, disk, collection, saveQueued, syncQueued, dialog, streaming,
                   dockState, used, drifted>>

Outage ==
    /\ Event /\ ManagerOutage /\ Drift(TRUE)
    /\ UNCHANGED <<pvars, url, disk, collection, saveQueued, syncQueued, dialog, streaming, service,
                   dockState>>

Next ==
    \/ Sync \/ ProcessEnds \/ ForceStop
    \/ \E d \in {"setup", "restart"} : OpenDialog(d)
    \/ ApplySettings \/ Dismiss \/ ConfirmRestart
    \/ \E u \in Urls, k \in Keys : ConfirmSetup(u, k)
    \/ Save \/ (\E c \in Collections : SwitchCollection(c))
    \/ \E saved \in BOOLEAN : ObsEnds(saved)
    \/ Stream \/ OwnService \/ Outage

(* Queued calls run, the timer of a stop runs out, a killed process ends.  *)
Fairness == WF_vars(Sync) /\ WF_vars(ForceStop) /\ WF_vars(killed /\ ProcessEnds)

Spec == Init /\ [][Next]_vars /\ Fairness
-----------------------------------------------------------------------------
SettingsTypeOK ==
    /\ ProcessTypeOK /\ StoreTypeOK
    /\ url \in Urls \cup {None}
    /\ disk \in [Collections -> Urls \cup {None, Missing}] /\ collection \in Collections
    /\ <<saveQueued, syncQueued, streaming, drifted>> \in BOOLEAN \X BOOLEAN \X BOOLEAN \X BOOLEAN
    /\ dialog \in {"closed", "setup", "confirm", "restart"}
    /\ service \in {"own", "relay"}
    /\ dockState \in {"Idle", "Running", "Stopping", "Crashed", "FailedToStart"}
    /\ used \in (Urls \cup {None}) \X Stored
    /\ events \in Nat

(* What the dock shows differs from the supervisor's state only between    *)
(* states in which no relay is up: syncManagedRelayStartup writes the      *)
(* dock's copy itself, all else goes through the signal.                   *)
DockFollows ==
    dockState # state => /\ dockState \in {"Idle", "FailedToStart"}
                         /\ state \in {"Idle", "Crashed", "FailedToStart"}

(* A relay that runs has a complete destination, and it is the saved one,  *)
(* unless the destination has changed in a way that restarts no relay:     *)
(* another collection, an outage, a save the dialog could not complete.    *)
RelayUsesSaved ==
    state = "Running" => /\ used \in Urls \X Keys
                         /\ drifted \/ used = Destination

(* A crash of OBS takes a destination only while OBS owes a save of it.    *)
SetupSurvives == disk[collection] \in {url, Missing} \/ saveQueued

(* The service of OBS never changes under a stream, although the setup     *)
(* dialog checks for one before it asks and acts on the answer after.      *)
ServiceFixedOnAir == [][streaming /\ streaming' => service' = service]_vars

(* A relay that is being stopped makes place for the one that was asked    *)
(* for, whatever the old one does: the dock sees it run, or fail.          *)
RestartEnds == state = "Stopping" ~> dockState \in {"Running", "FailedToStart"}
=============================================================================
