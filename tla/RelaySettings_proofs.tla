----------------------- MODULE RelaySettings_proofs -----------------------
(***************************************************************************)
(* Proofs about RelaySettings, for any keys, URLs, collections and number  *)
(* of events: the supervisor is sound and behaves as RelayLife promises,   *)
(* the store behaves as KeyRegister does, the dock follows the supervisor, *)
(* and the invariants about the destination.                               *)
(***************************************************************************)
EXTENDS RelaySettings, TLAPS

(* Every step is a step of the supervisor or leaves it alone, and the same *)
(* of the store.                                                           *)
LEMMA StepParts ==
  ASSUME [Next]_vars
  PROVE  [ProcessNext]_pvars /\ [StoreNext]_cvars
<1>0. Complete \in BOOLEAN /\ Complete' \in BOOLEAN
  BY DEF Complete
<1> USE DEF ProcessNext, StoreNext
<1>1. CASE Sync
  BY <1>0, <1>1, Zenon DEF Sync
<1>2. CASE ProcessEnds
  BY <1>0, <1>2, Zenon DEF ProcessEnds
<1>3. CASE ForceStop
  BY <1>3, Zenon DEF ForceStop
<1>4. CASE \E d \in {"setup", "restart"} : OpenDialog(d)
  BY <1>4 DEF OpenDialog
<1>5. CASE ApplySettings \/ Dismiss \/ Save \/ Stream \/ OwnService
  BY <1>5 DEF ApplySettings, Dismiss, Save, Stream, OwnService
<1>6. CASE ConfirmRestart
  BY <1>0, <1>6, Zenon DEF ConfirmRestart
<1>7. ASSUME NEW u \in Urls, NEW k \in Keys, ConfirmSetup(u, k)
      PROVE  [ProcessNext]_pvars /\ [StoreNext]_cvars
  <2>1. CASE SaveDestination(u, k) /\ RestartAfterSetup
    BY <1>0, <1>7, <2>1, Zenon DEF SaveDestination, RestartAfterSetup
  <2>2. CASE SaveDestination(u, k) /\ UNCHANGED pvars
    BY <2>2, Zenon DEF SaveDestination
  <2>3. CASE WriteFails /\ UNCHANGED pvars
    BY <2>3, Zenon
  <2> QED
    BY <1>7, <2>1, <2>2, <2>3 DEF ConfirmSetup, pvars
<1>8. CASE \E c \in Collections : SwitchCollection(c)
  BY <1>8 DEF SwitchCollection
<1>9. CASE \E saved \in BOOLEAN : ObsEnds(saved)
  BY <1>9 DEF ObsEnds
<1>10. CASE Outage
  BY <1>10 DEF Outage
<1>11. CASE UNCHANGED vars
  BY <1>11 DEF vars
<1> QED
  BY <1>1, <1>2, <1>3, <1>4, <1>5, <1>6, <1>7, <1>8, <1>9, <1>10, <1>11 DEF Next
-----------------------------------------------------------------------------
(* The supervisor.                                                         *)

SupervisorInv == ProcessTypeOK /\ SupervisorSound

LEMMA ProcessTypeStep ==
  ASSUME ProcessTypeOK, [ProcessNext]_pvars
  PROVE  ProcessTypeOK'
<1>1. ASSUME NEW found \in BOOLEAN, NEW complete \in BOOLEAN, StartRelay(found, complete)
      PROVE  /\ state' \in {"Running", "FailedToStart"} /\ proc' \in BOOLEAN /\ session' \in Nat
  <2>1. state' \in {"Running", "FailedToStart"} /\ proc' \in BOOLEAN
    BY <1>1, Zenon DEF StartRelay
  <2>2. session' = session \/ session' = session + 1
    BY <1>1, Zenon DEF StartRelay
  <2> QED
    BY <2>1, <2>2 DEF ProcessTypeOK
<1>2. ASSUME NEW found \in BOOLEAN, NEW complete \in BOOLEAN,
             \/ Start(found, complete)
             \/ RestartRelay(found, complete)
             \/ OnProcessFinished(found, complete)
      PROVE  ProcessTypeOK'
  BY <1>1, <1>2 DEF Start, RestartRelay, OnProcessFinished, CompleteIntentionalStop, ProcessTypeOK
<1>3. CASE TerminateFallback \/ Shutdown \/ UNCHANGED pvars
  BY <1>3 DEF TerminateFallback, Shutdown, pvars, ProcessTypeOK
<1> QED
  BY <1>2, <1>3, Zenon DEF ProcessNext

LEMMA SoundStep ==
  ASSUME SupervisorInv, [ProcessNext]_pvars
  PROVE  SupervisorSound'
<1>1. ASSUME NEW found \in BOOLEAN, NEW complete \in BOOLEAN, StartRelay(found, complete)
      PROVE  (state' = "FailedToStart" /\ ~proc') \/ (state' = "Running" /\ proc')
  BY <1>1, Zenon DEF StartRelay
<1>2. ASSUME NEW found \in BOOLEAN, NEW complete \in BOOLEAN, Start(found, complete)
      PROVE  SupervisorSound'
  <2>1. ~intentionalStop' /\ ~pendingRestart' /\ ~killTimer' /\ ~killed'
    BY <1>2, Zenon DEF Start, SupervisorInv, SupervisorSound, StateIsProcess, StopIsForced
  <2>2. (state' = "FailedToStart" /\ ~proc') \/ (state' = "Running" /\ proc')
    BY <1>1, <1>2, Zenon DEF Start
  <2> QED
    BY <2>1, <2>2, Zenon DEF SupervisorSound, StateIsProcess, StopIsForced
<1>3. ASSUME NEW found \in BOOLEAN, NEW complete \in BOOLEAN, RestartRelay(found, complete)
      PROVE  SupervisorSound'
  <2>1. CASE ~proc
    <3>1. ~killTimer /\ ~killed
      BY <2>1, Zenon DEF SupervisorInv, SupervisorSound, StateIsProcess, StopIsForced
    <3>2. CompleteIntentionalStop(found, complete) /\ killTimer' = killTimer /\ killed' = killed
      BY <1>3, <2>1 DEF RestartRelay
    <3>3. ~intentionalStop' /\ ~pendingRestart' /\ ~killTimer' /\ ~killed'
      BY <3>1, <3>2, Zenon DEF CompleteIntentionalStop
    <3>4. (state' = "FailedToStart" /\ ~proc') \/ (state' = "Running" /\ proc')
      BY <1>1, <3>2, Zenon DEF CompleteIntentionalStop
    <3> QED
      BY <3>3, <3>4, Zenon DEF SupervisorSound, StateIsProcess, StopIsForced
  <2>2. CASE proc
    BY <1>3, <2>2 DEF RestartRelay, SupervisorSound, StateIsProcess, StopIsForced
  <2> QED
    BY <2>1, <2>2
<1>4. ASSUME NEW found \in BOOLEAN, NEW complete \in BOOLEAN, OnProcessFinished(found, complete)
      PROVE  SupervisorSound'
  <2>1. CASE intentionalStop
    <3>1. ~intentionalStop' /\ ~pendingRestart' /\ ~killTimer' /\ ~killed'
      BY <1>4, <2>1, Zenon DEF OnProcessFinished, CompleteIntentionalStop
    <3>2. (state' = "FailedToStart" /\ ~proc') \/ (state' = "Running" /\ proc')
      BY <1>1, <1>4, <2>1, Zenon DEF OnProcessFinished, CompleteIntentionalStop
    <3> QED
      BY <3>1, <3>2, Zenon DEF SupervisorSound, StateIsProcess, StopIsForced
  <2>2. CASE ~intentionalStop
    <3>0. ~pendingRestart
      BY <2>2, Zenon DEF SupervisorInv, SupervisorSound, StopIsForced
    <3>1. ~intentionalStop' /\ ~pendingRestart' /\ ~killTimer' /\ ~killed'
      BY <1>4, <2>2, <3>0 DEF OnProcessFinished
    <3> QED
      BY <1>4, <2>2, <3>1 DEF OnProcessFinished, SupervisorSound, StateIsProcess, StopIsForced
  <2> QED
    BY <2>1, <2>2
<1>5. CASE TerminateFallback
  BY <1>5, Zenon DEF TerminateFallback, SupervisorInv, SupervisorSound, StateIsProcess, StopIsForced
<1>6. CASE Shutdown
  BY <1>6 DEF Shutdown, SupervisorSound, StateIsProcess, StopIsForced
<1>7. CASE UNCHANGED pvars
  BY <1>7 DEF pvars, SupervisorInv, SupervisorSound, StateIsProcess, StopIsForced
<1> QED
  BY <1>2, <1>3, <1>4, <1>5, <1>6, <1>7, Zenon DEF ProcessNext

LEMMA SupervisorAlways == Spec => []SupervisorInv
<1>1. Init => SupervisorInv
  <2>1. Init => ProcessTypeOK
    <3>1. ASSUME Init PROVE state \in {"Idle"} /\ session \in Nat
      BY <3>1 DEF Init, ProcessInit
    <3> QED
      BY <3>1, Zenon DEF Init, ProcessInit, ProcessTypeOK
  <2>2. Init => SupervisorSound
    BY Zenon DEF Init, ProcessInit, SupervisorSound, StateIsProcess, StopIsForced
  <2> QED
    BY <2>1, <2>2 DEF SupervisorInv
<1>2. SupervisorInv /\ [Next]_vars => SupervisorInv'
  BY StepParts, ProcessTypeStep, SoundStep DEF SupervisorInv
<1> QED
  BY <1>1, <1>2, PTL DEF Spec

(* The dock is shown what the process does, and a stop is forced and       *)
(* followed by the restart: setState and the flags of relay-process.cpp.   *)
THEOREM Supervision == Spec => []SupervisorSound
  BY SupervisorAlways, PTL DEF SupervisorInv

(* Every step of the supervisor is one RelayLife allows.                   *)
LEMMA LifeStep ==
  ASSUME SupervisorInv, [ProcessNext]_pvars
  PROVE  [Life!Next]_(Life!lvars)
<1>1. /\ ~proc => state \in Life!Down
      /\ proc /\ intentionalStop => state = "Stopping"
      /\ proc /\ ~intentionalStop => state = "Running"
  BY DEF SupervisorInv, ProcessTypeOK, SupervisorSound, StateIsProcess, Life!Down
<1>2. ASSUME NEW found \in BOOLEAN, NEW complete \in BOOLEAN,
             StartRelay(found, complete), state \in Life!Down \/ state = "Stopping"
      PROVE  Life!Next
  BY <1>2 DEF StartRelay, Life!Next, Life!Start
<1>3. ASSUME NEW found \in BOOLEAN, NEW complete \in BOOLEAN, Start(found, complete)
      PROVE  Life!Next
  BY <1>1, <1>2, <1>3, Zenon DEF Start
<1>4. ASSUME NEW found \in BOOLEAN, NEW complete \in BOOLEAN, RestartRelay(found, complete)
      PROVE  [Life!Next]_(Life!lvars)
  <2>1. CASE ~proc
    BY <1>1, <1>2, <1>4, <2>1, Zenon DEF RestartRelay, CompleteIntentionalStop
  <2>2. CASE proc
    <3>1. state' = "Stopping" /\ session' = session
      BY <1>4, <2>2 DEF RestartRelay
    <3> QED
      BY <1>1, <2>2, <3>1, Zenon DEF Life!Next, Life!Stop, Life!lvars
  <2> QED
    BY <2>1, <2>2
<1>5. ASSUME NEW found \in BOOLEAN, NEW complete \in BOOLEAN, OnProcessFinished(found, complete)
      PROVE  Life!Next
  <2>1. CASE intentionalStop
    BY <1>1, <1>2, <1>5, <2>1, Zenon DEF OnProcessFinished, CompleteIntentionalStop
  <2>2. CASE ~intentionalStop
    BY <1>1, <1>5, <2>2, Zenon DEF OnProcessFinished, Life!Next, Life!Die
  <2> QED
    BY <2>1, <2>2
<1>6. CASE TerminateFallback \/ Shutdown \/ UNCHANGED pvars
  BY <1>6 DEF TerminateFallback, Shutdown, pvars, Life!Next, Life!Forget, Life!lvars
<1> QED
  BY <1>3, <1>4, <1>5, <1>6, Zenon DEF ProcessNext

(* The supervisor implements RelayLife, whatever happens to settings, keys *)
(* and dialogs meanwhile.                                                  *)
THEOREM ImplementsLife == Spec => LifeSteps
<1>1. Init => Life!Init
  BY DEF Init, ProcessInit, Life!Init
<1>2. SupervisorInv /\ [Next]_vars => [Life!Next]_(Life!lvars)
  BY StepParts, LifeStep
<1> QED
  BY <1>1, <1>2, SupervisorAlways, PTL DEF Spec, LifeSteps, Life!Spec
-----------------------------------------------------------------------------
(* The store of the key.                                                   *)

LEMMA StoreTypeStep ==
  ASSUME StoreTypeOK, [StoreNext]_cvars
  PROVE  StoreTypeOK'
<1>1. ASSUME NEW k \in Keys, WriteStreamKey(k)
      PROVE  StoreTypeOK'
  BY <1>1 DEF WriteStreamKey, WriteManager, WriteDpapiFile, ManagerRefused, StoreTypeOK, Stored
<1>2. CASE WriteFails
  BY <1>2 DEF WriteFails, ManagerRefused, StoreTypeOK, Stored
<1>3. CASE ManagerOutage
  BY <1>3 DEF ManagerOutage, StoreTypeOK
<1>4. CASE UNCHANGED cvars
  BY <1>4 DEF cvars, StoreTypeOK
<1> QED
  BY <1>1, <1>2, <1>3, <1>4 DEF StoreNext

LEMMA StoreTypeAlways == Spec => []StoreTypeOK
<1>1. Init => StoreTypeOK
  BY DEF Init, StoreInit, StoreTypeOK, Stored
<1>2. StoreTypeOK /\ [Next]_vars => StoreTypeOK'
  BY StepParts, StoreTypeStep
<1> QED
  BY <1>1, <1>2, PTL DEF Spec

(* A read returns a key the store holds; none only if it holds none, or is *)
(* out of reach.                                                           *)
LEMMA ReadAnswers ==
  ASSUME StoreTypeOK
  PROVE  ReadStreamKey \in Register!Answers({manager, legacy, dpapi} \cap Keys, reachable)
BY NoneIsNoKey DEF StoreTypeOK, Stored, ReadStreamKey, Register!Answers

LEMMA RegisterStep ==
  ASSUME StoreTypeOK, [StoreNext]_cvars
  PROVE  [Register!Next]_(Register!kvars)
<1> DEFINE held == {manager, legacy, dpapi} \cap Keys
<1>1. StoreTypeOK'
  BY StoreTypeStep
<1>2. ReadStreamKey' \in Register!Answers(held', reachable')
  BY <1>1, NoneIsNoKey DEF StoreTypeOK, Stored, ReadStreamKey, Register!Answers
<1>3. ASSUME NEW k \in Keys, WriteManager(k)
      PROVE  Register!Save(k)
  <2>1. reachable /\ reachable' = reachable /\ held' = {k}
    BY <1>3, NoneIsNoKey DEF WriteManager
  <2> QED
    BY <1>2, <2>1 DEF Register!Save
<1>4. ASSUME NEW k \in Keys, WriteDpapiFile(k)
      PROVE  Register!Save(k)
  <2>1. reachable' = reachable /\ k \in held' /\ held' \in SUBSET (held \cup {k})
    BY <1>4, NoneIsNoKey DEF WriteDpapiFile, ManagerRefused
  <2>2. ASSUME reachable PROVE held' = {k}
    BY <1>4, <2>2, NoneIsNoKey DEF WriteDpapiFile, ManagerRefused
  <2> QED
    BY <1>2, <2>1, <2>2 DEF Register!Save
<1>5. CASE WriteFails
  <2>1. reachable' = reachable /\ held' \in SUBSET held
    BY <1>5, NoneIsNoKey DEF WriteFails, ManagerRefused
  <2> QED
    BY <1>2, <2>1 DEF Register!FailToSave, Register!Next
<1>6. CASE ManagerOutage
  <2>1. reachable' = ~reachable /\ held' = held
    BY <1>6 DEF ManagerOutage
  <2> QED
    BY <1>2, <2>1 DEF Register!Outage, Register!Next
<1>7. CASE UNCHANGED cvars
  BY <1>7 DEF cvars, Register!kvars, ReadStreamKey
<1> QED
  BY <1>3, <1>4, <1>5, <1>6, <1>7 DEF StoreNext, WriteStreamKey, Register!Next

(* Saving and reading the key behave as KeyRegister promises, whichever    *)
(* place the key ends in and wherever a write fails.                       *)
THEOREM ImplementsRegister == Spec => RegisterSteps
<1>1. Init => Register!Init
  <2> SUFFICES ASSUME Init PROVE Register!Init
    OBVIOUS
  <2>1. StoreTypeOK
    BY DEF Init, StoreInit, StoreTypeOK, Stored
  <2>2. {manager, legacy, dpapi} \cap Keys \in {{}} \cup {{k} : k \in Keys}
    BY NoneIsNoKey DEF Init, StoreInit, Stored
  <2> QED
    BY <2>1, <2>2, ReadAnswers DEF Register!Init, Init, StoreInit
<1>2. StoreTypeOK /\ [Next]_vars => [Register!Next]_(Register!kvars)
  BY StepParts, RegisterStep
<1> QED
  BY <1>1, <1>2, StoreTypeAlways, PTL DEF Spec, RegisterSteps, Register!Spec
-----------------------------------------------------------------------------
(* The service of OBS is written off the air only: applyLocalRelayIngest   *)
(* asks again, after the question of the dialog.                           *)
THEOREM ServiceFixed == Spec => ServiceFixedOnAir
<1>1. [Next]_vars => [streaming /\ streaming' => service' = service]_vars
  <2> SUFFICES ASSUME [Next]_vars, streaming, streaming'
               PROVE  service' = service
    OBVIOUS
  <2>1. ASSUME NEW u \in Urls, NEW k \in Keys, ConfirmSetup(u, k)
        PROVE  service' = service
    BY <2>1, Zenon DEF ConfirmSetup, ApplyLocalRelayIngest
  <2>2. CASE Sync \/ ProcessEnds \/ ForceStop \/ ConfirmRestart
    BY <2>2, Zenon DEF Sync, ProcessEnds, ForceStop, ConfirmRestart, svars
  <2>3. CASE \E d \in {"setup", "restart"} : OpenDialog(d)
    BY <2>3, Zenon DEF OpenDialog
  <2>4. CASE \/ ApplySettings \/ Dismiss \/ Save \/ Stream \/ OwnService \/ Outage
             \/ \E c \in Collections : SwitchCollection(c)
             \/ \E saved \in BOOLEAN : ObsEnds(saved)
    BY <2>4, Zenon DEF ApplySettings, Dismiss, Save, Stream, OwnService, Outage,
                       SwitchCollection, ObsEnds
  <2>5. CASE UNCHANGED vars
    BY <2>5 DEF vars, svars
  <2> QED
    BY <2>1, <2>2, <2>3, <2>4, <2>5, Zenon DEF Next
<1> QED
  BY <1>1, PTL DEF Spec, ServiceFixedOnAir
-----------------------------------------------------------------------------
(* The types.                                                              *)

TypeInv == SettingsTypeOK /\ SupervisorInv

(* What a start or a restart leaves of the dock's state and the ghosts.    *)
LEMMA RememberTypes ==
  ASSUME SettingsTypeOK, StoreTypeOK', Remember, url' \in Urls \cup {None}
  PROVE  used' \in (Urls \cup {None}) \X Stored /\ drifted' \in BOOLEAN
<1>1. Destination' \in (Urls \cup {None}) \X Stored
  BY DEF Destination, ReadStreamKey, StoreTypeOK, Stored
<1> QED
  BY <1>1 DEF Remember, SettingsTypeOK

LEMMA LoadedTypes ==
  ASSUME SettingsTypeOK, NEW c \in Collections, NEW b \in Urls \cup {None}
  PROVE  Loaded(c, b) \in Urls \cup {None}
BY DEF SettingsTypeOK, Loaded

LEMMA TypesStep ==
  ASSUME TypeInv, [Next]_vars
  PROVE  SettingsTypeOK'
<1>0. ProcessTypeOK' /\ StoreTypeOK'
  BY StepParts, ProcessTypeStep, StoreTypeStep DEF TypeInv, SettingsTypeOK, SupervisorInv
<1>s. state' \in {"Idle", "Running", "Stopping", "Crashed", "FailedToStart"}
  BY <1>0 DEF ProcessTypeOK
<1> USE DEF TypeInv
<1>1. CASE Sync
  <2>1. /\ url' = url /\ disk' = disk /\ collection' = collection /\ saveQueued' = saveQueued
        /\ syncQueued' = FALSE /\ dialog' = dialog /\ streaming' = streaming
        /\ service' = service /\ events' = events
    BY <1>1 DEF Sync
  <2>2. dockState' \in {"Idle", "Running", "Stopping", "Crashed", "FailedToStart"}
    BY <1>1, <1>s DEF Sync, SettingsTypeOK
  <2>3. used' \in (Urls \cup {None}) \X Stored /\ drifted' \in BOOLEAN
    <3>1. Remember \/ UNCHANGED <<used, drifted>>
      BY <1>1, Zenon DEF Sync
    <3> QED
      BY <1>0, <2>1, <3>1, RememberTypes DEF SettingsTypeOK
  <2> QED
    BY <1>0, <2>1, <2>2, <2>3 DEF SettingsTypeOK
<1>2. CASE ProcessEnds
  <2>1. UNCHANGED <<url, disk, collection, saveQueued, syncQueued, dialog, streaming,
                    service, events>>
    BY <1>2 DEF ProcessEnds
  <2>2. Remember /\ dockState' = state'
    BY <1>2, Zenon DEF ProcessEnds
  <2> QED
    BY <1>0, <1>s, <2>1, <2>2, RememberTypes DEF SettingsTypeOK
<1>3. CASE ForceStop
  BY <1>0, <1>3 DEF ForceStop, svars, SettingsTypeOK
<1>4. CASE \E d \in {"setup", "restart"} : OpenDialog(d)
  BY <1>0, <1>4 DEF OpenDialog, Event, SettingsTypeOK
<1>5. CASE ApplySettings
  BY <1>0, <1>5 DEF ApplySettings, SettingsTypeOK
<1>6. CASE Dismiss
  BY <1>0, <1>6 DEF Dismiss, SettingsTypeOK
<1>7. CASE ConfirmRestart
  <2>1. UNCHANGED <<url, disk, collection, saveQueued, syncQueued, streaming, service, events>>
        /\ dialog' = "closed"
    BY <1>7 DEF ConfirmRestart
  <2>2. Remember /\ dockState' = state'
    BY <1>7, Zenon DEF ConfirmRestart
  <2> QED
    BY <1>0, <1>s, <2>1, <2>2, RememberTypes DEF SettingsTypeOK
<1>8. ASSUME NEW u \in Urls, NEW k \in Keys, ConfirmSetup(u, k)
      PROVE  SettingsTypeOK'
  <2>1. UNCHANGED <<disk, collection, syncQueued, streaming, events>>
    BY <1>8 DEF ConfirmSetup
  <2>2. CASE /\ SaveDestination(u, k) /\ ApplyLocalRelayIngest /\ dialog' = "closed"
             /\ dockState' = state' /\ Remember
    <3>1. url' = u /\ saveQueued' = TRUE /\ service' = "relay"
      BY <2>2, Zenon DEF SaveDestination, ApplyLocalRelayIngest
    <3> QED
      BY <1>0, <1>s, <2>1, <2>2, <3>1, RememberTypes DEF SettingsTypeOK
  <2>3. CASE /\ SaveDestination(u, k) /\ dialog' = "setup" /\ UNCHANGED service
             /\ UNCHANGED dockState /\ Drift(TRUE)
    <3>1. url' = u /\ saveQueued' = TRUE
      BY <2>3, Zenon DEF SaveDestination
    <3> QED
      BY <1>0, <2>1, <2>3, <3>1 DEF SettingsTypeOK, Drift
  <2>4. CASE /\ dialog' = "setup"
             /\ UNCHANGED <<url, saveQueued, service, dockState>> /\ Drift(TRUE)
    BY <1>0, <2>1, <2>4 DEF SettingsTypeOK, Drift
  <2> QED
    BY <1>8, <2>2, <2>3, <2>4 DEF ConfirmSetup
<1>9. CASE Save \/ Stream \/ OwnService
  <2>1. CASE Save
    BY <1>0, <2>1 DEF Save, SettingsTypeOK
  <2>2. CASE Stream
    <3>1. streaming' \in BOOLEAN /\ events' \in Nat
      BY <2>2 DEF Stream, Event, SettingsTypeOK
    <3> QED
      BY <1>0, <2>2, <3>1 DEF Stream, SettingsTypeOK
  <2>3. CASE OwnService
    BY <1>0, <2>3 DEF OwnService, Event, SettingsTypeOK
  <2> QED
    BY <1>9, <2>1, <2>2, <2>3
<1>10. ASSUME NEW c \in Collections, SwitchCollection(c)
       PROVE  SettingsTypeOK'
  <2>1. Loaded(c, url) \in Urls \cup {None}
    BY LoadedTypes DEF SettingsTypeOK
  <2>2. url' \in Urls \cup {None} /\ collection' \in Collections /\ events' \in Nat
    BY <1>10, <2>1 DEF SwitchCollection, Event, SettingsTypeOK
  <2>3. disk' \in [Collections -> Urls \cup {None, Missing}]
    BY <1>10 DEF SwitchCollection, SettingsTypeOK
  <2>4. drifted' \in BOOLEAN /\ used' = used
    BY <1>10 DEF SwitchCollection, SettingsTypeOK, Drift
  <2> QED
    BY <1>0, <1>10, <2>2, <2>3, <2>4 DEF SwitchCollection, SettingsTypeOK
<1>11. ASSUME NEW saved \in BOOLEAN, ObsEnds(saved)
       PROVE  SettingsTypeOK'
  <2>1. disk' \in [Collections -> Urls \cup {None, Missing}] /\ collection' = collection
    BY <1>11 DEF ObsEnds, SettingsTypeOK
  <2>2. url' \in Urls \cup {None}
    BY <1>11, <2>1 DEF ObsEnds, Loaded, SettingsTypeOK
  <2>3. events' \in Nat /\ service' = service
    BY <1>11 DEF ObsEnds, Event, SettingsTypeOK
  <2>4. /\ saveQueued' = FALSE /\ syncQueued' = TRUE /\ dialog' = "closed"
        /\ streaming' = FALSE /\ dockState' = "Idle"
        /\ used' = <<None, None>> /\ drifted' = FALSE
    BY <1>11 DEF ObsEnds
  <2> QED
    BY <1>0, <2>1, <2>2, <2>3, <2>4 DEF SettingsTypeOK, Stored
<1>12. CASE Outage
  <2>1. events' \in Nat /\ drifted' \in BOOLEAN /\ used' = used
    BY <1>12 DEF Outage, Event, Drift, SettingsTypeOK
  <2> QED
    BY <1>0, <1>12, <2>1 DEF Outage, SettingsTypeOK
<1>13. CASE UNCHANGED vars
  BY <1>0, <1>13 DEF vars, svars, SettingsTypeOK
<1> QED
  BY <1>1, <1>2, <1>3, <1>4, <1>5, <1>6, <1>7, <1>8, <1>9, <1>10, <1>11, <1>12, <1>13 DEF Next

(* Every variable keeps its type, for any keys, URLs and collections.      *)
THEOREM SettingsTyped == Spec => []SettingsTypeOK
<1>1. Init => SettingsTypeOK
  <2> SUFFICES ASSUME Init PROVE SettingsTypeOK
    OBVIOUS
  <2>1. ProcessTypeOK
    <3>1. state = "Idle" /\ session \in Nat
      BY DEF Init, ProcessInit
    <3> QED
      BY <3>1, Zenon DEF Init, ProcessInit, ProcessTypeOK
  <2>2. StoreTypeOK
    BY DEF Init, StoreInit, StoreTypeOK, Stored
  <2> QED
    BY <2>1, <2>2, SomeCollection DEF Init, SettingsTypeOK, Stored
<1>2. SupervisorInv /\ SupervisorInv' /\ SettingsTypeOK /\ [Next]_vars => SettingsTypeOK'
  BY TypesStep DEF TypeInv
<1> QED
  BY <1>1, <1>2, SupervisorAlways, PTL DEF Spec
-----------------------------------------------------------------------------
(* The dock and the destination.                                           *)

(* What a call of the supervisor that starts a relay shows of it.          *)
LEMMA StartShows ==
  ASSUME ProcessTypeOK, NEW found \in BOOLEAN, StartRelay(found, Complete),
         Complete \in BOOLEAN
  PROVE  /\ state' \in {"Running", "FailedToStart"}
         /\ session' = session => state' = "FailedToStart"
         /\ state' = "Running" => Complete /\ session' # session
<1>1. session' = session => ~found
  BY DEF StartRelay, ProcessTypeOK
<1>2. /\ state' \in {"Running", "FailedToStart"}
      /\ state' = "Running" => found /\ Complete
  BY Zenon DEF StartRelay
<1> QED
  BY <1>1, <1>2

LEMMA DockStep ==
  ASSUME TypeInv, DockFollows, [Next]_vars
  PROVE  DockFollows'
<1>1. CASE Sync
  <2>1. CASE state \in Busy /\ UNCHANGED pvars /\ UNCHANGED dockState
    BY <2>1 DEF DockFollows, pvars
  <2>2. ASSUME NEW found \in BOOLEAN, Start(found, Complete),
               dockState' = IF state = "FailedToStart" /\ session' = session
                               THEN "Idle" ELSE state'
        PROVE  DockFollows'
    <3>1. /\ state' \in {"Running", "FailedToStart"}
          /\ session' = session => state' = "FailedToStart"
      BY <2>2, StartShows DEF Start, Complete, TypeInv, SettingsTypeOK
    <3> QED
      BY <2>2, <3>1 DEF DockFollows
  <2>3. CASE state \notin Busy /\ dockState' = "FailedToStart" /\ UNCHANGED pvars
    BY <2>3 DEF DockFollows, Busy, pvars, TypeInv, SettingsTypeOK, ProcessTypeOK
  <2> QED
    BY <1>1, <2>1, <2>2, <2>3, Zenon DEF Sync
<1>2. CASE ProcessEnds \/ ConfirmRestart
  BY <1>2, Zenon DEF ProcessEnds, ConfirmRestart, DockFollows
<1>3. CASE ForceStop
  BY <1>3 DEF ForceStop, TerminateFallback, svars, DockFollows
<1>4. CASE \E d \in {"setup", "restart"} : OpenDialog(d)
  BY <1>4 DEF OpenDialog, pvars, DockFollows
<1>5. CASE ApplySettings \/ Dismiss \/ Save \/ Stream \/ OwnService \/ Outage
  BY <1>5 DEF ApplySettings, Dismiss, Save, Stream, OwnService, Outage, pvars, DockFollows
<1>6. ASSUME NEW u \in Urls, NEW k \in Keys, ConfirmSetup(u, k)
      PROVE  DockFollows'
  <2>1. dockState' = state' \/ (UNCHANGED pvars /\ UNCHANGED dockState)
    BY <1>6, Zenon DEF ConfirmSetup
  <2> QED
    BY <2>1 DEF pvars, DockFollows
<1>7. CASE \E c \in Collections : SwitchCollection(c)
  BY <1>7 DEF SwitchCollection, pvars, DockFollows
<1>8. CASE \E saved \in BOOLEAN : ObsEnds(saved)
  BY <1>8 DEF ObsEnds, Shutdown, DockFollows
<1>9. CASE UNCHANGED vars
  BY <1>9 DEF vars, pvars, svars, DockFollows
<1> QED
  BY <1>1, <1>2, <1>3, <1>4, <1>5, <1>6, <1>7, <1>8, <1>9 DEF Next

(* The dock's copy of the supervisor's state differs from it only between  *)
(* states in which no relay is up.                                         *)
THEOREM DockFollowsAlways == Spec => []DockFollows
<1>1. Init => DockFollows
  BY DEF Init, ProcessInit, DockFollows
<1>2. TypeInv /\ DockFollows /\ [Next]_vars => DockFollows'
  BY DockStep
<1> QED
  BY <1>1, <1>2, SupervisorAlways, SettingsTyped, PTL DEF Spec, TypeInv

LEMMA SurvivesStep ==
  ASSUME TypeInv, SetupSurvives, [Next]_vars
  PROVE  SetupSurvives'
<1> USE DEF SetupSurvives
<1>1. CASE UNCHANGED <<disk, collection, url, saveQueued>>
  BY <1>1
<1>2. CASE \/ Sync \/ ProcessEnds \/ ForceStop \/ ConfirmRestart
           \/ \E d \in {"setup", "restart"} : OpenDialog(d)
  BY <1>1, <1>2, Zenon DEF Sync, ProcessEnds, ForceStop, ConfirmRestart, OpenDialog, svars
<1>3. CASE ApplySettings \/ Dismiss \/ Stream \/ OwnService \/ Outage \/ UNCHANGED vars
  BY <1>1, <1>3, Zenon DEF ApplySettings, Dismiss, Stream, OwnService, Outage, vars, svars
<1>4. ASSUME NEW u \in Urls, NEW k \in Keys, ConfirmSetup(u, k)
      PROVE  SetupSurvives'
  <2>1. saveQueued' = TRUE \/ UNCHANGED <<disk, collection, url, saveQueued>>
    BY <1>4, Zenon DEF ConfirmSetup, SaveDestination
  <2> QED
    BY <1>1, <2>1
<1>5. CASE Save
  BY <1>5 DEF Save, TypeInv, SettingsTypeOK
<1>6. ASSUME NEW c \in Collections, SwitchCollection(c)
      PROVE  SetupSurvives'
  BY <1>6 DEF SwitchCollection, Loaded, TypeInv, SettingsTypeOK
<1>7. CASE \E saved \in BOOLEAN : ObsEnds(saved)
  <2>1. url' = IF disk'[collection'] = Missing THEN None ELSE disk'[collection']
    BY <1>7 DEF ObsEnds, Loaded
  <2> QED
    BY <2>1
<1> QED
  BY <1>2, <1>3, <1>4, <1>5, <1>6, <1>7 DEF Next

(* The collection in use holds the URL in memory, or nothing, or a save of *)
(* it is owed: saveDestination asks OBS for one.                           *)
THEOREM SetupSurvivesAlways == Spec => []SetupSurvives
<1>1. Init => SetupSurvives
  BY SomeCollection DEF Init, SetupSurvives
<1>2. TypeInv /\ SetupSurvives /\ [Next]_vars => SetupSurvives'
  BY SurvivesStep
<1> QED
  BY <1>1, <1>2, SupervisorAlways, SettingsTyped, PTL DEF Spec, TypeInv

(* A step that starts no relay and does not change the destination, or     *)
(* marks the change, keeps RelayUsesSaved.                                 *)
LEMMA SameRelay ==
  ASSUME RelayUsesSaved, state' = "Running" => state = "Running", UNCHANGED used,
         \/ drifted' = TRUE
         \/ drifted' = drifted /\ Destination' = Destination
  PROVE  RelayUsesSaved'
BY DEF RelayUsesSaved

(* So does one that calls the supervisor and remembers.                    *)
LEMMA RememberKeeps ==
  ASSUME SettingsTypeOK', Remember, state' = "Running" => Complete' /\ session' # session
  PROVE  RelayUsesSaved'
<1>1. CASE state' = "Running"
  BY <1>1 DEF Remember, RelayUsesSaved, Complete, Destination, ReadStreamKey, SettingsTypeOK,
              StoreTypeOK, Stored
<1>2. CASE state' # "Running"
  BY <1>2 DEF RelayUsesSaved
<1> QED
  BY <1>1, <1>2

(* The calls of the supervisor reach Running with a new token only, and    *)
(* with a destination that is complete.                                    *)
LEMMA CallStarts ==
  ASSUME ProcessTypeOK, NEW found \in BOOLEAN, NEW complete \in BOOLEAN,
         \/ Start(found, complete)
         \/ RestartRelay(found, complete)
         \/ OnProcessFinished(found, complete)
  PROVE  state' = "Running" => complete /\ session' # session
<1>1. StartRelay(found, complete) \/ state' \in {"Stopping", "Crashed"}
  BY DEF Start, RestartRelay, OnProcessFinished, CompleteIntentionalStop
<1>2. ASSUME StartRelay(found, complete)
      PROVE  state' = "Running" => complete /\ session' # session
  <2>1. state' = "Running" => found /\ complete
    BY <1>2, Zenon DEF StartRelay
  <2>2. found => session' # session
    BY <1>2 DEF StartRelay, ProcessTypeOK
  <2> QED
    BY <2>1, <2>2
<1> QED
  BY <1>1, <1>2

LEMMA UsesSavedStep ==
  ASSUME TypeInv, SettingsTypeOK', RelayUsesSaved, [Next]_vars
  PROVE  RelayUsesSaved'
<1> USE DEF TypeInv
<1>0. /\ Complete \in BOOLEAN /\ Complete' \in BOOLEAN /\ ProcessTypeOK
      /\ UNCHANGED <<cvars, url>> => Destination' = Destination /\ Complete' = Complete
  BY DEF Complete, Destination, ReadStreamKey, cvars, SettingsTypeOK
<1>1. CASE Sync
  <2>1. CASE \E found \in BOOLEAN : Start(found, Complete) /\ Remember
    BY <1>0, <1>1, <2>1, CallStarts, RememberKeeps, Zenon DEF Sync
  <2>2. CASE UNCHANGED <<pvars, used, drifted>>
    BY <1>0, <1>1, <2>2, SameRelay DEF Sync, pvars
  <2> QED
    BY <1>1, <2>1, <2>2, Zenon DEF Sync
<1>2. CASE ProcessEnds
  BY <1>0, <1>2, CallStarts, RememberKeeps, Zenon DEF ProcessEnds
<1>3. CASE ForceStop
  BY <1>0, <1>3, SameRelay DEF ForceStop, TerminateFallback, svars
<1>4. CASE \E d \in {"setup", "restart"} : OpenDialog(d)
  BY <1>0, <1>4, SameRelay DEF OpenDialog, pvars
<1>5. CASE ApplySettings \/ Dismiss \/ Save \/ Stream \/ OwnService
  BY <1>0, <1>5, SameRelay DEF ApplySettings, Dismiss, Save, Stream, OwnService, pvars
<1>6. CASE ConfirmRestart
  BY <1>0, <1>6, CallStarts, RememberKeeps, Zenon DEF ConfirmRestart
<1>7. ASSUME NEW u \in Urls, NEW k \in Keys, ConfirmSetup(u, k)
      PROVE  RelayUsesSaved'
  <2>1. CASE RestartAfterSetup /\ Remember
    BY <1>0, <2>1, CallStarts, RememberKeeps, Zenon DEF RestartAfterSetup
  <2>2. CASE UNCHANGED pvars /\ Drift(TRUE)
    BY <2>2, SameRelay DEF Drift, pvars, SettingsTypeOK
  <2> QED
    BY <1>7, <2>1, <2>2, Zenon DEF ConfirmSetup, pvars
<1>8. ASSUME NEW c \in Collections, SwitchCollection(c)
      PROVE  RelayUsesSaved'
  BY <1>0, <1>8, SameRelay DEF SwitchCollection, Drift, pvars, SettingsTypeOK
<1>9. CASE \E saved \in BOOLEAN : ObsEnds(saved)
  BY <1>9 DEF ObsEnds, Shutdown, RelayUsesSaved
<1>10. CASE Outage
  BY <1>10, SameRelay DEF Outage, Drift, pvars, SettingsTypeOK
<1>11. CASE UNCHANGED vars
  BY <1>0, <1>11, SameRelay DEF vars, pvars, svars
<1> QED
  BY <1>1, <1>2, <1>3, <1>4, <1>5, <1>6, <1>7, <1>8, <1>9, <1>10, <1>11 DEF Next

(* A relay that runs has a complete destination, the saved one unless it   *)
(* has changed in a way that restarts no relay.                            *)
THEOREM UsesSaved == Spec => []RelayUsesSaved
<1>1. Init => RelayUsesSaved
  BY DEF Init, ProcessInit, RelayUsesSaved
<1>2. TypeInv /\ SettingsTypeOK' /\ RelayUsesSaved /\ [Next]_vars => RelayUsesSaved'
  BY UsesSavedStep
<1> QED
  BY <1>1, <1>2, SupervisorAlways, SettingsTyped, PTL DEF Spec, TypeInv
=============================================================================
