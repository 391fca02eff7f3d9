-------------------------- MODULE CredentialStore --------------------------
(***************************************************************************)
(* The stream key at rest (credential-store-win.cpp): the credential       *)
(* manager of Windows, the entry of an older version in it, and a file     *)
(* encrypted with DPAPI for when the manager refuses.  A manager that is   *)
(* out of reach answers no call; one within reach may refuse a write.      *)
(***************************************************************************)
CONSTANTS Keys, None

ASSUME NoneIsNoKey == None \notin Keys

VARIABLES
    manager,     \* the entry under kTargetName
    legacy,      \* the entry under kLegacyTargetName
    dpapi,       \* the file; None when it is absent or cannot be decrypted
    reachable    \* whether the manager answers

cvars == <<manager, legacy, dpapi, reachable>>

Stored == Keys \cup {None}

(* An older version may have left its entry.                               *)
StoreInit ==
    /\ manager = None /\ legacy \in Stored /\ dpapi = None /\ reachable = TRUE

(* readStreamKey: the manager, its older entry, the file.                  *)
ReadStreamKey ==
    CASE reachable /\ manager # None -> manager
      [] reachable /\ manager = None /\ legacy # None -> legacy
      [] OTHER -> dpapi

(* Mutant: writeStreamKey leaves the older file in place.                  *)
WriteManager_KeepsFile(k) ==
    /\ reachable /\ manager' = k /\ legacy' = None
    /\ UNCHANGED <<dpapi, reachable>>

(* writeCredentialManager succeeds: both entries are deleted, then the new *)
(* one is written; writeStreamKey removes the file.                        *)
WriteManager(k) ==
    /\ reachable /\ manager' = k /\ legacy' = None /\ dpapi' = None
    /\ UNCHANGED reachable

(* The entries after a write that the manager refused: deleted first if it *)
(* could be reached at all.                                                *)
ManagerRefused ==
    /\ manager' = IF reachable THEN None ELSE manager
    /\ legacy' = IF reachable THEN None ELSE legacy
    /\ UNCHANGED reachable

(* writeDpapiFile succeeds after the manager has refused.                  *)
WriteDpapiFile(k) == ManagerRefused /\ dpapi' = k

(* Both fail.  The file is as it was, or truncated.                        *)
WriteFails == ManagerRefused /\ dpapi' \in {dpapi, None}

WriteStreamKey(k) == WriteManager(k) \/ WriteDpapiFile(k)

(* The service behind the manager stops or starts to answer.               *)
ManagerOutage == reachable' = ~reachable /\ UNCHANGED <<manager, legacy, dpapi>>

StoreNext == (\E k \in Keys : WriteStreamKey(k)) \/ WriteFails \/ ManagerOutage

StoreSpec == StoreInit /\ [][StoreNext]_cvars
-----------------------------------------------------------------------------
StoreTypeOK == manager \in Stored /\ legacy \in Stored /\ dpapi \in Stored /\ reachable \in BOOLEAN

Register == INSTANCE KeyRegister
    WITH held <- {manager, legacy, dpapi} \cap Keys, answer <- ReadStreamKey

(* Three places hold a key and any write may fail half way, yet a read     *)
(* behaves as one register: no key that was replaced comes back (the       *)
(* refinement).                                                            *)
RegisterSteps == Register!Spec
=============================================================================
