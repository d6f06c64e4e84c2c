----------------------------- MODULE KeyBackup -----------------------------
(***************************************************************************)
(* src/backup.ts and frontend/src/hooks/useBackup.ts: an account's keys    *)
(* are encrypted under a signature of its wallet, put on IPFS, and fetched *)
(* again by the CID that the user wrote down.                              *)
(*                                                                         *)
(* The hook lives in the key dialog and has a useRegisterKeys of its own,  *)
(* which loads the stored keys once, when its storage is ready: what the   *)
(* page registers while the dialog is open does not reach it.  A backup is *)
(* JSON, which turns a byte array into an object; such keys cannot be      *)
(* serialized for the storage.                                             *)
(***************************************************************************)
EXTENDS KeyRegistration

CONSTANTS
    MaxBackups      \* bound on the backups ever made

ASSUME BackupAssumption == MaxBackups \in Nat

VARIABLES
    dialog,     \* dialog[a]: "closed"; "opening" until its keys are looked up; "open"
    keys,       \* keys[a]: keys of the dialog's hook, or NoKey; as byte arrays or not
    ipfsUrl,    \* NEXT_PUBLIC_IPFS_URL is set, or else each call has a storage of its own
    backups,    \* the encrypted backups on IPFS
    withBackups \* bound: either dialogs are opened, or the rest is explored in full

backupVars == <<dialog, keys, ipfsUrl, backups, withBackups>>

\* The secret that deriveBackupKey gets from the wallet of signer.
deriveBackupKey(signer, address) == <<signer, address>>

BackupInit ==
    /\ Init
    /\ dialog = [a \in Account |-> "closed"]
    /\ keys = [a \in Account |-> NoKey]
    /\ backups = {}
    /\ withBackups \in BOOLEAN
    /\ ipfsUrl \in {FALSE, withBackups}

-----------------------------------------------------------------------------
(* The dialog                                                              *)

\* serializeKeys returns: for an object of JSON it throws.
serializeKeys(ks) == ks.bytes

deserializeKeys(ks) == [set |-> ks, bytes |-> TRUE]

Unmount(a) ==
    /\ dialog' = [dialog EXCEPT ![a] = "closed"]
    /\ keys' = [keys EXCEPT ![a] = NoKey]

OpenDialog(a) ==
    /\ withBackups
    /\ dialog[a] = "closed"
    /\ dialog' = [dialog EXCEPT ![a] = "opening"]
    /\ UNCHANGED <<vars, keys, ipfsUrl, backups, withBackups>>

CloseDialog(a) ==
    /\ dialog[a] # "closed"
    /\ Unmount(a)
    /\ UNCHANGED <<vars, ipfsUrl, backups, withBackups>>

\* Mutant: the dialog shows the keys that register has just drawn.
LoadDraft(a) ==
    /\ dialog[a] = "opening"
    /\ dialog' = [dialog EXCEPT ![a] = "open"]
    /\ keys' = [keys EXCEPT ![a] = IF draft[a] # NoKey THEN deserializeKeys(draft[a]) ELSE @]
    /\ UNCHANGED <<vars, ipfsUrl, backups, withBackups>>

\* The hook's storage is ready, with the manifest or, when it cannot be
\* loaded, with an empty one.  The keys are looked up once.
LoadKeys(a) ==
    /\ dialog[a] = "opening"
    /\ dialog' = [dialog EXCEPT ![a] = "open"]
    /\ \/ stored[a] # NoKey /\ keys' = [keys EXCEPT ![a] = deserializeKeys(stored[a])]
       \/ UNCHANGED keys
    /\ UNCHANGED <<vars, ipfsUrl, backups, withBackups>>

-----------------------------------------------------------------------------
(* useBackup                                                               *)

\* What a storage object finds that is made now: without an IPFS node, nothing
\* that was put by an earlier one.
createStorage == IF ipfsUrl THEN backups ELSE {}

\* JSON keeps the values of a byte array and makes it an object.
createKeyBackupData(a, ks) == [address |-> a, keys |-> [ks EXCEPT !.bytes = FALSE]]

createBackup(a, data) ==
    [address |-> data.address, encryptionKey |-> deriveBackupKey(a, data.address), keys |-> data.keys]

\* A backup without an IPFS node is gone with the storage object that took it,
\* although the user is given a CID.
backupKeys(a) ==
    /\ dialog[a] # "closed"
    /\ keys[a] # NoKey
    /\ ipfsUrl
    /\ Cardinality(backups) < MaxBackups
    /\ backups' = backups \union {createBackup(a, createKeyBackupData(a, keys[a]))}
    /\ UNCHANGED <<vars, dialog, keys, ipfsUrl, withBackups>>

\* restoreBackup returns keys, and does not throw.
Restorable(a, b) ==
    /\ b.address = a
    /\ b.encryptionKey = deriveBackupKey(a, b.address)

\* The keys are shown; they are stored only if they can be serialized and the
\* storage is ready.  A failure is caught.
setKeys(a, ks) ==
    /\ keys' = [keys EXCEPT ![a] = ks]
    /\ stored' = IF serializeKeys(ks) /\ dialog[a] = "open"
                   THEN [stored EXCEPT ![a] = ks.set] ELSE stored
    /\ UNCHANGED <<registryVars, phase, draft, seen, client, interrupted,
                   mempool, mined, drawn, greetings>>

\* The user enters a CID.  The keys come out of JSON.parse as they are.
restoreKeys(a, b) ==
    /\ dialog[a] # "closed"
    /\ Restorable(a, b)
    /\ setKeys(a, b.keys)
    /\ UNCHANGED <<dialog, ipfsUrl, backups, withBackups>>

-----------------------------------------------------------------------------

\* Bound: where dialogs are opened nobody writes, rotates a pre-key or has
\* one-time pre-keys.
Quiet ==
    /\ greetings = {}
    /\ timestamp = 0
    /\ \A a \in Account : oneTimePreKeyCount[a] = 0

\* A page that is loaded again has no dialog.
RegistrationStep ==
    /\ \/ ((\E a \in Account : PageStep(a)) \/ ContractCall) /\ UNCHANGED <<dialog, keys>>
       \/ \E a \in Account : Reload(a) /\ Unmount(a)
    /\ withBackups => Quiet'
    /\ UNCHANGED <<ipfsUrl, backups, withBackups>>

BackupNext ==
    \/ RegistrationStep
    \/ \E a \in Account :
           \/ OpenDialog(a) \/ CloseDialog(a) \/ LoadKeys(a) \/ backupKeys(a)
           \/ \E b \in createStorage : restoreKeys(a, b)

BackupSpec == BackupInit /\ [][BackupNext]_<<vars, backupVars>>

-----------------------------------------------------------------------------
(* Properties                                                              *)

\* The dialog and every backup hold only key sets that their account has
\* registered, one of which its bundle may go back to, and never another
\* account's: whatever CID a user enters, and wherever a registration stops.
BackupsWereRegistered ==
    /\ \A a \in Account : keys[a] # NoKey => keys[a].set \in mined[a]
    /\ \A b \in backups : b.keys.set \in mined[b.address]
=============================================================================
