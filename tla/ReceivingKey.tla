---------------------------- MODULE ReceivingKey ----------------------------
(***************************************************************************)
(* Custody of an account's receiving key: the desktop application          *)
(* (desktop/client), the CLI (cli/services) and the store both keep it in  *)
(* (client-core services/local_state and services/account).                *)
(*                                                                         *)
(* The desktop keeps a generated key as pending until it has been exported *)
(* and its backup confirmed, and only then publishes it.  The CLI          *)
(* publishes first and saves afterwards.  The two programs name the store  *)
(* of one server differently (the desktop hashes the address with its      *)
(* final slash), so neither sees the other's keys.  A program may end, or  *)
(* one of its calls fail, between any two steps, and a server's answer may *)
(* be lost after the server acted.                                         *)
(***************************************************************************)
EXTENDS Naturals, Sequences

CONSTANTS
    Key,         \* the key pairs that are generated
    MaxBundles,  \* bound on the key bundles published
    None

VARIABLES
    bundles,     \* at the server, in order of version: the last one is active
    session,     \* session[c]: program c holds a session
    private,     \* private[c]: the private key in the store of c
    pending,     \* the desktop's pending key
    exports,     \* keys written to a backup
    custody,     \* what the desktop shows
    op,          \* op[c]: the operation c is in the middle of
    sealed       \* keys some delivery was encrypted to

vars == <<bundles, session, private, pending, exports, custody, op, sealed>>

Client == {"desktop", "cli"}

Keys(seq) == {seq[i].key: i \in DOMAIN seq}

\* key_situation(): the active bundle, None when there is none
Active == IF bundles = <<>> THEN None ELSE bundles[Len(bundles)]

\* Keys some program or file has seen; the others can still be generated
Used ==
    Keys(bundles) \cup exports \cup {private[c]: c \in Client}
        \cup {IF pending = None THEN None ELSE pending.key}
        \cup {IF op[c] = None THEN None ELSE op[c].key: c \in Client}

Init ==
    /\ bundles = <<>>
    /\ session = [c \in Client |-> FALSE]
    /\ private = [c \in Client |-> None]
    /\ pending = None
    /\ exports = {}
    /\ custody = [kind |-> "unknown", key |-> None]
    /\ op = [c \in Client |-> None]
    /\ sealed = {}

-----------------------------------------------------------------------------
(* Steps the operations share *)

\* The step that follows a published key, and a saved one, by operation
AfterUpload == [password |-> "clear", confirm |-> "save",
                setup |-> "save", wrapped |-> "done", reimport |-> "save"]
AfterSave == [confirm |-> "unpend", import |-> "refresh", unlock |-> "refresh",
              setup |-> "done", reimport |-> "done"]

\* Program c starts an operation whose next step is `at`
Begin(c, kind, at, k, replace) ==
    /\ op[c] = None
    /\ op' = [op EXCEPT ![c] = [kind |-> kind, at |-> at, key |-> k, replace |-> replace]]

At(c, at) == op[c] # None /\ op[c].at = at

Advance(c, at) ==
    op' = [op EXCEPT ![c] = IF at = "done" THEN None ELSE [@ EXCEPT !.at = at]]

\* AccountKeyController::store(), one transaction: an active key is replaced
\* only when the request says so
Accepted(replace) == bundles # <<>> => replace

\* wrap_password_key(): a bundle that carries its private key, wrapped
Wrapped(kind) == IF kind \in {"password", "wrapped"} THEN "password" ELSE "self"

Published(c) == [key |-> op[c].key, by |-> c, custody |-> Wrapped(op[c].kind)]

\* upload_key(): refused or not delivered, applied and answered, or applied and
\* the answer lost
Upload(c) ==
    /\ At(c, "upload")
    /\ \E outcome \in {"failed", "ok", "lost"}:
        IF outcome = "failed"
        THEN UNCHANGED bundles /\ Advance(c, "done")
        ELSE /\ Accepted(op[c].replace)
             /\ Len(bundles) < MaxBundles
             /\ bundles' = Append(bundles, Published(c))
             /\ Advance(c, IF outcome = "ok" THEN AfterUpload[op[c].kind] ELSE "done")
    /\ UNCHANGED <<session, private, pending, exports, custody, sealed>>

\* save_private_key()
SavePrivate(c) ==
    /\ At(c, "save")
    /\ private' = [private EXCEPT ![c] = op[c].key]
    /\ Advance(c, AfterSave[op[c].kind])
    /\ UNCHANGED <<bundles, session, pending, exports, custody, sealed>>

\* The program ends, or a call of the operation fails: its memory is gone
Abandon(c) ==
    /\ op[c] # None
    /\ Advance(c, "done")
    /\ UNCHANGED <<bundles, session, private, pending, exports, custody, sealed>>

\* login() or register(), then save_session()
Login(c) ==
    /\ op[c] = None /\ ~session[c]
    /\ session' = [session EXCEPT ![c] = TRUE]
    /\ UNCHANGED <<bundles, private, pending, exports, custody, op, sealed>>

\* A key of the account's own that no one has seen yet
Generated(k) == k \notin Used

\* validate_self_key(): the private key opens what is sealed to the public one
Validates(k, bundle) == bundle.key = k

-----------------------------------------------------------------------------
(* The desktop *)

\* generate_receiving_key() up to its choice of custody.  The application sends
\* `replace` only together with the acknowledgement.
Generate(password, replace, k) ==
    /\ session["desktop"]
    /\ Active # None => replace
    /\ Generated(k)
    /\ Begin("desktop", IF password THEN "password" ELSE "keep",
             IF password THEN "upload" ELSE "pend", k, replace)
    /\ UNCHANGED <<bundles, session, private, pending, exports, custody, sealed>>

\* clear_private_key() once the server holds the wrapped key
ClearPrivate ==
    /\ At("desktop", "clear")
    /\ private' = [private EXCEPT !["desktop"] = None]
    /\ Advance("desktop", "refresh")
    /\ UNCHANGED <<bundles, session, pending, exports, custody, sealed>>

\* save_pending_key(): it overwrites a pending key that was never confirmed
SavePending ==
    /\ At("desktop", "pend")
    /\ pending' = [key |-> op["desktop"].key, exported |-> FALSE,
                   replace |-> op["desktop"].replace]
    /\ Advance("desktop", "refresh")
    /\ UNCHANGED <<bundles, session, private, exports, custody, sealed>>

\* write_key_export(): a new file, never one that is there, synchronised
WriteKeyExport(k) == exports' = exports \cup {k}

\* load_pending_key(), or else load_private_key()
PendingOrStored == IF pending # None THEN pending.key ELSE private["desktop"]

\* export_receiving_key(): the pending key, or else the stored one
Export ==
    LET k == PendingOrStored
    IN  /\ k # None
        /\ WriteKeyExport(k)
        /\ Begin("desktop", "export", IF pending # None THEN "mark" ELSE "refresh", k, FALSE)
        /\ UNCHANGED <<bundles, session, private, pending, custody, sealed>>

\* mark_pending_key_exported()
MarkExported ==
    /\ At("desktop", "mark")
    /\ pending # None /\ pending.key = op["desktop"].key
    /\ pending' = [pending EXCEPT !.exported = TRUE]
    /\ Advance("desktop", "refresh")
    /\ UNCHANGED <<bundles, session, private, exports, custody, sealed>>

\* Faulty variant: a pending key is published without its backup
ConfirmUnexported ==
    /\ session["desktop"] /\ pending # None
    /\ custody = [kind |-> "pending", key |-> pending.key]
    /\ Begin("desktop", "confirm", "upload", pending.key, pending.replace)
    /\ UNCHANGED <<bundles, session, private, pending, exports, custody, sealed>>

\* confirm_receiving_key_backup() for the key the application shows
Confirm ==
    /\ session["desktop"] /\ pending # None
    /\ custody = [kind |-> "pending", key |-> pending.key]
    /\ pending.exported
    /\ Begin("desktop", "confirm", "upload", pending.key, pending.replace)
    /\ UNCHANGED <<bundles, session, private, pending, exports, custody, sealed>>

\* clear_pending_key() after the published key was saved
ClearPending ==
    /\ At("desktop", "unpend")
    /\ pending' = None
    /\ Advance("desktop", "refresh")
    /\ UNCHANGED <<bundles, session, private, exports, custody, sealed>>

\* import_receiving_key() of a backup that opens the active key
Import(k) ==
    /\ session["desktop"]
    /\ IF Active = None THEN FALSE ELSE Validates(k, Active)
    /\ Begin("desktop", "import", "save", k, FALSE)
    /\ UNCHANGED <<bundles, session, private, pending, exports, custody, sealed>>

\* unwrap_password_key(): only a bundle with an envelope has something to open
Unwraps(bundle) == bundle.custody = "password"

\* unlock_receiving_key(): the wrapped key of the active bundle, by its password
Unlock ==
    /\ session["desktop"]
    /\ IF Active = None THEN FALSE ELSE Unwraps(Active)
    /\ Begin("desktop", "unlock", "save", Active.key, FALSE)
    /\ UNCHANGED <<bundles, session, private, pending, exports, custody, sealed>>

\* refresh_key_custody(), on its own or as the last step of an operation: any
\* stored key counts as the key of the active bundle
RefreshCustody ==
    /\ op["desktop"] = None \/ At("desktop", "refresh")
    /\ pending = None => session["desktop"]
    /\ custody' = IF pending # None THEN [kind |-> "pending", key |-> pending.key]
                  ELSE IF Active = None THEN [kind |-> "unknown", key |-> None]
                  ELSE [kind |-> IF private["desktop"] # None THEN "configured" ELSE "locked",
                        key |-> Active.key]
    /\ Advance("desktop", "done")
    /\ UNCHANGED <<bundles, session, private, pending, exports, sealed>>

\* The desktop's logout clears the session record and keeps the keys
LogoutDesktop ==
    /\ op["desktop"] = None /\ session["desktop"]
    /\ session' = [session EXCEPT !["desktop"] = FALSE]
    /\ UNCHANGED <<bundles, private, pending, exports, custody, op, sealed>>

-----------------------------------------------------------------------------
(* The CLI *)

\* setup_self_key(): it publishes the key before the private key is on disk
Setup(replace, k) ==
    /\ session["cli"]
    /\ Generated(k)
    /\ Begin("cli", "setup", "upload", k, replace)
    /\ UNCHANGED <<bundles, session, private, pending, exports, custody, sealed>>

\* setup_password_key(): the private key leaves the program wrapped, and only so
SetupPassword(replace, k) ==
    /\ session["cli"]
    /\ Generated(k)
    /\ Begin("cli", "wrapped", "upload", k, replace)
    /\ UNCHANGED <<bundles, session, private, pending, exports, custody, sealed>>

\* import_self_key_for_account(): the active public key is published again, as
\* self custody, and the private key saved
ImportForAccount(replace, k) ==
    /\ session["cli"]
    /\ IF Active = None THEN FALSE ELSE Validates(k, Active)
    /\ Begin("cli", "reimport", "upload", k, replace)
    /\ UNCHANGED <<bundles, session, private, pending, exports, custody, sealed>>

\* export_stored_key(), printed and kept by the user
ExportStored ==
    /\ op["cli"] = None /\ private["cli"] # None
    /\ exports' = exports \cup {private["cli"]}
    /\ UNCHANGED <<bundles, session, private, pending, custody, op, sealed>>

\* The CLI's logout, then clear_session(): the whole account store is discarded,
\* and the private key with it
LogoutCli ==
    /\ op["cli"] = None /\ session["cli"]
    /\ session' = [session EXCEPT !["cli"] = FALSE]
    /\ private' = [private EXCEPT !["cli"] = None]
    /\ UNCHANGED <<bundles, pending, exports, custody, op, sealed>>

-----------------------------------------------------------------------------
(* Senders *)

\* seal_recipient_key(): a delivery is encrypted to the active public key
Seal ==
    /\ Active # None
    /\ sealed' = sealed \cup {Active.key}
    /\ UNCHANGED <<bundles, session, private, pending, exports, custody, op>>

Desktop ==
    \/ \E k \in Key, password, replace \in BOOLEAN: Generate(password, replace, k)
    \/ \E k \in exports: Import(k)
    \/ ClearPrivate \/ SavePending \/ Export \/ MarkExported
    \/ Confirm \/ ClearPending \/ Unlock \/ RefreshCustody \/ LogoutDesktop

\* The account's key commands
Cli ==
    \/ \E k \in Key, replace \in BOOLEAN: Setup(replace, k) \/ SetupPassword(replace, k)
    \/ \E k \in exports, replace \in BOOLEAN: ImportForAccount(replace, k)
    \/ ExportStored \/ LogoutCli

Next ==
    \/ \E c \in Client: Upload(c) \/ SavePrivate(c) \/ Abandon(c) \/ Login(c)
    \/ Desktop \/ Cli
    \/ Seal

Spec == Init /\ [][Next]_vars

-----------------------------------------------------------------------------
(* Properties *)

KeyOrNone == Key \cup {None}

\* Every variable has its type.
TypeOK ==
    /\ bundles \in Seq([key: Key, by: Client, custody: {"self", "password"}])
    /\ Len(bundles) <= MaxBundles
    /\ session \in [Client -> BOOLEAN]
    /\ private \in [Client -> KeyOrNone]
    /\ pending \in {None} \cup [key: Key, exported: BOOLEAN, replace: BOOLEAN]
    /\ exports \subseteq Key
    /\ custody \in [kind: {"unknown", "pending", "configured", "locked"}, key: KeyOrNone]
    /\ \A c \in Client: op[c] = None \/
        op[c] \in [kind: DOMAIN AfterUpload \cup DOMAIN AfterSave \cup {"keep", "export"},
                   at: {"upload", "save", "clear", "pend", "mark", "write", "unpend", "refresh"},
                   key: Key, replace: BOOLEAN]
    /\ sealed \subseteq Keys(bundles)

\* Every delivery sealed to a key the desktop published under self custody can be
\* opened with a backup the user has, whatever happened between the steps of the
\* desktop's operations and whatever the CLI did meanwhile.
DeliveriesRecoverable ==
    \A i \in DOMAIN bundles:
        (bundles[i].by = "desktop" /\ bundles[i].custody = "self"
             /\ bundles[i].key \in sealed)
            => bundles[i].key \in exports

\* A private key in a program's store belongs to a key the server has published:
\* a failed or refused upload leaves no key behind that opens nothing.
StoredKeyPublished ==
    \A c \in Client: private[c] # None => private[c] \in Keys(bundles)

=============================================================================
