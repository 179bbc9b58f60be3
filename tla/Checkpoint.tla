----------------------------- MODULE Checkpoint ------------------------------
(***************************************************************************)
(* The checkpoint store of the native client (checkpoint.rs): one job      *)
(* directory with its lock, its sealed record and one immutable artifact,  *)
(* the catalog key beside it, and the processes that use them.             *)
(*                                                                         *)
(* now is what processes see.  kept is what a power loss cannot take: an   *)
(* entry moves there when its directory is synced.  A record is a value    *)
(* sealed under a key; Torn is a file that was created but not written.  *)
(***************************************************************************)
EXTENDS Naturals

CONSTANTS
  Process,   \* processes that may open the job
  Value,     \* the records and ciphertexts they write
  MaxKey,    \* bound on the catalog keys ever made
  Windows,   \* values of "renames are written through, directories not synced"
  Torn, None

VARIABLES
  now,       \* the files as they are
  kept,      \* the entries that survive a power loss
  keys,      \* the number of catalog keys made
  lock,      \* the holder of the lock of the directory
  proc,      \* what each process is doing
  settled,   \* the values the record may have: the acknowledged and any later one
  windows

vars == <<now, kept, keys, lock, proc, settled, windows>>

Sealed == [value : Value, key : 1..MaxKey]
Idle == [pc |-> "idle", key |-> None, want |-> None]

TypeOK ==
  /\ \A fs \in {now, kept} :
       /\ fs.key \in 1..MaxKey \cup {None, Torn} /\ fs.dir \in {"absent", "live", "gone"}
       /\ fs.temp \in Sealed \cup {None, Torn} /\ fs.spool \in Value \cup {None, Torn}
       /\ fs.record \in Sealed \cup {None} /\ fs.artifact \in Value \cup {None}
  /\ lock \in Process \cup {None} /\ keys \in 0..MaxKey /\ windows \in Windows
  /\ settled \subseteq Value \cup {None}
  /\ \A p \in Process : proc[p].pc \in {"idle", "opening", "keying", "writingkey", "open", "saving", "renaming",
                                        "syncing", "spooling", "linking"}

Init ==
  /\ now = [key |-> None, dir |-> "absent", temp |-> None, record |-> None, spool |-> None, artifact |-> None]
  /\ kept = now /\ keys = 0 /\ lock = None /\ settled = {None} /\ windows \in Windows
  /\ proc = [p \in Process |-> Idle]

Move(p, pc) == proc' = [proc EXCEPT ![p].pc = pc]
-----------------------------------------------------------------------------
(* Store::create and Store::open.                                          *)

\* The directory is published before anything is written into it.
Create(p) ==
  /\ proc[p].pc = "idle" /\ now.dir = "absent"
  /\ now' = [now EXCEPT !.dir = "live"] /\ kept' = [kept EXCEPT !.dir = "live", !.key = now.key]
  /\ Move(p, "opening")
  /\ UNCHANGED <<keys, lock, settled, windows>>

Open(p) ==
  /\ proc[p].pc = "idle" /\ now.dir = "live" /\ Move(p, "opening")
  /\ UNCHANGED <<now, kept, keys, lock, settled, windows>>

\* acquire_lock: an advisory lock that does not wait.
AcquireLock(p) ==
  /\ proc[p].pc = "opening"
  /\ IF lock = None THEN lock' = p /\ Move(p, "keying") ELSE Move(p, "idle") /\ UNCHANGED lock
  /\ UNCHANGED <<now, kept, keys, settled, windows>>

\* Drop for Store.
Release(p) == lock' = None /\ proc' = [proc EXCEPT ![p] = Idle]

\* FilesystemSecretStore::load_or_create: a missing file is created anew.
LoadOrCreate(p) ==
  /\ proc[p].pc = "keying" /\ (now.key = None => keys < MaxKey)
  /\ CASE now.key = Torn -> Release(p) /\ UNCHANGED now
       [] now.key = None -> /\ now' = [now EXCEPT !.key = Torn]
                            /\ Move(p, "writingkey") /\ UNCHANGED lock
       [] now.key \notin {None, Torn} -> /\ proc' = [proc EXCEPT ![p].pc = "open", ![p].key = now.key]
                                   /\ UNCHANGED <<now, lock>>
  /\ UNCHANGED <<kept, keys, settled, windows>>

\* The file is synced, its directory entry is not.
WriteKey(p) ==
  /\ proc[p].pc = "writingkey"
  /\ keys' = keys + 1 /\ now' = [now EXCEPT !.key = keys + 1]
  /\ kept' = IF windows THEN [kept EXCEPT !.key = keys + 1] ELSE kept
  /\ proc' = [proc EXCEPT ![p].pc = "open", ![p].key = keys + 1]
  /\ UNCHANGED <<lock, settled, windows>>

Close(p) ==
  /\ proc[p].pc = "open" /\ Release(p)
  /\ UNCHANGED <<now, kept, keys, settled, windows>>
-----------------------------------------------------------------------------
(* save_named: a temporary file, synced, renamed, and the directory synced. *)

\* Faulty variant: the record is written in place.
SaveInPlace(p, v) ==
  /\ proc[p].pc = "open" /\ now.dir = "live"
  /\ now' = [now EXCEPT !.temp = Torn, !.record = None]
  /\ proc' = [proc EXCEPT ![p].pc = "saving", ![p].want = v]
  /\ UNCHANGED <<kept, keys, lock, settled, windows>>

StartSave(p, v) ==
  /\ proc[p].pc = "open" /\ now.dir = "live"
  /\ now' = [now EXCEPT !.temp = Torn]
  /\ proc' = [proc EXCEPT ![p].pc = "saving", ![p].want = v]
  /\ UNCHANGED <<kept, keys, lock, settled, windows>>

\* seal and write_new_private_file
WriteTemporary(p) ==
  /\ proc[p].pc = "saving"
  /\ now' = [now EXCEPT !.temp = [value |-> proc[p].want, key |-> proc[p].key]] /\ Move(p, "renaming")
  /\ UNCHANGED <<kept, keys, lock, settled, windows>>

Rename(p) ==
  /\ proc[p].pc = "renaming"
  /\ now' = [now EXCEPT !.record = now.temp, !.temp = None]
  /\ kept' = IF windows THEN [kept EXCEPT !.record = now.temp, !.temp = None] ELSE kept
  /\ settled' = settled \cup {proc[p].want} /\ Move(p, "syncing")
  /\ UNCHANGED <<keys, lock, windows>>

SyncDirectory(p) ==
  /\ proc[p].pc = "syncing"
  /\ kept' = IF windows THEN kept ELSE [now EXCEPT !.key = kept.key]
  /\ settled' = IF now.dir = "live" /\ now.record # None THEN {now.record.value} ELSE settled
  /\ Move(p, "open")
  /\ UNCHANGED <<now, keys, lock, windows>>

\* A write or sync failure returns an error and the holder goes on.
SaveFails(p) ==
  /\ proc[p].pc \in {"saving", "renaming", "spooling", "linking"} /\ Move(p, "open")
  /\ UNCHANGED <<now, kept, keys, lock, settled, windows>>

\* open_record: load_named succeeds only under the key that sealed the record.
Loads(p) == now.record # None /\ now.record.key = proc[p].key

RemoveRecord(p) ==
  /\ proc[p].pc = "open" /\ now.dir = "live" /\ Loads(p)
  /\ now' = [now EXCEPT !.record = None] /\ kept' = [now EXCEPT !.key = kept.key, !.record = None]
  /\ settled' = {None}
  /\ UNCHANGED <<keys, lock, proc, windows>>
-----------------------------------------------------------------------------
(* persist_immutable                                                       *)

StartPersist(p, v) ==
  /\ proc[p].pc = "open" /\ now.dir = "live" /\ now.artifact = None
  /\ now' = [now EXCEPT !.spool = Torn]
  /\ proc' = [proc EXCEPT ![p].pc = "spooling", ![p].want = v]
  /\ UNCHANGED <<kept, keys, lock, settled, windows>>

WriteSpool(p) ==
  /\ proc[p].pc = "spooling"
  /\ now' = [now EXCEPT !.spool = proc[p].want] /\ Move(p, "linking")
  /\ UNCHANGED <<kept, keys, lock, settled, windows>>

\* replace_private_file without replacement, then sync_directory.
LinkImmutable(p) ==
  /\ proc[p].pc = "linking" /\ now.artifact = None
  /\ now' = [now EXCEPT !.artifact = now.spool, !.spool = None] /\ Move(p, "syncing")
  /\ kept' = IF windows THEN [kept EXCEPT !.artifact = now.spool, !.spool = None] ELSE kept
  /\ UNCHANGED <<keys, lock, settled, windows>>
-----------------------------------------------------------------------------
(* Store::discard and failures.                                            *)

\* The directory is renamed under its lock, then removed; the root is not synced.
Discard(p) ==
  /\ proc[p].pc = "idle" /\ now.dir = "live" /\ lock = None
  /\ now' = [now EXCEPT !.dir = "gone", !.temp = None, !.record = None, !.spool = None, !.artifact = None]
  /\ UNCHANGED <<kept, keys, lock, proc, settled, windows>>

\* The kernel releases the lock of a process that dies.
Crash(p) ==
  /\ proc[p].pc # "idle"
  /\ lock' = IF lock = p THEN None ELSE lock
  /\ proc' = [proc EXCEPT ![p] = Idle]
  /\ UNCHANGED <<now, kept, keys, settled, windows>>

\* Of every entry that was not synced, either version may be found afterwards.
PowerLoss ==
  /\ proc' = [p \in Process |-> Idle] /\ lock' = None
  /\ now' \in [key : {now.key, kept.key}, dir : {now.dir}, temp : {now.temp, kept.temp},
               record : {now.record, kept.record}, spool : {now.spool, kept.spool},
               artifact : {now.artifact, kept.artifact}]
  /\ kept' = now'
  /\ UNCHANGED <<keys, settled, windows>>

Next ==
  \/ PowerLoss
  \/ \E p \in Process :
       \/ Create(p) \/ Open(p) \/ AcquireLock(p) \/ LoadOrCreate(p) \/ WriteKey(p) \/ Close(p)
       \/ WriteTemporary(p) \/ Rename(p) \/ SyncDirectory(p) \/ SaveFails(p) \/ RemoveRecord(p)
       \/ WriteSpool(p) \/ LinkImmutable(p) \/ Discard(p) \/ Crash(p)
       \/ \E v \in Value : StartSave(p, v) \/ StartPersist(p, v)

Spec == Init /\ [][Next]_vars
-----------------------------------------------------------------------------
\* Whatever fails and whenever the power goes, the record is the one of the last
\* save that returned, or of one attempted since.
SaveAtomic ==
  now.dir = "live" => (IF now.record = None THEN None ELSE now.record.value) \in settled

\* An artifact that was published whole never has other contents, and only a power
\* loss before its directory was synced takes it back.
ImmutableOnceStep ==
  now.dir = "live" /\ now'.dir = "live" /\ now.artifact # None =>
    now'.artifact = now.artifact \/ (now'.artifact = None /\ kept.artifact = None)

\* All of the above: a record is the old or the new one after every crash, and an
\* artifact never changes.
CheckpointAtomic == [](TypeOK /\ SaveAtomic) /\ [][ImmutableOnceStep]_vars
=============================================================================
