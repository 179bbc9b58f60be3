------------------------------- MODULE Sealing -------------------------------
(***************************************************************************)
(* The v1 encryption format (crates/encryption) as the native sender and   *)
(* the native receivers use it (transfer-native upload.rs, download.rs,    *)
(* inbox_staging.rs, client-core account.rs and transfer manifest.rs).     *)
(*                                                                         *)
(* Keys and ciphertexts are terms: a derived key is the record of what it  *)
(* is derived from, a ciphertext the record of its key, nonce, associated  *)
(* data and plaintext.  Two values are equal only when they were made      *)
(* alike, and a ciphertext opens only with what sealed it: this is what    *)
(* HKDF, Argon2id, XChaCha20-Poly1305 and HPKE are trusted for.  A random  *)
(* value is named by what it was drawn for.                                *)
(*                                                                         *)
(* Storage is not trusted: a receiver that asks for an object is handed    *)
(* any object that was ever stored, and a listing of items that may be     *)
(* wrong.                                                                  *)
(***************************************************************************)
EXTENDS Integers, FiniteSets, Sequences

CONSTANTS
  Transfer,    \* transfer ULIDs
  Content,     \* Content[t]: the files of t, a sequence of [id, name, size]
  Portable,    \* portable_filename(), safe_filename(): the name a file is saved under
  Password,    \* what a person may type
  Bundle,      \* account key bundles of recipients
  ChunkBytes,  \* plaintext bytes of a chunk
  MaxChunks,   \* the most chunks of an item
  MaxStops,    \* bound: how often senders are stopped
  None

VARIABLES
  job,        \* job[t]: the sender's checkpoint of t, None before there is one
  master,     \* master[t]: the key in the memory of the process that sends t
  chunks,     \* the chunk ciphertexts stored
  envelopes,  \* the manifest and descriptor envelopes stored
  delivered,  \* the transfer keys sealed for recipients
  reader,     \* a receiver of t, by link or as a recipient, or None
  stops

vars == <<job, master, chunks, envelopes, delivered, reader, stops>>
-----------------------------------------------------------------------------
(* The format.                                                             *)

\* generate_transfer_key(): a key of its own for every transfer
ShareKey(t) == [kind |-> "share", t |-> t]

\* generate_nonce_prefix(): a prefix of its own for every use
Prefix(t, use) == [t |-> t, use |-> use]

PasswordKey(w, salt) == [kind |-> "argon2id", password |-> w, salt |-> salt]

\* derive_password_protected_key(): HKDF of both, so neither alone is enough
ProtectedKey(share, key) == [kind |-> "protected", share |-> share, password |-> key]

\* unlock_job(), unlock(), unlock_saved(): the key of a transfer
MasterKey(share, salt, w) ==
  IF salt = None THEN share ELSE ProtectedKey(share, PasswordKey(w, salt))

ItemKey(key, t, i) == [kind |-> "item", master |-> key, t |-> t, item |-> i]

\* u64::MAX, which no u32 chunk index reaches
ManifestIndex == -1

\* Faulty variant: a chunk is sealed under the prefix alone.
NoncePrefixOnly(prefix, index) == [prefix |-> prefix, index |-> 0]

\* The 16 random bytes and the index complete the 24 bytes of a nonce
Nonce(prefix, index) == [prefix |-> prefix, index |-> index]

\* aad(): "filebeam:v1:transfer:item:index"
Aad(t, i, index) == [scope |-> "v1", t |-> t, item |-> i, index |-> index]

\* The associated data of a manifest and of a Turbo descriptor
MetaAad(t, purpose) == Aad(t, purpose, ManifestIndex)

\* "filebeam:local:v1:job:attached-note"
NoteAad(t) == [scope |-> "local", t |-> t, item |-> "attached-note", index |-> ManifestIndex]

Encrypt(key, nonce, aad, plain) == [key |-> key, nonce |-> nonce, aad |-> aad, plain |-> plain]

\* decrypt_chunk_at_index(): authentication fails unless all three agree
Decrypts(x, key, nonce, aad) == x.key = key /\ x.nonce = nonce /\ x.aad = aad

RecipientAad(t, b) == [scope |-> "recipient", t |-> t, bundle |-> b]

\* seal_key_for_recipient() and open_recipient_envelope()
SealFor(b, key, aad) == [bundle |-> b, key |-> key, aad |-> aad]

OpensFor(x, b, aad) == x.bundle = b /\ x.aad = aad

\* The size of chunk `index`, and how many there are: an empty file has one
PlaintextLen(size, index) ==
  IF size <= index * ChunkBytes THEN 0
  ELSE IF size - index * ChunkBytes > ChunkBytes THEN ChunkBytes ELSE size - index * ChunkBytes

ChunkCount(size) == IF size = 0 THEN 1 ELSE (size + ChunkBytes - 1) \div ChunkBytes
-----------------------------------------------------------------------------
(* What a sender writes.                                                   *)

ItemPrefix(t, i) == Prefix(t, i)

Places(t) ==
  UNION {{<<Content[t][k].id, c>> : c \in 0..(ChunkCount(Content[t][k].size) - 1)} :
           k \in DOMAIN Content[t]}

\* encrypted_manifest() and turbo_descriptor(): the items of the job
ManifestItems(t) ==
  [k \in DOMAIN Content[t] |->
     [id |-> Content[t][k].id, name |-> Content[t][k].name, size |-> Content[t][k].size,
      prefix |-> ItemPrefix(t, Content[t][k].id), count |-> ChunkCount(Content[t][k].size)]]

\* prepare_one(): the text of a chunk, and its length
ChunkText(t, i, c) ==
  LET k == CHOOSE n \in DOMAIN Content[t] : Content[t][n].id = i
  IN [t |-> t, item |-> i, index |-> c, len |-> PlaintextLen(Content[t][k].size, c)]

SealedChunk(key, t, i, c) ==
  Encrypt(ItemKey(key, t, i), Nonce(ItemPrefix(t, i), c), Aad(t, i, c), ChunkText(t, i, c))

SealedMeta(key, t, purpose) ==
  Encrypt(key, Nonce(Prefix(t, purpose), ManifestIndex), MetaAad(t, purpose),
          [purpose |-> purpose, items |-> ManifestItems(t)])

SealedNote(key, t) ==
  Encrypt(key, Nonce(Prefix(t, "note"), ManifestIndex), NoteAad(t), [note |-> t])

Typed(salt) == IF salt = None THEN {None} ELSE Password

\* run_new(): inbox delivery is HTTP without a password; a note is sealed with the
\* key of the transfer before anything else, and the recipient's envelope when the
\* transfer is reserved.
Begin(t) ==
  /\ job[t] = None
  /\ \E salt \in {None, t}, b \in Bundle \cup {None}, note \in BOOLEAN :
       /\ b # None => salt = None
       /\ \E w \in (IF note THEN Typed(salt) ELSE {None}) :
            LET key == MasterKey(ShareKey(t), salt, w)
            IN /\ master' = [master EXCEPT ![t] = IF note THEN key ELSE None]
               /\ job' = [job EXCEPT ![t] =
                    [salt |-> salt, recipient |-> b, chunks |-> {},
                     note |-> IF note THEN SealedNote(key, t) ELSE None,
                     descriptor |-> FALSE, manifest |-> FALSE]]
       /\ delivered' = delivered \cup
            (IF b = None THEN {} ELSE {SealFor(b, ShareKey(t), RecipientAad(t, b))})
  /\ UNCHANGED <<chunks, envelopes, reader, stops>>

\* unlock_job() when a job starts or is resumed: the password is asked for, and
\* nothing is there to compare it with.  (A job whose manifest is sealed asks too,
\* and uses the key for nothing.)
Unlock(t) ==
  /\ job[t] # None /\ master[t] = None /\ ~job[t].manifest
  /\ \E w \in Typed(job[t].salt) :
       master' = [master EXCEPT ![t] = MasterKey(ShareKey(t), job[t].salt, w)]
  /\ UNCHANGED <<job, chunks, envelopes, delivered, reader, stops>>

\* next_missing_chunk() and prepare_one()
SealChunk(t) ==
  /\ job[t] # None /\ master[t] # None /\ ~job[t].manifest
  /\ \E p \in Places(t) \ job[t].chunks :
       /\ job' = [job EXCEPT ![t].chunks = @ \cup {p}]
       /\ chunks' = chunks \cup {SealedChunk(master[t], t, p[1], p[2])}
  /\ UNCHANGED <<master, envelopes, delivered, reader, stops>>

\* open_attached_note(): a note that does not open ends the attempt
NoteOpens(t) == job[t].note # None => Decrypts(job[t].note, master[t],
                                  Nonce(Prefix(t, "note"), ManifestIndex), NoteAad(t))

\* turbo_descriptor(): an anonymous transfer of files, before the chunks
SealDescriptor(t) ==
  /\ job[t] # None /\ master[t] # None /\ job[t].recipient = None
  /\ ~job[t].descriptor /\ ~job[t].manifest /\ job[t].chunks = {}
  /\ NoteOpens(t)
  /\ job' = [job EXCEPT ![t].descriptor = TRUE]
  /\ envelopes' = envelopes \cup
       {[salt |-> job[t].salt, prefix |-> Prefix(t, "descriptor"),
         cipher |-> SealedMeta(master[t], t, "descriptor")]}
  /\ UNCHANGED <<master, chunks, delivered, reader, stops>>

\* encrypted_manifest(): once, when every chunk is sealed; complete_transfer()
\* publishes it.
SealManifest(t) ==
  /\ job[t] # None /\ master[t] # None /\ ~job[t].manifest
  /\ job[t].chunks = Places(t) /\ NoteOpens(t)
  /\ job' = [job EXCEPT ![t].manifest = TRUE]
  /\ envelopes' = envelopes \cup
       {[salt |-> job[t].salt, prefix |-> Prefix(t, "manifest"),
         cipher |-> SealedMeta(master[t], t, "manifest")]}
  /\ master' = [master EXCEPT ![t] = None]
  /\ UNCHANGED <<chunks, delivered, reader, stops>>

\* The process ends, or the job does: the key was never saved
Stop(t) ==
  /\ master[t] # None /\ stops < MaxStops
  /\ master' = [master EXCEPT ![t] = None] /\ stops' = stops + 1
  /\ UNCHANGED <<job, chunks, envelopes, delivered, reader>>
-----------------------------------------------------------------------------
(* What a receiver accepts.                                                *)

\* The items a server lists for t: the true ones, or with one missing, one given
\* twice, one of another transfer, or a wrong number of chunks.
Listed(t) ==
  [k \in DOMAIN Content[t] |->
     [id |-> Content[t][k].id, position |-> k - 1, count |-> ChunkCount(Content[t][k].size)]]

Listings(t) ==
  {Listed(t), Tail(Listed(t)), [Listed(t) EXCEPT ![Len(Listed(t))] = Listed(t)[1]],
   [Listed(t) EXCEPT ![1].count = @ + 1]} \cup
  {[Listed(t) EXCEPT ![1].id = Listed(u)[1].id] : u \in Transfer \ {t}}

ServerItemsValid(list) ==
  /\ \A k, n \in DOMAIN list : k # n =>
       list[k].id # list[n].id /\ list[k].position # list[n].position
  /\ \A k \in DOMAIN list :
       list[k].position < Len(list) /\ list[k].count \in 1..MaxChunks

\* The item of the manifest at k: known to the server, and new
ItemValid(items, list, k) ==
  /\ \E n \in DOMAIN list : list[n].id = items[k].id /\ list[n].count = items[k].count
  /\ items[k].count \in 1..MaxChunks /\ items[k].count = ChunkCount(items[k].size)
  /\ \A n \in 1..(k - 1) : items[n].id # items[k].id

NamesValid(items) ==
  \A k, n \in DOMAIN items : k # n => Portable[items[k].name] # Portable[items[n].name]

\* validate_manifest(); a descriptor is not asked for its saved names, only for the
\* names as they are written (download.rs 882).
Accepts(purpose, items, list) ==
  /\ items # <<>> /\ Len(items) = Len(list)
  /\ purpose = "manifest" => ServerItemsValid(list)
  /\ \A k \in DOMAIN items : ItemValid(items, list, k)
  /\ IF purpose = "manifest" THEN NamesValid(items)
     ELSE \A k, n \in DOMAIN items : k # n => items[k].name # items[n].name

\* manifest_for(), turbo_descriptor_for(): the envelope opens as that of t
Opens(e, key, t, purpose) ==
  Decrypts(e.cipher, key, Nonce(e.prefix, ManifestIndex), MetaAad(t, purpose))

Received(t, b, key, items, list) ==
  [t |-> t, bundle |-> b, master |-> key, items |-> items, list |-> list, plain |-> {}]

\* unlock() and manifest_for(): a link names the transfer and carries its key; the
\* salt is the envelope's, whichever envelope the server answers with.
OpenLink(t) ==
  /\ reader = None
  /\ \E e \in envelopes, purpose \in {"manifest", "descriptor"}, list \in Listings(t) :
       \E w \in Typed(e.salt) :
         LET key == MasterKey(ShareKey(t), e.salt, w)
         IN /\ Opens(e, key, t, purpose)
            /\ Accepts(purpose, e.cipher.plain.items, list)
            /\ reader' = Received(t, None, key, e.cipher.plain.items, list)
  /\ UNCHANGED <<job, master, chunks, envelopes, delivered, stops>>

\* account.rs open_inbox(), inbox_staging.rs export() and export_staged(): the
\* holder of bundle b opens the envelope the server gives for t.
OpenInbox(t, b) ==
  /\ reader = None
  /\ \E x \in delivered, e \in envelopes, list \in Listings(t) :
       /\ OpensFor(x, b, RecipientAad(t, b)) /\ e.salt = None
       /\ Opens(e, x.key, t, "manifest")
       /\ Accepts("manifest", e.cipher.plain.items, list)
       /\ reader' = Received(t, b, x.key, e.cipher.plain.items, list)
  /\ UNCHANGED <<job, master, chunks, envelopes, delivered, stops>>

\* authenticate_and_write(), restore_retained(): chunk c of item k
ReadChunk ==
  /\ reader # None
  /\ \E k \in DOMAIN reader.items, x \in chunks :
       \E c \in 0..(reader.items[k].count - 1) :
         /\ <<reader.items[k].id, c>> \notin {<<g[1], g[2]>> : g \in reader.plain}
         /\ Decrypts(x, ItemKey(reader.master, reader.t, reader.items[k].id),
                     Nonce(reader.items[k].prefix, c), Aad(reader.t, reader.items[k].id, c))
         /\ x.plain.len = PlaintextLen(reader.items[k].size, c)
         /\ reader' = [reader EXCEPT !.plain =
                         @ \cup {<<reader.items[k].id, c, x.plain>>}]
  /\ UNCHANGED <<job, master, chunks, envelopes, delivered, stops>>

\* The receiver is done, or gives up
Close ==
  /\ reader # None /\ reader' = None
  /\ UNCHANGED <<job, master, chunks, envelopes, delivered, stops>>
-----------------------------------------------------------------------------
Init ==
  /\ job = [t \in Transfer |-> None] /\ master = [t \in Transfer |-> None]
  /\ chunks = {} /\ envelopes = {} /\ delivered = {}
  /\ reader = None /\ stops = 0

Next ==
  \/ \E t \in Transfer :
       \/ Begin(t)
       \/ Unlock(t)
       \/ SealChunk(t)
       \/ SealDescriptor(t)
       \/ SealManifest(t)
       \/ Stop(t)
       \/ OpenLink(t)
       \/ \E b \in Bundle : OpenInbox(t, b)
  \/ ReadChunk
  \/ Close

Spec == Init /\ [][Next]_vars
-----------------------------------------------------------------------------
(* Properties.                                                             *)

Metas == {e.cipher : e \in envelopes}
Notes == {job[t].note : t \in {u \in Transfer : job[u] # None /\ job[u].note # None}}

\* Terms are made by the constructors of the format, and a sealed place is recorded.
TypeOK ==
  /\ \A t \in Transfer : job[t] # None => job[t].chunks \subseteq Places(t)
  /\ \A x \in chunks : \E t \in Transfer : job[t] # None /\
       <<x.aad.item, x.aad.index>> \in job[t].chunks
  /\ reader # None => reader.t \in Transfer
  /\ stops \in 0..MaxStops

\* encrypt_chunk(), encrypt_manifest(): a key seals two different texts under one
\* nonce never, although a sender is stopped anywhere, asked for its password again
\* and given another, and the manifest, the descriptor and the local copy of the
\* note are all sealed with the key of the transfer.
NonceUnique ==
  \A x, y \in chunks \cup Metas \cup Notes :
    x.key = y.key /\ x.nonce = y.nonce => x = y

\* authenticate_and_write(): whatever objects the storage answers with, what is
\* written at a place of a file is what the sender sealed for that place of that
\* transfer, and the list of files is the sender's.
ReceivedExact ==
  reader # None =>
    /\ reader.items = ManifestItems(reader.t)
    /\ \A g \in reader.plain : g[3] = ChunkText(reader.t, g[1], g[2])

\* seal_key_for_recipient(), derive_password_protected_key(): without the link a
\* transfer opens only for the recipient it was sealed for, and a protected one never
\* with its share key alone, whichever envelope and salt the server answers with.
KeyRequired ==
  reader # None =>
    /\ reader.bundle # None => job[reader.t].recipient = reader.bundle
    /\ job[reader.t].salt # None =>
         \E w \in Password :
           reader.master = ProtectedKey(ShareKey(reader.t), PasswordKey(w, job[reader.t].salt))

\* validate_manifest(): the files accepted are exactly those the server lists, each
\* with as many chunks, so a download has neither a file nobody stores nor a chunk
\* nobody asks for.
ListingMatched ==
  reader # None =>
    /\ {reader.items[k].id : k \in DOMAIN reader.items} =
         {reader.list[k].id : k \in DOMAIN reader.list}
    /\ \A k \in DOMAIN reader.items : \E n \in DOMAIN reader.list :
         reader.list[n].id = reader.items[k].id /\ reader.list[n].count = reader.items[k].count

\* README.md of crates/encryption, of a transfer that carries a note: "All fields are
\* encrypted with the files' transfer key", so whoever opens the published manifest
\* can read the files.  It does not hold: unlock_job() takes another password when a
\* job is resumed, and seals the chunks of that attempt with the key it gives.
OneTransferKey ==
  \A e \in envelopes : \A t \in Transfer :
    e.cipher.aad = MetaAad(t, "manifest") /\ job[t].note # None =>
      \A p \in Places(t) : SealedChunk(e.cipher.key, t, p[1], p[2]) \in chunks
=============================================================================
