----------------------------- MODULE ChunkFormat -----------------------------
(***************************************************************************)
(* What a record goes through between its session file and a restored one: *)
(* the record line of collector.rs, the chunks of ChunkStager in           *)
(* commands/backup.rs, their compression and encryption in crypto.rs, the  *)
(* count that verify makes, the parser of commands/restore.rs; and the key *)
(* all this is done with, wrapped by init and unwrapped by every command.  *)
(*                                                                         *)
(* Bytes matter here: names and lines may have the separators of the       *)
(* formats in them, and a chunk is closed by its size.  A byte of a session*)
(* file is a number and text a sequence of symbols, in which a digest, an  *)
(* offset and a provider are one symbol each.  Encryption with a secret can*)
(* only be undone with that secret, and is otherwise noticed.              *)
(***************************************************************************)
EXTENDS Integers, SequencesExt

CONSTANTS
    Raw,        \* records as they are found in session files
    Secret,     \* passphrases and recovery codes
    Limits,     \* values of CHAT_ARCHIVE_CHUNK_PLAIN_BYTES
    None

ASSUME SecretAssumption == None \notin Secret

ASSUME LimitAssumption == Limits \subseteq Nat

VARIABLES
    secrets,          \* what the user remembers of init
    keys,             \* keys/keys.env
    chunks,           \* the chunks in the manifest, and the count in each line
    archived,         \* the records they were made from, in order
    (* a backup: its ChunkStager *)
    archive_key,      \* the key it unlocked; None: no backup runs
    chunk_plain_limit,
    current_records, current_plain_bytes, pending_chunks,
    pushed            \* the records it has taken

stager == <<archive_key, chunk_plain_limit, current_records, current_plain_bytes,
            pending_chunks, pushed>>
vars   == <<secrets, keys, chunks, archived, stager>>

-----------------------------------------------------------------------------
(* Results *)

Ok(x)  == [ok |-> TRUE, value |-> x]
Failed == [ok |-> FALSE]

-----------------------------------------------------------------------------
(* Text *)

HEX   == <<"0", "1", "2", "3", "4", "5", "6", "7", "8", "9", "a", "b", "c", "d", "e", "f">>
UPPER == <<"A", "B", "C", "D", "E", "F">>

\* Mutated: a digit of its own only for large bytes.
HexShort(bytes) ==
    FlattenSeq([i \in DOMAIN bytes |->
        IF bytes[i] < 16 THEN <<HEX[bytes[i] + 1]>>
        ELSE <<HEX[bytes[i] \div 16 + 1], HEX[(bytes[i] % 16) + 1]>>])

HexEncode(bytes) ==
    FlattenSeq([i \in DOMAIN bytes |-> <<HEX[bytes[i] \div 16 + 1], HEX[(bytes[i] % 16) + 1]>>])

HexVal(c) ==
    IF c \in Range(HEX) THEN (CHOOSE n \in 1..16 : HEX[n] = c) - 1
    ELSE (CHOOSE n \in 1..6 : UPPER[n] = c) + 9

HexDecode(s) ==
    IF Len(s) % 2 = 0 /\ Range(s) \subseteq Range(HEX) \cup Range(UPPER)
    THEN Ok([i \in 1..(Len(s) \div 2) |-> 16 * HexVal(s[2 * i - 1]) + HexVal(s[2 * i])])
    ELSE Failed

Join(texts, separator) ==
    FlattenSeq([i \in DOMAIN texts |->
        IF i = 1 THEN texts[i] ELSE <<separator>> \o texts[i]])

\* The places in text that have the separator, in order.
Places(text, separator) ==
    FlattenSeq([i \in DOMAIN text |-> IF text[i] = separator THEN <<i>> ELSE <<>>])

\* The part of text between two places.
Between(text, from, to) == SubSeq(text, from + 1, to - 1)

\* At most n parts; the last one has the separators that are left.
SplitN(text, separator, n) ==
    LET found == Places(text, separator)
        cuts  == <<0>> \o SubSeq(found, 1, IF Len(found) < n THEN Len(found) ELSE n - 1)
                       \o <<Len(text) + 1>>
    IN  [k \in 1..(Len(cuts) - 1) |-> Between(text, cuts[k], cuts[k + 1])]

Split(text, separator) == SplitN(text, separator, Len(text) + 1)

\* fnv1a_hex and sha256_bytes, as unique as what they are given.
Digest(x) == ToString(x)

Decimal(n) == ToString(n)

-----------------------------------------------------------------------------
(* Records *)

RawHash(r)  == Digest(r.raw)
RecordId(r) == Digest(<<r.provider, r.path, r.offset, RawHash(r)>>)

\* The record as stream_records_from_source passes it on.
RecordLine(r) ==
    Join(<< <<RecordId(r)>>, <<r.provider>>, HexEncode(r.path),
            <<Decimal(r.offset)>>, <<RawHash(r)>>, HexEncode(r.raw) >>, "\t")

\* What restore makes of a line.
ParsedRecord(line) ==
    LET p == SplitN(line, "\t", 6)
    IN  IF Len(p) # 6 \/ ~ HexDecode(p[3]).ok \/ ~ HexDecode(p[6]).ok THEN Failed
        ELSE Ok([record_id |-> p[1], provider |-> p[2], source_path |-> HexDecode(p[3]).value,
                 source_offset |-> p[4], raw_hash |-> p[5], raw_line |-> HexDecode(p[6]).value])

\* The fields of a line that are no bytes: hexadecimal digests, the name of a
\* provider and a decimal number, which have no separator in them.
Symbols(r) == {RecordId(r), r.provider, Decimal(r.offset), RawHash(r)}

\* Paths and lines are bytes, of any value.  The collector passes on UTF-8 only,
\* so a restore, which gets the same bytes back, finds nothing else.
ASSUME RawAssumption ==
    \A r \in Raw : /\ r.path \in Seq(0..255) /\ r.raw \in Seq(0..255)
                  /\ Symbols(r) \cap {"\t", "\n"} = {}

\* What it should make of the line of record r.
Faithful(r) ==
    [record_id |-> <<RecordId(r)>>, provider |-> <<r.provider>>, source_path |-> r.path,
     source_offset |-> <<Decimal(r.offset)>>, raw_hash |-> <<RawHash(r)>>, raw_line |-> r.raw]

-----------------------------------------------------------------------------
(* Encryption *)

\* decrypt_aes_gcm fails unless the key comes from the secret that encrypted.
SameKey(secret, pass) == secret = pass

\* A version byte, a nonce and a ciphertext.
EncryptChunk(version, payload, pass) ==
    [version |-> version, secret |-> pass, payload |-> payload]

\* The versions: 1 is the text itself, 2 the text compressed.
Compressed(plain) == [zstd |-> TRUE, plain |-> plain]
Plain(plain)      == [zstd |-> FALSE, plain |-> plain]

DecryptChunk(cipher, pass) ==
    IF /\ cipher.version \in {1, 2}
       /\ SameKey(cipher.secret, pass)
       /\ cipher.version = 2 => cipher.payload.zstd
    THEN Ok(cipher.payload.plain) ELSE Failed

-----------------------------------------------------------------------------
(* Keys *)

Wrap(plain, pass) == [secret |-> pass, plain |-> plain]

Unwrap(wrapped, pass) ==
    IF SameKey(wrapped.secret, pass) THEN Ok(wrapped.plain) ELSE Failed

\* Mutated: the wraps are exchanged.
CreateExchanged(archiveKey, passphrase, recoveryCode) ==
    [KEY_HASH |-> Digest(archiveKey),
     PASS_WRAP_B64 |-> Wrap(archiveKey, recoveryCode),
     REC_WRAP_B64 |-> Wrap(archiveKey, passphrase)]

\* The key file that init writes.
CreatedKeys(archiveKey, passphrase, recoveryCode) ==
    [KEY_HASH |-> Digest(archiveKey),
     PASS_WRAP_B64 |-> Wrap(archiveKey, passphrase),
     REC_WRAP_B64 |-> Wrap(archiveKey, recoveryCode)]

\* The options of a command and the environment it runs in.
Given == [option : Secret \cup {None}, env : Secret \cup {None}]
Cli   == [passphrase : Given, recovery : Given]

OptionOrEnv(given) == IF given.option # None THEN given.option ELSE given.env

Hashed(unwrapped) ==
    IF unwrapped.ok /\ Digest(unwrapped.value) = keys.KEY_HASH THEN unwrapped ELSE Failed

\* A passphrase, once there is one, decides.
UnlockArchiveKey(cli) ==
    LET pass == OptionOrEnv(cli.passphrase)  code == OptionOrEnv(cli.recovery)
    IN  CASE pass # None                 -> Hashed(Unwrap(keys.PASS_WRAP_B64, pass))
          [] pass = None /\ code # None  -> Hashed(Unwrap(keys.REC_WRAP_B64, code))
          [] pass = None /\ code = None  -> Failed

\* Mutated: any secret of the archive will do.
RecoveryTestEither(cli) ==
    LET code == OptionOrEnv(cli.recovery)
    IN  code # None /\ (\/ Hashed(Unwrap(keys.REC_WRAP_B64, code)).ok
                        \/ Hashed(Unwrap(keys.PASS_WRAP_B64, code)).ok)

\* recovery-test says OK.
RecoveryTest(cli) ==
    LET code == OptionOrEnv(cli.recovery)
    IN  code # None /\ Hashed(Unwrap(keys.REC_WRAP_B64, code)).ok

-----------------------------------------------------------------------------
(* The stager *)

\* Mutated: the separator is not counted.
RoomWithoutSeparator(bytes) == current_plain_bytes + bytes <= chunk_plain_limit

Room(bytes) == current_plain_bytes + 1 + bytes <= chunk_plain_limit

BytesAfter(bytes) ==
    IF current_records = <<>> \/ ~ Room(bytes) THEN bytes
    ELSE current_plain_bytes + 1 + bytes

\* stage_records_chunk
StagedChunk(records) ==
    LET plain == Join(records, "\n")
    IN  [record_count |-> Len(records), plain_hash |-> Digest(plain), plain_bytes |-> Len(plain),
         cipher |-> EncryptChunk(2, Compressed(plain), archive_key)]

\* A chunk of a version that did not compress.
OldChunk(r, archiveKey) ==
    LET plain == RecordLine(r)
    IN  [record_count |-> 1, plain_hash |-> Digest(plain), plain_bytes |-> Len(plain),
         cipher |-> EncryptChunk(1, Plain(plain), archiveKey)]

Init ==
    /\ secrets \in [passphrase : Secret, recovery : Secret]
    /\ keys = CreatedKeys("archive key", secrets.passphrase, secrets.recovery)
    /\ archived \in {<<>>} \cup {<<r>> : r \in Raw}
    /\ chunks = [i \in DOMAIN archived |-> OldChunk(archived[i], "archive key")]
    /\ archive_key = None
    /\ chunk_plain_limit = 0
    /\ current_records = <<>> /\ current_plain_bytes = 0
    /\ pending_chunks = <<>> /\ pushed = <<>>

\* The backup unlocks the key, and makes its stager.
BeginBackup(cli, limit) ==
    /\ archive_key = None
    /\ UnlockArchiveKey(cli).ok
    /\ archive_key' = UnlockArchiveKey(cli).value
    /\ chunk_plain_limit' = limit
    /\ UNCHANGED <<secrets, keys, chunks, archived, current_records, current_plain_bytes,
                   pending_chunks, pushed>>

\* The id is the first field of the line.
IdOf(line) == Split(line, "\t")[1]

Ids(records) == {IdOf(RecordLine(records[i])) : i \in DOMAIN records}

\* ChunkStager::push of a record that is new.
Push(r) ==
    LET line == RecordLine(r)
    IN  /\ archive_key # None
        /\ IdOf(line) \notin Ids(archived) \cup Ids(pushed)
        /\ IF current_records # <<>> /\ ~ Room(Len(line))
           THEN /\ pending_chunks' = Append(pending_chunks, StagedChunk(current_records))
                /\ current_records' = <<line>>
           ELSE /\ current_records' = Append(current_records, line)
                /\ UNCHANGED pending_chunks
        /\ current_plain_bytes' = BytesAfter(Len(line))
        /\ pushed' = Append(pushed, r)
        /\ UNCHANGED <<secrets, keys, chunks, archived, archive_key, chunk_plain_limit>>

\* Mutated: a chunk of no records.
LastChunkAlways == <<StagedChunk(current_records)>>

\* stage_records_chunk makes no chunk of no records.
LastChunk == IF current_records = <<>> THEN <<>> ELSE <<StagedChunk(current_records)>>

\* ChunkStager::finish, and what the rest of the backup makes of it.
Finish ==
    /\ archive_key # None
    /\ chunks' = chunks \o pending_chunks \o LastChunk
    /\ archived' = archived \o pushed
    /\ archive_key' = None
    /\ chunk_plain_limit' = 0
    /\ current_records' = <<>> /\ current_plain_bytes' = 0
    /\ pending_chunks' = <<>> /\ pushed' = <<>>
    /\ UNCHANGED <<secrets, keys>>

Next ==
    \/ \E cli \in Cli, limit \in Limits : BeginBackup(cli, limit)
    \/ \E r \in Raw : Push(r)
    \/ Finish

Spec == Init /\ [][Next]_vars

-----------------------------------------------------------------------------
(* Reading *)

NonEmpty(lines) ==
    FlattenSeq([i \in DOMAIN lines |-> IF lines[i] = <<>> THEN <<>> ELSE <<lines[i]>>])

\* Mutated: a line break is a record.
VerifiedCountBreaks(plain) == Len(SelectSeq(plain, LAMBDA c : c = "\n"))

\* The records verify counts in a chunk.
VerifiedCount(plain) == Len(NonEmpty(Split(plain, "\n")))

\* The records restore finds in a chunk.
RestoredRecords(plain) ==
    LET lines == NonEmpty(Split(plain, "\n"))
    IN  [i \in DOMAIN lines |-> ParsedRecord(lines[i])]

-----------------------------------------------------------------------------
(* Properties *)

TypeOK ==
    /\ secrets \in [passphrase : Secret, recovery : Secret]
    /\ DOMAIN keys = {"KEY_HASH", "PASS_WRAP_B64", "REC_WRAP_B64"}
    /\ archived \in Seq(Raw) /\ pushed \in Seq(Raw)
    /\ archive_key \in {None, "archive key"}
    /\ chunk_plain_limit \in Limits \cup {0}
    /\ current_plain_bytes \in Nat
    /\ \A c \in Range(chunks) \cup Range(pending_chunks) :
          /\ DOMAIN c = {"record_count", "plain_hash", "plain_bytes", "cipher"}
          /\ c.record_count \in Nat \ {0} /\ c.plain_bytes \in Nat
          /\ c.cipher.secret = "archive key"

\* What the archive has in it comes out of a restore: every record of every
\* backup, byte for byte and in order, whatever bytes are in it, whichever
\* secret each backup was given, and whichever version wrote the chunk.
RestoredAsArchived ==
    \A key \in {UnlockArchiveKey(cli).value : cli \in {c \in Cli : UnlockArchiveKey(c).ok}} :
        LET opened == [i \in DOMAIN chunks |-> DecryptChunk(chunks[i].cipher, key)]
        IN  /\ \A i \in DOMAIN opened : opened[i].ok
            /\ FlattenSeq([i \in DOMAIN opened |-> RestoredRecords(opened[i].value)])
                 = [i \in DOMAIN archived |-> Ok(Faithful(archived[i]))]

\* The stager counts what it is given and verify counts what it finds in the
\* text: the two agree for every chunk, staged or archived, and so do the hashes
\* and the sizes, so verify never rejects a sound one.
CountsAgree ==
    \A c \in Range(chunks) \cup Range(pending_chunks) :
        LET plain == c.cipher.payload.plain
        IN  /\ VerifiedCount(plain) = c.record_count
            /\ Digest(plain) = c.plain_hash /\ Len(plain) = c.plain_bytes

\* First lines of the chunks that follow chunk i.
NextLine(i) ==
    IF i < Len(pending_chunks) THEN Split(pending_chunks[i + 1].cipher.payload.plain, "\n")[1]
    ELSE current_records[1]

\* The byte counter is the size of the text that will be encrypted, although it
\* is kept beside the records and reset apart from them: no chunk of two records
\* is over the limit, and none is closed while the next record still fits.
ChunksFilled ==
    /\ \A i \in DOMAIN pending_chunks :
         LET c == pending_chunks[i]
         IN  /\ c.record_count > 1 => c.plain_bytes <= chunk_plain_limit
             /\ c.plain_bytes + 1 + Len(NextLine(i)) > chunk_plain_limit
    /\ Len(Join(current_records, "\n")) = current_plain_bytes
    /\ Len(current_records) > 1 => current_plain_bytes <= chunk_plain_limit

NoneGiven == [option |-> None, env |-> None]

\* Either secret of init is enough, given by an option or by the environment,
\* and no other secret is of use; and a recovery drill that succeeds foretells
\* that the same code, without a passphrase, unlocks the archive.
EitherSecretUnlocks ==
    /\ \A g \in Given : OptionOrEnv(g) # None =>
         /\ UnlockArchiveKey([passphrase |-> g, recovery |-> NoneGiven]).ok
              <=> OptionOrEnv(g) = secrets.passphrase
         /\ UnlockArchiveKey([passphrase |-> NoneGiven, recovery |-> g]).ok
              <=> OptionOrEnv(g) = secrets.recovery
    /\ \A cli \in Cli : RecoveryTest(cli) =>
         UnlockArchiveKey([cli EXCEPT !.passphrase = NoneGiven]) = Ok("archive key")
=============================================================================
