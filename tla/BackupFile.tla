----------------------------- MODULE BackupFile -----------------------------
(***************************************************************************)
(* The backup in the cloud as a file: the items of SyncPayloadV2, their     *)
(* JSON, the sealing of CloudCryptoService and the JSON of                  *)
(* CloudBackupFormat, as DoSyncOnce and the password change write and read  *)
(* them; and the local sealing of an entry's password.                      *)
(*                                                                         *)
(* Cryptography is symbolic: a ciphertext is the record of what sealed it   *)
(* and opens with the same key and iv only. A byte string is a record with  *)
(* its size, a JSON value a record with the one field of its type, a JSON   *)
(* object a function from its keys. Texts that are alike (website, notes,   *)
(* the colour) are left to the title. The assumptions at the end are        *)
(* evaluated by TLC over small vaults and damaged files.                    *)
(***************************************************************************)
EXTENDS Naturals, FiniteSets, Sequences
LOCAL INSTANCE SequencesExt
LOCAL INSTANCE TLC

Refused == [ok |-> FALSE]            \* std::nullopt
Just(x) == [ok |-> TRUE, it |-> x]

-----------------------------------------------------------------------------
(* CryptoService and KeyDerivation.                                         *)

KeySize == 32
IvSize == 12
TagSize == 16
SaltSize == 16

NoBytes == [size |-> 0]
Plain(x, n) == [size |-> n, plain |-> x]

EncryptGcm(key, iv, plain) ==
  IF key.size = KeySize /\ iv.size = IvSize
  THEN [size |-> plain.size + TagSize, key |-> key, iv |-> iv, sealed |-> plain]
  ELSE NoBytes

DecryptGcm(key, iv, bytes) ==
  IF /\ key.size = KeySize /\ iv.size = IvSize /\ bytes.size >= TagSize
     /\ "sealed" \in DOMAIN bytes /\ bytes.key = key /\ bytes.iv = iv
  THEN Just(bytes.sealed) ELSE Refused

\* Throws, and the callers refuse, when there is nothing to iterate.
Pbkdf2(password, salt, iterations) ==
  IF iterations > 0
  THEN Just([size |-> KeySize, password |-> password, salt |-> salt, iterations |-> iterations])
  ELSE Refused

-----------------------------------------------------------------------------
(* JSON.                                                                    *)

\* value(key).toString(), toInt(default), toBool(default), toArray().
Read(obj, key, type, default) ==
  IF key \in DOMAIN obj /\ type \in DOMAIN obj[key] THEN obj[key][type] ELSE default

\* A number, or a text that is one.
ReadInt64(obj, key) == Read(obj, key, "number", Read(obj, key, "digits", 0))

ToJsonBytes(obj) == [size |-> 1, json |-> obj]
FromJsonBytes(bytes) == IF "json" \in DOMAIN bytes THEN Just(bytes.json) ELSE Refused

ToBase64(bytes) == [base64 |-> bytes]
NoText == [text |-> ""]
FromBase64(text) == IF "base64" \in DOMAIN text THEN text.base64 ELSE [size |-> 3]

-----------------------------------------------------------------------------
(* SyncPayloadV2.                                                           *)

PasswordToJson(p) ==
  [uuid |-> [string |-> p.uuid], title |-> [string |-> p.title], password |-> [string |-> p.password],
   categoryUuid |-> [string |-> p.categoryUuid], isFavorite |-> [bool |-> p.isFavorite],
   createdAt |-> [number |-> p.createdAt], updatedAt |-> [number |-> p.updatedAt],
   isDeleted |-> [bool |-> p.isDeleted]]

PasswordFromJson(o) ==
  [uuid |-> Read(o, "uuid", "string", ""), title |-> Read(o, "title", "string", ""),
   password |-> Read(o, "password", "string", ""), categoryUuid |-> Read(o, "categoryUuid", "string", ""),
   isFavorite |-> Read(o, "isFavorite", "bool", FALSE),
   createdAt |-> ReadInt64(o, "createdAt"), updatedAt |-> ReadInt64(o, "updatedAt"),
   isDeleted |-> Read(o, "isDeleted", "bool", FALSE)]

CategoryToJson(c) ==
  [uuid |-> [string |-> c.uuid], name |-> [string |-> c.name], sortOrder |-> [number |-> c.sortOrder],
   createdAt |-> [number |-> c.createdAt], updatedAt |-> [number |-> c.updatedAt],
   isDeleted |-> [bool |-> c.isDeleted]]

CategoryFromJson(o) ==
  [uuid |-> Read(o, "uuid", "string", ""), name |-> Read(o, "name", "string", ""),
   sortOrder |-> Read(o, "sortOrder", "number", 0),
   createdAt |-> ReadInt64(o, "createdAt"), updatedAt |-> ReadInt64(o, "updatedAt"),
   isDeleted |-> Read(o, "isDeleted", "bool", FALSE)]

PayloadVersion == 2
Mapped(s, Op(_)) == [i \in DOMAIN s |-> Op(s[i])]
HasUuid(item) == item.uuid # ""

PayloadToJson(p) ==
  [version |-> [number |-> p.version],
   passwords |-> [array |-> Mapped(p.passwords, PasswordToJson)],
   categories |-> [array |-> Mapped(p.categories, CategoryToJson)]]

\* Items without a uuid are dropped; what is no array holds no items.
PayloadFromJson(o) ==
  [version |-> Read(o, "version", "number", PayloadVersion),
   passwords |-> SelectSeq(Mapped(Read(o, "passwords", "array", <<>>), PasswordFromJson), HasUuid),
   categories |-> SelectSeq(Mapped(Read(o, "categories", "array", <<>>), CategoryFromJson), HasUuid)]

-----------------------------------------------------------------------------
(* CloudBackupFormat and CloudCryptoService.                                *)

Kdf == "PBKDF2WithHmacSHA256"
Cipher == "AES-256-GCM"
CloudIterations == 600000

BackupToJson(b) ==
  [version |-> [number |-> b.version], kdfAlgorithm |-> [string |-> b.kdf],
   iterations |-> [number |-> b.iterations], salt |-> [string |-> b.salt],
   encryptionAlgorithm |-> [string |-> b.cipher], iv |-> [string |-> b.iv],
   ciphertext |-> [string |-> b.ciphertext]]

BackupFromJson(o) ==
  LET b == [version |-> Read(o, "version", "number", 1), kdf |-> Read(o, "kdfAlgorithm", "string", ""),
            iterations |-> Read(o, "iterations", "number", CloudIterations),
            salt |-> Read(o, "salt", "string", NoText), cipher |-> Read(o, "encryptionAlgorithm", "string", ""),
            iv |-> Read(o, "iv", "string", NoText), ciphertext |-> Read(o, "ciphertext", "string", NoText)]
  IN  IF NoText \in {b.salt, b.iv, b.ciphertext} THEN Refused ELSE Just(b)

EncryptForCloud(plain, password, salt, iv) ==
  [version |-> 1, kdf |-> Kdf, iterations |-> CloudIterations, salt |-> ToBase64(salt), cipher |-> Cipher,
   iv |-> ToBase64(iv),
   ciphertext |-> ToBase64(EncryptGcm(Pbkdf2(password, salt, CloudIterations).it, iv, plain))]

DecryptFromCloud(b, password) ==
  LET salt == FromBase64(b.salt)
      iv == FromBase64(b.iv)
      key == Pbkdf2(password, salt, b.iterations)
  IN  IF b.kdf = Kdf /\ b.cipher = Cipher /\ key.ok /\ salt.size = SaltSize /\ iv.size = IvSize
      THEN DecryptGcm(key.it, iv, FromBase64(b.ciphertext)) ELSE Refused

-----------------------------------------------------------------------------
(* SyncManager: from the tables to the file and back. A category id that    *)
(* has no row stands for no category, as 0 does.                            *)

DecryptLocalPassword(e, key) ==
  IF e.secret = NoBytes /\ e.iv = NoBytes THEN Just(Plain("", 0)) ELSE DecryptGcm(key, e.iv, e.secret)

EncryptLocalPassword(text, key, iv) ==
  [secret |-> EncryptGcm(key, iv, Plain(text, IF text = "" THEN 0 ELSE 1)), iv |-> iv]

CategoryToSyncItem(c) ==
  [uuid |-> c.uuid, name |-> c.name, sortOrder |-> c.order, createdAt |-> c.created,
   updatedAt |-> c.stamp, isDeleted |-> c.del]

\* The uuids of the categories, by id, as a function.
PasswordEntryToSyncItem(e, uuidOf, key) ==
  LET password == DecryptLocalPassword(e, key)
  IN  IF ~password.ok THEN Refused
      ELSE Just([uuid |-> e.uuid, title |-> e.title, password |-> password.it.plain,
                 categoryUuid |-> IF e.cat \in DOMAIN uuidOf THEN uuidOf[e.cat] ELSE "",
                 isFavorite |-> e.fav, createdAt |-> e.created, updatedAt |-> e.stamp, isDeleted |-> e.del])

DeletionMarkerToSyncItem(uuid, deletedAt) ==
  [uuid |-> uuid, title |-> "", password |-> "", categoryUuid |-> "", isFavorite |-> FALSE,
   createdAt |-> 0, updatedAt |-> deletedAt, isDeleted |-> TRUE]

IsContentlessTombstone(item) ==
  /\ item.isDeleted /\ item.createdAt = 0 /\ ~item.isFavorite
  /\ {item.title, item.password, item.categoryUuid} = {""}

\* The row written for an item (step 6).
EntryOfItem(item, idOf, key, iv) ==
  LET new == EncryptLocalPassword(item.password, key, iv)
  IN  [uuid |-> item.uuid, title |-> item.title, secret |-> new.secret, iv |-> new.iv,
       cat |-> IF item.categoryUuid \in DOMAIN idOf THEN idOf[item.categoryUuid] ELSE 0,
       fav |-> item.isFavorite, created |-> item.createdAt, stamp |-> item.updatedAt, del |-> item.isDeleted]

\* The final state as the file that is uploaded (steps 8 and 9). A store here has
\* its entries, categories and markers in sequences, in the order of the tables.
FileOf(s, key, password, salt, iv) ==
  LET uuidOf == (0 :> "") @@ [i \in {s.categories[j].id : j \in DOMAIN s.categories} |->
                                (CHOOSE c \in ToSet(s.categories) : c.id = i).uuid]
      items == Mapped(s.entries, LAMBDA e : PasswordEntryToSyncItem(e, uuidOf, key))
      payload == [version |-> PayloadVersion,
                  passwords |-> Mapped(items, LAMBDA x : x.it)
                                \o Mapped(s.markers, LAMBDA m : DeletionMarkerToSyncItem(m.uuid, m.at)),
                  categories |-> Mapped(s.categories, CategoryToSyncItem)]
  IN  IF \E i \in DOMAIN items : ~items[i].ok THEN Refused
      ELSE Just(ToJsonBytes(BackupToJson(
             EncryptForCloud(Plain(PayloadToJson(payload), 20), password, salt, iv))))

\* What a download makes of a file (step 2); anything wrong with it is an error,
\* never an empty backup.
PayloadOfFile(bytes, password) ==
  LET object == FromJsonBytes(bytes)
      backup == BackupFromJson(object.it)
      plain == DecryptFromCloud(backup.it, password)
      payload == PayloadFromJson(plain.it.plain)
  IN  IF object.ok /\ backup.ok /\ plain.ok /\ payload.version = PayloadVersion THEN Just(payload) ELSE Refused

-----------------------------------------------------------------------------
(* What they promise together.                                              *)

LocalKey(p) == [size |-> KeySize, local |-> p]
Iv(n) == [size |-> IvSize, random |-> n]
Salt(n) == [size |-> SaltSize, random |-> n]

SmallEntries ==
  {[uuid |-> "e1", title |-> "t", secret |-> x.secret, iv |-> x.iv, cat |-> c, fav |-> f, created |-> 1,
    stamp |-> n, del |-> d] :
      x \in {[secret |-> NoBytes, iv |-> NoBytes]}
              \cup {EncryptLocalPassword(w, LocalKey(1), Iv(1)) : w \in {"", "secret"}},
      c \in {0, 1, 9}, f \in BOOLEAN, n \in {1, 2}, d \in BOOLEAN}
SmallFileStores ==
  {[entries |-> <<e>>, markers |-> m,
    categories |-> <<[id |-> 1, uuid |-> "c1", name |-> "n", order |-> 0, created |-> 1, stamp |-> 1, del |-> x]>>] :
      e \in SmallEntries, m \in {<<>>, <<[uuid |-> "e2", at |-> 2]>>}, x \in BOOLEAN}

\* What one device uploads another one reads: the same entries, with the password,
\* the category, the stamp and the trash, under its own key; a marker is
\* recognised and an entry is never taken for one; and nobody reads it with
\* another master password. An entry whose category has no row goes to none.
ASSUME AnotherDeviceReadsTheBackup ==
  \A s \in SmallFileStores :
    LET file == FileOf(s, LocalKey(1), "master", Salt(1), Iv(2))
        read == PayloadOfFile(file.it, "master")
        e == s.entries[1]
        there == EntryOfItem(read.it.passwords[1], ("" :> 0) @@ ("c1" :> 7), LocalKey(2), Iv(3))
    IN  /\ file.ok /\ read.ok
        /\ there.cat = IF e.cat = 1 THEN 7 ELSE 0
        /\ [f \in {"uuid", "title", "fav", "created", "stamp", "del"} |-> there[f]]
             = [f \in {"uuid", "title", "fav", "created", "stamp", "del"} |-> e[f]]
        /\ DecryptLocalPassword(there, LocalKey(2)).it = DecryptLocalPassword(e, LocalKey(1)).it
        /\ {p.uuid : p \in {q \in ToSet(read.it.passwords) : IsContentlessTombstone(q)}}
             = {m.uuid : m \in ToSet(s.markers)}
        /\ read.it.categories = Mapped(s.categories, CategoryToSyncItem)
        /\ ~PayloadOfFile(file.it, "other").ok
        /\ ~FileOf(s, LocalKey(2), "master", Salt(1), Iv(2)).ok \/ e.secret = NoBytes

OtherValues ==
  {[number |-> 0], [number |-> 7], [string |-> NoText], [bool |-> TRUE], [string |-> [text |-> "junk"]],
   [string |-> ToBase64(Salt(2))], [string |-> ToBase64(Iv(9))]}

\* A backup that lost one of its fields, or holds something else there, is refused
\* or is read as what was written: a damaged file never counts as another backup
\* or as none, which the next upload would replace.
ASSUME DamageIsNoticed ==
  \A s \in SmallFileStores :
    LET file == FileOf(s, LocalKey(1), "master", Salt(1), Iv(2)).it
        whole == PayloadOfFile(file, "master")
        damaged == {[file EXCEPT !.json = [k \in DOMAIN @ \ {lost} |-> @[k]]] : lost \in DOMAIN file.json}
                   \cup {[file EXCEPT !.json[k] = v] :
                           k \in DOMAIN file.json \ {"kdfAlgorithm", "encryptionAlgorithm"}, v \in OtherValues}
                   \cup {[file EXCEPT !.json[k] = [string |-> "another"]] :
                           k \in {"kdfAlgorithm", "encryptionAlgorithm"}}
                   \cup {[size |-> 1], NoBytes}
    IN  \A f \in damaged : PayloadOfFile(f, "master") \in {Refused, whole}
=============================================================================
