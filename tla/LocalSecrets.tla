---------------------------- MODULE LocalSecrets ----------------------------
(***************************************************************************)
(* The secrets the program keeps in files of the user's: the record of the  *)
(* master password (master_password_store, master_password_manager, and the *)
(* dialog that asks), the refresh token (oauth/token_store) and the Windows *)
(* Hello file. The system's data protection (DPAPI) is modelled from how    *)
(* they use it: it opens what it sealed for the same user, with the same    *)
(* entropy. A hash and a derived key are records of what they are made from.*)
(***************************************************************************)
EXTENDS BackupFile

NoFile == [missing |-> TRUE]

\* CryptProtectData and CryptUnprotectData.
ProtectData(user, entropy, plain) == [for |-> <<user, entropy>>, holds |-> plain]
UnprotectData(user, entropy, blob) ==
  IF "for" \in DOMAIN blob /\ blob.for = <<user, entropy>> THEN Just(blob.holds) ELSE Refused

-----------------------------------------------------------------------------
(* MasterPasswordStore.                                                     *)

HashLength == 64
HashHex(password) == [hashOf |-> password, size |-> HashLength]

SerializeRecord(r) ==
  ToJsonBytes([password_hash |-> [string |-> r.hash], kdf_salt |-> [string |-> ToBase64(r.salt)]])

DeserializeRecord(bytes) ==
  LET object == FromJsonBytes(bytes)
      isText(key) == key \in DOMAIN object.it /\ "string" \in DOMAIN object.it[key]
      record == [hash |-> object.it.password_hash.string, salt |-> FromBase64(object.it.kdf_salt.string)]
  IN  IF /\ object.ok /\ isText("password_hash") /\ isText("kdf_salt")
         /\ record.hash.size = HashLength /\ record.salt.size = SaltSize
      THEN Just(record) ELSE Refused

\* Encode refuses what Load would.
Encode(user, record) ==
  IF record.hash.size = HashLength /\ record.salt.size = SaltSize
  THEN Just(ProtectData(user, "none", SerializeRecord(record))) ELSE Refused

Load(user, file) ==
  LET plain == UnprotectData(user, "none", file)
  IN  IF plain.ok THEN DeserializeRecord(plain.it) ELSE Refused

-----------------------------------------------------------------------------
(* MasterPasswordManager. An answer is an error or the session's payload.   *)

Failure(error) == [error |-> error]
Payload(password, salt) ==
  [error |-> "none", master |-> password, key |-> Pbkdf2(password, salt, CloudIterations).it]

\* The record is written before the key is derived.
SetInitial(user, file, password, salt) ==
  CASE file # NoFile -> [file |-> file, answer |-> Failure("internal")]
    [] file = NoFile /\ password = "" -> [file |-> file, answer |-> Failure("too short")]
    [] OTHER -> [file |-> Encode(user, [hash |-> HashHex(password), salt |-> salt]).it,
                 answer |-> Payload(password, salt)]

VerifyLocal(user, file, password) ==
  LET record == Load(user, file)
  IN  CASE file = NoFile -> Failure("not initialized")
        [] file # NoFile /\ ~record.ok -> Failure("io")
        [] file # NoFile /\ record.ok /\ record.it.hash # HashHex(password) -> Failure("wrong password")
        [] OTHER -> Payload(password, record.it.salt)

\* The record of a change is handed to the coordinator, which saves it.
BuildChange(user, file, old, new, salt) ==
  LET verified == VerifyLocal(user, file, old)
      failure == CASE verified.error = "wrong password" -> verified.error
                   [] verified.error \notin {"wrong password", "none"} -> "store failed"
                   [] verified.error = "none" /\ old = new -> "unchanged"
                   [] verified.error = "none" /\ old # new /\ new = "" -> "too short"
                   [] OTHER -> "none"
  IN  IF failure # "none" THEN [record |-> file, answer |-> Failure(failure)]
      ELSE [record |-> Encode(user, [hash |-> HashHex(new), salt |-> salt]).it,
            answer |-> Payload(new, salt)]

\* MasterPasswordDialog::OnAccept: the dialog closes with what it may be used with.
DialogAccepts(mode, old, new, confirm) ==
  /\ new # ""
  /\ mode = "change" => old # "" /\ old # new
  /\ mode \in {"setup", "change"} => confirm = new

-----------------------------------------------------------------------------
(* TokenStore, whose entropy is made of the machine's id, and the file of   *)
(* Windows Hello, which a password change overwrites with a marker.         *)

EntropyBytes(machine) == <<"PassVault:", machine>>

SaveRefreshToken(user, machine, file, token) ==
  IF token = "" THEN file ELSE ProtectData(user, EntropyBytes(machine), [token |-> token])

LoadRefreshToken(user, machine, file) ==
  LET plain == UnprotectData(user, EntropyBytes(machine), file)
  IN  IF plain.ok /\ plain.it.token # "" THEN Just(plain.it.token) ELSE Refused

HelloMarker == [marker |-> "passvault-hello-invalidated"]
IsEnrolled(file) == file \notin {NoFile, HelloMarker}
Invalidate(file) == IF file = NoFile THEN NoFile ELSE HelloMarker

Enroll(user, file, password, available, verified) ==
  IF available /\ verified THEN ProtectData(user, "none", [password |-> password]) ELSE file

UnlockWithHello(user, file, available, verified) ==
  LET plain == UnprotectData(user, "none", file)
  IN  IF IsEnrolled(file) /\ available /\ verified /\ plain.ok THEN Just(plain.it.password) ELSE Refused

-----------------------------------------------------------------------------
Users == {"user", "somebody"}
Passwords == {"", "one", "two"}
SmallRecords ==
  {NoFile, [junk |-> TRUE]} \cup {SetInitial(u, NoFile, p, Salt(1)).file : u \in Users, p \in {"one", "two"}}

\* Exactly the password that was set opens the vault, always with the same key; a
\* record of another user, or a damaged one, is an error and never a wrong
\* password, so that nobody is told to try again; and a vault that exists is
\* never set up anew.
ASSUME OnlyTheMasterPasswordOpens ==
  \A f \in SmallRecords, p \in Passwords, q \in Passwords :
    LET set == SetInitial("user", f, p, Salt(2))
    IN  /\ f # NoFile => set.file = f /\ set.answer.error # "none"
        /\ f = NoFile /\ p # "" =>
             /\ VerifyLocal("user", set.file, q) = IF p = q THEN set.answer ELSE Failure("wrong password")
             /\ VerifyLocal("somebody", set.file, q) = Failure("io")
        /\ f = NoFile /\ p = "" => VerifyLocal("user", set.file, q) = Failure("not initialized")

\* A change that the dialog lets through and the old password confirms gives a
\* record that opens with the new password only, with the key the session is
\* given; nothing else makes a record. A Hello file of the old password does not
\* unlock once the change has invalidated it.
ASSUME ChangeReplacesThePassword ==
  \A f \in SmallRecords, old \in Passwords, new \in Passwords, confirm \in Passwords, q \in Passwords :
    LET change == BuildChange("user", f, old, new, Salt(3))
        hello == Enroll("user", NoFile, old, TRUE, TRUE)
    IN  /\ change.answer.error # "none" => change.record = f
        /\ DialogAccepts("change", old, new, confirm) /\ VerifyLocal("user", f, old).error = "none" =>
             /\ change.answer.error = "none"
             /\ VerifyLocal("user", change.record, q)
                  = IF q = confirm THEN change.answer ELSE Failure("wrong password")
        /\ UnlockWithHello("user", hello, TRUE, TRUE) = Just(old)
        /\ ~UnlockWithHello("user", Invalidate(hello), TRUE, TRUE).ok

\* A stored refresh token is readable on the machine it was stored on by the user
\* who connected the account, and nowhere else; an empty one is not stored.
ASSUME TokenStaysHere ==
  \A u \in Users, machine \in {"here", "there"}, token \in {"", "token"} :
    LET file == SaveRefreshToken("user", "here", NoFile, token)
    IN  LoadRefreshToken(u, machine, file) =
          IF token # "" /\ u = "user" /\ machine = "here" THEN Just(token) ELSE Refused
=============================================================================
