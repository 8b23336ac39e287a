----------------------------- MODULE DataProofs -----------------------------
(***************************************************************************)
(* Proofs about what the system keeps. The vault: whatever is interrupted, *)
(* every stored secret opens, acknowledged values are served and retired   *)
(* keys stay gone; a rotation announces only what it stored, and the audit *)
(* trail is true. The review asks within its budget and reports what was   *)
(* answered. The memory stores miss nothing and lose no flushed write. A   *)
(* reload reports every change and catalogs valid manifests. An apply of   *)
(* infrastructure loses track only of what a crash or a failed save hit.   *)
(* Memories are distilled once and merged before they are deleted, and no  *)
(* log entry goes missing between the buffer and the file.                 *)
(***************************************************************************)
EXTENDS VaultStore, VaultAccess, SecretRotation, ReviewRun, MemoryBackends, ManifestReload,
        ProvisionApply, MemoryTiers, LogPipeline,
        FiniteSetTheorems, SequenceTheorems, NaturalsInduction, WellFoundedInduction, TLAPS

\* A master key is under its own salt, every wrapped key under the seal check.
WellWrapped(d) ==
  /\ d.check # Absent => d.salt # Absent /\ d.check.salt = d.salt
  /\ \A k \in KeyIds : d.keys[k] # Absent => d.keys[k] = d.check /\ d.check # Absent /\ k \in issued

\* Every secret has a data key of its own, and the vault holds that key.
WellKeyed(d) ==
  \A n \in SecretNames : d.secrets[n] # Absent =>
    /\ d.check # Absent
    /\ d.keys[d.secrets[n].key] = d.check
    /\ \A m \in SecretNames : d.secrets[m] # Absent /\ d.secrets[m].key = d.secrets[n].key => m = n

Kept(d) == WellWrapped(d) /\ WellKeyed(d)

\* The key ring is what the database says, save while initialize writes.
RingInv ==
  /\ ring.master # Absent => ring.master = ring.check
  /\ setup = "no" =>
       /\ db.check # Absent => ring.check = db.check /\ ring.salt = db.salt
       /\ db.check = Absent => ring.check = Absent /\ ring.salt = Absent
  /\ setup # "no" =>
       /\ vaultOp = NoOp
       /\ ring.check # Absent /\ ring.salt # Absent /\ ring.check.salt = ring.salt
       /\ \A k \in KeyIds : db.keys[k] = Absent
       /\ setup \in {"salt", "check"} => db.check = Absent
       /\ setup \in {"check", "flush"} => db.salt = ring.salt
       /\ setup = "flush" => db.check = ring.check
  /\ \A k \in KeyIds : ring.keys[k] # Absent => ring.keys[k] = ring.check /\ k \in issued
  /\ \A n \in SecretNames : db.secrets[n] # Absent => ring.keys[db.secrets[n].key] = ring.check

Unused(k) == \A n \in SecretNames : db.secrets[n] # Absent => db.secrets[n].key # k

\* What the operation under the mutex has done so far.
StepWrites(o) ==
  /\ o.key \in issued /\ o.key \notin retired
  /\ ring.keys[o.key] = ring.check
  /\ o.at \in {"persist", "write"} => Unused(o.key)
  /\ o.at = "write" => db.keys[o.key] = db.check
  /\ o.at \notin {"persist", "write"} =>
       db.secrets[o.name] # Absent /\ db.secrets[o.name].key = o.key /\ db.secrets[o.name].value = o.value
  /\ o.value \in possible[o.name]
StepRetires(o) ==
  /\ o.old \in issued
  /\ o.at \notin {"persist", "write"} => Unused(o.old)
  /\ o.at \in {"unpersist", "last"} => ring.keys[o.old] = Absent
  /\ o.at = "last" => db.keys[o.old] = Absent

OperationInv ==
  vaultOp # NoOp =>
    /\ db.check # Absent
    /\ vaultOp.kind \in {"store", "rotate"} => StepWrites(vaultOp)
    /\ vaultOp.kind \in {"rotate", "delete"} => StepRetires(vaultOp)
    /\ vaultOp.kind = "rotate" /\ vaultOp.at \in {"persist", "write"} =>
         db.secrets[vaultOp.name] # Absent /\ db.secrets[vaultOp.name].key = vaultOp.old
    /\ vaultOp.kind = "delete" =>
         db.secrets[vaultOp.name] = Absent /\ Absent \in possible[vaultOp.name]

ValuesInv ==
  \A n \in SecretNames : ValueOf(db, n) \in possible[n] /\ ValueOf(dbDisk, n) \in possible[n]

VaultInv ==
  /\ VaultTypeOK
  /\ Kept(db) /\ Kept(dbDisk)
  /\ RingInv
  /\ OperationInv
  /\ ValuesInv
  /\ RetiredKeysGone
  /\ retired \subseteq issued

LEMMA InitializeKeeps ==
  ASSUME VaultInv, NEW p \in Passphrases, NEW salt \in Salts, Initialize(p, salt)
  PROVE  VaultInv'
<1>1. VaultTypeOK'
  BY AbsentAssumption DEF VaultInv, VaultTypeOK, KeyRing, MasterKey, Initialize, DeriveWithSalt
<1>2. Kept(db)'
  BY AbsentAssumption DEF VaultInv, WellWrapped, Kept, Initialize
<1>3. Kept(dbDisk)'
  BY AbsentAssumption DEF VaultInv, Kept, WellWrapped, Initialize
<1>4. RingInv'
  BY AbsentAssumption DEF VaultInv, MasterKey, WellWrapped, WellKeyed, Kept, RingInv,
     OperationInv, Initialize, DeriveWithSalt
<1>5. OperationInv'
  BY AbsentAssumption DEF VaultInv, WellWrapped, Kept, RingInv, OperationInv, Initialize
<1>6. ValuesInv'
  BY AbsentAssumption DEF VaultInv, ValuesInv, Initialize
<1>7. RetiredKeysGone' /\ (retired \subseteq issued)'
  BY AbsentAssumption DEF VaultInv, RetiredKeysGone, Initialize
<1>. QED BY <1>1, <1>2, <1>3, <1>4, <1>5, <1>6, <1>7 DEF VaultInv

LEMMA SetupStepKeeps ==
  ASSUME VaultInv, SetupStep
  PROVE  VaultInv'
<1>1. VaultTypeOK'
  BY AbsentAssumption DEF VaultInv, VaultTypeOK, Database, KeyRing, SetupStep
<1>2. Kept(db)'
  BY AbsentAssumption DEF VaultInv, VaultTypeOK, Database, WellWrapped, WellKeyed, Kept,
     RingInv, SetupStep
<1>3. Kept(dbDisk)'
  BY AbsentAssumption DEF VaultInv, Kept, WellWrapped, WellKeyed, SetupStep
<1>4. RingInv'
  BY AbsentAssumption DEF VaultInv, VaultTypeOK, Database, RingInv, SetupStep
<1>5. OperationInv'
  BY AbsentAssumption DEF VaultInv, RingInv, OperationInv, SetupStep
<1>6. ValuesInv'
  BY AbsentAssumption DEF VaultInv, VaultTypeOK, Database, ValuesInv, ValueOf, SetupStep
<1>7. RetiredKeysGone' /\ (retired \subseteq issued)'
  BY AbsentAssumption DEF VaultInv, VaultTypeOK, Database, RetiredKeysGone, SetupStep
<1>. QED BY <1>1, <1>2, <1>3, <1>4, <1>5, <1>6, <1>7 DEF VaultInv

LEMMA SetupFailsKeeps ==
  ASSUME VaultInv, SetupFails
  PROVE  VaultInv'
<1>1. VaultTypeOK'
  BY AbsentAssumption DEF VaultInv, VaultTypeOK, Database, KeyRing, WrappedKeys, SetupFails,
     Opened, Restored, NewKeyRing, NoKeys
<1>2. Kept(db)'
  BY AbsentAssumption DEF VaultInv, WellWrapped, Kept, SetupFails
<1>3. Kept(dbDisk)'
  BY AbsentAssumption DEF VaultInv, Kept, WellWrapped, SetupFails
<1>4. RingInv'
  BY AbsentAssumption DEF VaultInv, WellWrapped, WellKeyed, Kept, RingInv, SetupFails, Opened,
     Restored, NewKeyRing, NoKeys
<1>5. OperationInv'
  BY AbsentAssumption DEF VaultInv, RingInv, OperationInv, SetupFails
<1>6. ValuesInv'
  BY AbsentAssumption DEF VaultInv, ValuesInv, SetupFails
<1>7. RetiredKeysGone' /\ (retired \subseteq issued)'
  BY AbsentAssumption DEF VaultInv, VaultTypeOK, RetiredKeysGone, SetupFails, Opened, Restored,
     NewKeyRing, NoKeys
<1>. QED BY <1>1, <1>2, <1>3, <1>4, <1>5, <1>6, <1>7 DEF VaultInv

LEMMA SealKeeps ==
  ASSUME VaultInv, Seal
  PROVE  VaultInv'
<1>1. VaultTypeOK'
  BY AbsentAssumption DEF VaultInv, VaultTypeOK, KeyRing, Seal, DropMaster
<1>2. Kept(db)'
  BY AbsentAssumption DEF VaultInv, WellWrapped, Kept, Seal
<1>3. Kept(dbDisk)'
  BY AbsentAssumption DEF VaultInv, Kept, WellWrapped, Seal
<1>4. RingInv'
  BY AbsentAssumption DEF VaultInv, RingInv, Seal, DropMaster
<1>5. OperationInv'
  BY AbsentAssumption DEF VaultInv, OperationInv, StepWrites, StepRetires, Unused, Seal, DropMaster
<1>6. ValuesInv'
  BY AbsentAssumption DEF VaultInv, ValuesInv, Seal
<1>7. RetiredKeysGone' /\ (retired \subseteq issued)'
  BY AbsentAssumption DEF VaultInv, RetiredKeysGone, Seal, DropMaster
<1>. QED BY <1>1, <1>2, <1>3, <1>4, <1>5, <1>6, <1>7 DEF VaultInv

LEMMA UnsealKeeps ==
  ASSUME VaultInv, NEW p \in Passphrases, Unseal(p)
  PROVE  VaultInv'
<1>1. VaultTypeOK'
  BY AbsentAssumption DEF VaultInv, VaultTypeOK, KeyRing, Unseal, UnsealedWith, Opens
<1>2. Kept(db)'
  BY AbsentAssumption DEF VaultInv, WellWrapped, Kept, Unseal
<1>3. Kept(dbDisk)'
  BY AbsentAssumption DEF VaultInv, Kept, WellWrapped, Unseal
<1>4. RingInv'
  BY AbsentAssumption DEF VaultInv, RingInv, Unseal, UnsealedWith, Opens
<1>5. OperationInv'
  BY AbsentAssumption DEF VaultInv, OperationInv, StepWrites, StepRetires, Unused, Unseal, UnsealedWith
<1>6. ValuesInv'
  BY AbsentAssumption DEF VaultInv, ValuesInv, Unseal
<1>7. RetiredKeysGone' /\ (retired \subseteq issued)'
  BY AbsentAssumption DEF VaultInv, RetiredKeysGone, Unseal, UnsealedWith
<1>. QED BY <1>1, <1>2, <1>3, <1>4, <1>5, <1>6, <1>7 DEF VaultInv

LEMMA StoreSecretKeeps ==
  ASSUME VaultInv, NEW n \in SecretNames, NEW v \in SecretValues, NEW k \in KeyIds, StoreSecret(n, v, k)
  PROVE  VaultInv'
<1>1. VaultTypeOK'
  BY AbsentAssumption DEF VaultInv, VaultTypeOK, KeyRing, WrappedKeys, Operation, StoreSecret,
     GenerateDataKey, Allow
<1>2. Kept(db)'
  BY AbsentAssumption DEF VaultInv, WellWrapped, Kept, StoreSecret, GenerateDataKey
<1>3. Kept(dbDisk)'
  BY AbsentAssumption DEF VaultInv, Kept, WellWrapped, StoreSecret, GenerateDataKey
<1>4. RingInv'
  BY AbsentAssumption DEF VaultInv, RingInv, StoreSecret, GenerateDataKey
<1>5. OperationInv'
  BY AbsentAssumption DEF VaultInv, VaultTypeOK, KeyRing, WrappedKeys, RingInv, OperationInv,
     StepWrites, Unused, StoreSecret, GenerateDataKey, Allow
<1>6. ValuesInv'
  BY AbsentAssumption DEF VaultInv, ValuesInv, StoreSecret, Allow
<1>7. RetiredKeysGone' /\ (retired \subseteq issued)'
  BY AbsentAssumption DEF VaultInv, RetiredKeysGone, StoreSecret, GenerateDataKey
<1>. QED BY <1>1, <1>2, <1>3, <1>4, <1>5, <1>6, <1>7 DEF VaultInv

LEMMA RotateSecretKeeps ==
  ASSUME VaultInv, NEW n \in SecretNames, NEW v \in SecretValues, NEW k \in KeyIds, RotateSecret(n, v, k)
  PROVE  VaultInv'
<1>1. VaultTypeOK'
  BY AbsentAssumption DEF VaultInv, VaultTypeOK, Database, KeyRing, WrappedKeys, StoredSecret,
     Operation, RotateSecret, GenerateDataKey, Allow
<1>2. Kept(db)'
  BY AbsentAssumption DEF VaultInv, WellWrapped, Kept, RotateSecret, GenerateDataKey
<1>3. Kept(dbDisk)'
  BY AbsentAssumption DEF VaultInv, Kept, WellWrapped, RotateSecret, GenerateDataKey
<1>4. RingInv'
  BY AbsentAssumption DEF VaultInv, RingInv, RotateSecret, GenerateDataKey
<1>5. OperationInv'
  BY AbsentAssumption DEF VaultInv, VaultTypeOK, Database, KeyRing, WrappedKeys, StoredSecret,
     RingInv, OperationInv, StepWrites, StepRetires, Unused, RotateSecret, GenerateDataKey, Allow
<1>6. ValuesInv'
  BY AbsentAssumption DEF VaultInv, ValuesInv, RotateSecret, Allow
<1>7. RetiredKeysGone' /\ (retired \subseteq issued)'
  BY AbsentAssumption DEF VaultInv, RetiredKeysGone, RotateSecret, GenerateDataKey
<1>. QED BY <1>1, <1>2, <1>3, <1>4, <1>5, <1>6, <1>7 DEF VaultInv

LEMMA DeleteSecretKeeps ==
  ASSUME VaultInv, NEW n \in SecretNames, DeleteSecret(n)
  PROVE  VaultInv'
<1>1. VaultTypeOK'
  BY AbsentAssumption DEF VaultInv, VaultTypeOK, Database, StoredSecret, Operation,
     DeleteSecret, Allow
<1>2. Kept(db)'
  BY AbsentAssumption DEF VaultInv, WellWrapped, WellKeyed, Kept, DeleteSecret
<1>3. Kept(dbDisk)'
  BY AbsentAssumption DEF VaultInv, Kept, WellWrapped, DeleteSecret
<1>4. RingInv'
  BY AbsentAssumption DEF VaultInv, VaultTypeOK, Database, StoredSecret, WellKeyed, Kept,
     RingInv, DeleteSecret
<1>5. OperationInv'
  BY AbsentAssumption DEF VaultInv, VaultTypeOK, Database, StoredSecret, WellKeyed, Kept,
     RingInv, OperationInv, StepRetires, Unused, DeleteSecret, Allow
<1>6. ValuesInv'
  BY AbsentAssumption DEF VaultInv, VaultTypeOK, ValuesInv, ValueOf, DeleteSecret, Allow
<1>7. RetiredKeysGone' /\ (retired \subseteq issued)'
  BY AbsentAssumption DEF VaultInv, RetiredKeysGone, DeleteSecret
<1>. QED BY <1>1, <1>2, <1>3, <1>4, <1>5, <1>6, <1>7 DEF VaultInv

LEMMA PersistWrappedKeyKeeps ==
  ASSUME VaultInv, PersistWrappedKey
  PROVE  VaultInv'
<1>1. VaultTypeOK'
  BY AbsentAssumption DEF VaultInv, VaultTypeOK, Database, KeyRing, WrappedKeys, Operation,
     PersistWrappedKey, At, Goto
<1>2. Kept(db)'
  BY AbsentAssumption DEF VaultInv, WellWrapped, WellKeyed, Kept, RingInv, PersistWrappedKey
<1>3. Kept(dbDisk)'
  BY AbsentAssumption DEF VaultInv, Kept, WellWrapped, PersistWrappedKey
<1>4. RingInv'
  BY AbsentAssumption DEF VaultInv, RingInv, PersistWrappedKey
<1>5. OperationInv'
  BY AbsentAssumption DEF VaultInv, VaultTypeOK, Database, WrappedKeys, Operation, RingInv,
     OperationInv, StepWrites, StepRetires, Unused, PersistWrappedKey, At, Goto
<1>6. ValuesInv'
  BY AbsentAssumption DEF VaultInv, ValuesInv, ValueOf, PersistWrappedKey
<1>7. RetiredKeysGone' /\ (retired \subseteq issued)'
  BY AbsentAssumption DEF VaultInv, RetiredKeysGone, PersistWrappedKey
<1>. QED BY <1>1, <1>2, <1>3, <1>4, <1>5, <1>6, <1>7 DEF VaultInv

LEMMA WriteSecretKeeps ==
  ASSUME VaultInv, WriteSecret
  PROVE  VaultInv'
<1>1. VaultTypeOK'
  BY AbsentAssumption DEF VaultInv, VaultTypeOK, Database, StoredSecret, Operation, WriteSecret,
     At, Goto
<1>2. Kept(db)'
  BY AbsentAssumption DEF VaultInv, VaultTypeOK, Operation, WellWrapped, WellKeyed, Kept,
     OperationInv, StepWrites, Unused, WriteSecret, At
<1>3. Kept(dbDisk)'
  BY AbsentAssumption DEF VaultInv, Kept, WellWrapped, WriteSecret
<1>4. RingInv'
  BY AbsentAssumption DEF VaultInv, VaultTypeOK, Operation, RingInv, OperationInv, StepWrites,
     WriteSecret, At
<1>5. OperationInv'
  BY AbsentAssumption DEF VaultInv, VaultTypeOK, Database, StoredSecret, Operation, WellKeyed,
     Kept, OperationInv, StepWrites, StepRetires, Unused, WriteSecret, At, Goto
<1>6. ValuesInv'
  BY AbsentAssumption DEF VaultInv, VaultTypeOK, StoredSecret, Operation, OperationInv, StepWrites,
     ValuesInv, ValueOf, WriteSecret, At
<1>7. RetiredKeysGone' /\ (retired \subseteq issued)'
  BY AbsentAssumption DEF VaultInv, RetiredKeysGone, WriteSecret
<1>. QED BY <1>1, <1>2, <1>3, <1>4, <1>5, <1>6, <1>7 DEF VaultInv

LEMMA FlushSecretKeeps ==
  ASSUME VaultInv, FlushSecret
  PROVE  VaultInv'
<1>1. VaultTypeOK'
  BY AbsentAssumption DEF VaultInv, VaultTypeOK, Operation, FlushSecret, At, Goto, Settle
<1>2. Kept(db)'
  BY AbsentAssumption DEF VaultInv, WellWrapped, Kept, FlushSecret
<1>3. Kept(dbDisk)'
  BY AbsentAssumption DEF VaultInv, Kept, WellWrapped, FlushSecret
<1>4. RingInv'
  BY AbsentAssumption DEF VaultInv, RingInv, FlushSecret, At
<1>5. OperationInv'
  <2>1. CASE vaultOp.kind = "store"
    BY <2>1 DEF OperationInv, FlushSecret
  <2>2. CASE vaultOp.kind = "rotate"
    <3>1. /\ vaultOp \in Operation /\ vaultOp.at = "flush" /\ vaultOp # NoOp
          /\ vaultOp' = [vaultOp EXCEPT !.at = "retire"]
          /\ UNCHANGED <<db, ring, issued, retired, possible>>
      BY <2>2 DEF VaultInv, VaultTypeOK, FlushSecret, At, Goto
    <3>2. /\ vaultOp'.kind = "rotate" /\ vaultOp'.at = "retire"
          /\ vaultOp'.name = vaultOp.name /\ vaultOp'.value = vaultOp.value
          /\ vaultOp'.key = vaultOp.key /\ vaultOp'.old = vaultOp.old
      BY <2>2, <3>1 DEF Operation
    <3>3. StepWrites(vaultOp)' /\ db.check # Absent
      BY <2>2, <3>1, <3>2 DEF VaultInv, OperationInv, StepWrites
    <3>4. StepRetires(vaultOp)'
      BY <2>2, <3>1, <3>2, <3>3 DEF VaultInv, OperationInv, StepRetires, Unused
    <3>. QED BY <3>1, <3>2, <3>3, <3>4 DEF OperationInv
  <2>. QED BY <2>1, <2>2 DEF FlushSecret, VaultInv, VaultTypeOK, Operation, NoOp
<1>6. ValuesInv'
  BY AbsentAssumption DEF VaultInv, VaultTypeOK, OperationInv, StepWrites, ValuesInv, ValueOf,
     FlushSecret, At, Settle
<1>7. RetiredKeysGone' /\ (retired \subseteq issued)'
  BY AbsentAssumption DEF VaultInv, RetiredKeysGone, FlushSecret
<1>. QED BY <1>1, <1>2, <1>3, <1>4, <1>5, <1>6, <1>7 DEF VaultInv

LEMMA RemoveDataKeyKeeps ==
  ASSUME VaultInv, RemoveDataKey
  PROVE  VaultInv'
<1>1. VaultTypeOK'
  BY AbsentAssumption DEF VaultInv, VaultTypeOK, KeyRing, WrappedKeys, Operation, RemoveDataKey,
     At, Goto
<1>2. Kept(db)'
  BY AbsentAssumption DEF VaultInv, WellWrapped, Kept, RemoveDataKey
<1>3. Kept(dbDisk)'
  BY AbsentAssumption DEF VaultInv, Kept, WellWrapped, RemoveDataKey
<1>4. RingInv'
  BY AbsentAssumption DEF VaultInv, VaultTypeOK, Operation, RingInv, OperationInv, StepRetires,
     Unused, RemoveDataKey, At
<1>5. OperationInv'
  BY AbsentAssumption DEF VaultInv, VaultTypeOK, KeyRing, WrappedKeys, Operation, OperationInv,
     StepWrites, StepRetires, Unused, RemoveDataKey, At, Goto
<1>6. ValuesInv'
  BY AbsentAssumption DEF VaultInv, ValuesInv, RemoveDataKey
<1>7. RetiredKeysGone' /\ (retired \subseteq issued)'
  BY AbsentAssumption DEF VaultInv, RetiredKeysGone, RemoveDataKey
<1>. QED BY <1>1, <1>2, <1>3, <1>4, <1>5, <1>6, <1>7 DEF VaultInv

LEMMA RemovePersistedKeyKeeps ==
  ASSUME VaultInv, RemovePersistedKey
  PROVE  VaultInv'
<1>1. VaultTypeOK'
  BY AbsentAssumption DEF VaultInv, VaultTypeOK, Database, WrappedKeys, Operation,
     RemovePersistedKey, At, Goto
<1>2. Kept(db)'
  BY AbsentAssumption DEF VaultInv, VaultTypeOK, Operation, WellWrapped, WellKeyed, Kept,
     RingInv, OperationInv, StepRetires, RemovePersistedKey, At
<1>3. Kept(dbDisk)'
  BY AbsentAssumption DEF VaultInv, Kept, WellWrapped, RemovePersistedKey
<1>4. RingInv'
  BY AbsentAssumption DEF VaultInv, RingInv, RemovePersistedKey, At
<1>5. OperationInv'
  BY AbsentAssumption DEF VaultInv, VaultTypeOK, Database, WrappedKeys, Operation, OperationInv,
     StepWrites, StepRetires, Unused, RemovePersistedKey, At, Goto
<1>6. ValuesInv'
  BY AbsentAssumption DEF VaultInv, ValuesInv, ValueOf, RemovePersistedKey
<1>7. RetiredKeysGone' /\ (retired \subseteq issued)'
  BY AbsentAssumption DEF VaultInv, RetiredKeysGone, RemovePersistedKey
<1>. QED BY <1>1, <1>2, <1>3, <1>4, <1>5, <1>6, <1>7 DEF VaultInv

LEMMA FlushRemovalKeeps ==
  ASSUME VaultInv, FlushRemoval
  PROVE  VaultInv'
<1>1. VaultTypeOK'
  BY AbsentAssumption DEF VaultInv, VaultTypeOK, Operation, FlushRemoval, At, Settle
<1>2. Kept(db)'
  BY AbsentAssumption DEF VaultInv, WellWrapped, Kept, FlushRemoval
<1>3. Kept(dbDisk)'
  BY AbsentAssumption DEF VaultInv, Kept, WellWrapped, FlushRemoval
<1>4. RingInv'
  BY AbsentAssumption DEF VaultInv, RingInv, FlushRemoval
<1>5. OperationInv'
  BY AbsentAssumption DEF OperationInv, FlushRemoval
<1>6. ValuesInv'
  BY AbsentAssumption DEF VaultInv, VaultTypeOK, Operation, OperationInv, StepWrites, ValuesInv,
     ValueOf, FlushRemoval, At, Settle
<1>7. RetiredKeysGone' /\ (retired \subseteq issued)'
  BY AbsentAssumption DEF VaultInv, VaultTypeOK, Operation, OperationInv, StepRetires,
     RetiredKeysGone, FlushRemoval, At
<1>. QED BY <1>1, <1>2, <1>3, <1>4, <1>5, <1>6, <1>7 DEF VaultInv

LEMMA OperationFailsKeeps ==
  ASSUME VaultInv, OperationFails
  PROVE  VaultInv'
<1>1. VaultTypeOK'
  BY AbsentAssumption DEF VaultInv, VaultTypeOK, OperationFails
<1>2. Kept(db)'
  BY AbsentAssumption DEF VaultInv, WellWrapped, Kept, OperationFails
<1>3. Kept(dbDisk)'
  BY AbsentAssumption DEF VaultInv, Kept, WellWrapped, WellKeyed, OperationFails
<1>4. RingInv'
  BY AbsentAssumption DEF VaultInv, RingInv, OperationFails
<1>5. OperationInv'
  BY AbsentAssumption DEF OperationInv, OperationFails
<1>6. ValuesInv'
  BY AbsentAssumption DEF VaultInv, ValuesInv, OperationFails
<1>7. RetiredKeysGone' /\ (retired \subseteq issued)'
  BY AbsentAssumption DEF VaultInv, RetiredKeysGone, OperationFails
<1>. QED BY <1>1, <1>2, <1>3, <1>4, <1>5, <1>6, <1>7 DEF VaultInv

LEMMA VaultBackgroundFlushKeeps ==
  ASSUME VaultInv, VaultBackgroundFlush
  PROVE  VaultInv'
<1>1. VaultTypeOK'
  BY AbsentAssumption DEF VaultInv, VaultTypeOK, VaultBackgroundFlush
<1>2. Kept(db)'
  BY AbsentAssumption DEF VaultInv, WellWrapped, Kept, VaultBackgroundFlush
<1>3. Kept(dbDisk)'
  BY AbsentAssumption DEF VaultInv, Kept, WellWrapped, WellKeyed, VaultBackgroundFlush
<1>4. RingInv'
  BY AbsentAssumption DEF VaultInv, RingInv, VaultBackgroundFlush
<1>5. OperationInv'
  BY AbsentAssumption DEF VaultInv, OperationInv, StepWrites, StepRetires, Unused, VaultBackgroundFlush
<1>6. ValuesInv'
  BY AbsentAssumption DEF VaultInv, ValuesInv, VaultBackgroundFlush
<1>7. RetiredKeysGone' /\ (retired \subseteq issued)'
  BY AbsentAssumption DEF VaultInv, RetiredKeysGone, VaultBackgroundFlush
<1>. QED BY <1>1, <1>2, <1>3, <1>4, <1>5, <1>6, <1>7 DEF VaultInv

LEMMA VaultCrashKeeps ==
  ASSUME VaultInv, VaultCrash
  PROVE  VaultInv'
<1>1. VaultTypeOK'
  BY AbsentAssumption DEF VaultInv, VaultTypeOK, Database, KeyRing, WrappedKeys, StoredSecret,
     VaultCrash, Opened, Restored, NewKeyRing, NoKeys, ValueOf
<1>2. Kept(db)'
  BY AbsentAssumption DEF VaultInv, WellWrapped, Kept, VaultCrash
<1>3. Kept(dbDisk)'
  BY AbsentAssumption DEF VaultInv, Kept, WellWrapped, VaultCrash
<1>4. RingInv'
  BY AbsentAssumption DEF VaultInv, WellWrapped, WellKeyed, Kept, RingInv, VaultCrash, Opened,
     Restored, NewKeyRing, NoKeys
<1>5. OperationInv'
  BY AbsentAssumption DEF OperationInv, VaultCrash
<1>6. ValuesInv'
  BY AbsentAssumption DEF ValuesInv, VaultCrash, ValueOf
<1>7. RetiredKeysGone' /\ (retired \subseteq issued)'
  BY AbsentAssumption DEF VaultInv, VaultTypeOK, RetiredKeysGone, VaultCrash, Opened, Restored,
     NewKeyRing, NoKeys
<1>. QED BY <1>1, <1>2, <1>3, <1>4, <1>5, <1>6, <1>7 DEF VaultInv

LEMMA VaultStarts == VaultInit => VaultInv
<1>. SUFFICES ASSUME VaultInit PROVE VaultInv
  OBVIOUS
<1>. USE AbsentAssumption DEF VaultInit, EmptyDatabase, NoKeys, Opened, NewKeyRing
<1>1. VaultTypeOK
  BY DEF VaultTypeOK, Database, KeyRing, WrappedKeys
<1>2. Kept(db) /\ Kept(dbDisk) /\ RingInv
  BY DEF Kept, WellWrapped, WellKeyed, RingInv
<1>3. OperationInv /\ ValuesInv /\ RetiredKeysGone /\ retired \subseteq issued
  BY DEF OperationInv, ValuesInv, ValueOf, RetiredKeysGone
<1>. QED BY <1>1, <1>2, <1>3 DEF VaultInv

LEMMA VaultNextKeeps == VaultInv /\ [VaultNext]_vaultVars => VaultInv'
<1>. SUFFICES ASSUME VaultInv, [VaultNext]_vaultVars PROVE VaultInv'
  OBVIOUS
<1>1. ASSUME NEW p \in Passphrases, Unseal(p) \/ \E salt \in Salts : Initialize(p, salt)
      PROVE  VaultInv'
  BY <1>1, UnsealKeeps, InitializeKeeps
<1>2. ASSUME SetupStep \/ SetupFails \/ Seal
      PROVE  VaultInv'
  BY <1>2, SetupStepKeeps, SetupFailsKeeps, SealKeeps
<1>3. ASSUME NEW n \in SecretNames, NEW v \in SecretValues, NEW k \in KeyIds,
             StoreSecret(n, v, k) \/ RotateSecret(n, v, k)
      PROVE  VaultInv'
  BY <1>3, StoreSecretKeeps, RotateSecretKeeps
<1>4. ASSUME NEW n \in SecretNames, DeleteSecret(n)
      PROVE  VaultInv'
  BY <1>4, DeleteSecretKeeps
<1>5. ASSUME OperationStep
      PROVE  VaultInv'
  BY <1>5, PersistWrappedKeyKeeps, WriteSecretKeeps, FlushSecretKeeps, RemoveDataKeyKeeps,
     RemovePersistedKeyKeeps, FlushRemovalKeeps, OperationFailsKeeps DEF OperationStep
<1>6. ASSUME VaultBackgroundFlush \/ VaultCrash
      PROVE  VaultInv'
  BY <1>6, VaultBackgroundFlushKeeps, VaultCrashKeeps
<1>7. ASSUME UNCHANGED vaultVars
      PROVE  VaultInv'
  BY <1>7 DEF VaultInv, vaultVars, VaultTypeOK, Kept, WellWrapped, RingInv, OperationInv,
     StepWrites, StepRetires, Unused, ValuesInv, RetiredKeysGone
<1>. QED BY <1>1, <1>2, <1>3, <1>4, <1>5, <1>6, <1>7 DEF VaultNext

LEMMA VaultInvIsSound == VaultInv => VaultSound
<1>. SUFFICES ASSUME VaultInv PROVE VaultSound
  OBVIOUS
<1>1. ASSUME NEW d \in Database, Kept(d)
      PROVE  Openable(d)
  <2>. SUFFICES ASSUME NEW n \in SecretNames, d.secrets[n] # Absent
                PROVE  /\ d.salt # Absent
                       /\ \E p \in Passphrases : Opens(DeriveWithSalt(p, d.salt), d.check)
                       /\ d.keys[d.secrets[n].key] = d.check
    BY DEF Openable
  <2>1. d.check # Absent /\ d.check.salt = d.salt /\ d.salt # Absent
        /\ d.keys[d.secrets[n].key] = d.check
    BY <1>1 DEF Kept, WellKeyed, WellWrapped
  <2>2. d.check \in MasterKey
    BY <1>1, <2>1 DEF Database
  <2>3. d.check.pass \in Passphrases /\ DeriveWithSalt(d.check.pass, d.salt) = d.check
    BY <2>1, <2>2 DEF MasterKey, DeriveWithSalt
  <2>. QED BY <2>1, <2>3 DEF Opens
<1>2. SecretsOpenable
  BY <1>1 DEF VaultInv, VaultTypeOK, SecretsOpenable
<1>3. ASSUME NEW n \in SecretNames, ring.master # Absent, db.secrets[n] # Absent
      PROVE  GetSecret(n) = db.secrets[n].value
  BY <1>3 DEF VaultInv, RingInv, GetSecret, Unwraps, Opens
<1>4. AcknowledgedServed
  BY <1>3 DEF VaultInv, ValuesInv, AcknowledgedServed
<1>. QED BY <1>2, <1>4 DEF VaultInv, VaultSound

\* Wherever a crash, a failed write or a failed initialization interrupts the
\* vault: every stored secret opens with the passphrase, acknowledged values
\* are what a restart finds and get_secret serves, and a data key whose
\* rotation or deletion was acknowledged never comes back.
THEOREM VaultStaysSound == VaultSpec => []VaultSound
<1>1. VaultSpec => []VaultInv
  BY VaultStarts, VaultNextKeeps, PTL DEF VaultSpec
<1>. QED BY <1>1, VaultInvIsSound, PTL

-----------------------------------------------------------------------------
(***************************************************************************)
(* Rotation. A rotation past its read works on a secret that exists, and an*)
(* event is sent only by the rotation that stored the value it names.      *)
(***************************************************************************)

Told == {announced[i] : i \in DOMAIN announced}

RotationRecord ==
  [step : {"rest", "read", "archive", "generate", "store", "announce"},
   name : RotSecrets \cup {"none"}, read : Nat]

\* A rotation that is past its read works on a secret that exists.
RotationsTyped ==
  /\ current \in [RotSecrets -> Nat]
  /\ registered \subseteq RotSecrets
  /\ todo \in [Checkers -> SUBSET RotSecrets]
  /\ announced \in Seq(RotSecrets \X Nat)
  /\ rot \in [Rotators -> RotationRecord]
  /\ \A c \in Rotators : rot[c].step # "rest" => rot[c].name \in RotSecrets
  /\ \A c \in Rotators : rot[c].step \in {"archive", "generate", "store"} => current[rot[c].name] > 0

\* The version a caller has stored and not yet announced.
Untold(c) == <<rot[c].name, rot[c].read>>
Announcing(c) == rot[c].step = "announce"

ToldOnce == \A i, j \in DOMAIN announced : announced[i] = announced[j] => i = j
ToldExist == \A e \in Told : e[2] \in 2..current[e[1]]
UntoldExist == \A c \in Rotators : Announcing(c) => rot[c].read \in 2..current[rot[c].name] /\ Untold(c) \notin Told
UntoldApart == \A c, d \in Rotators : Announcing(c) /\ Announcing(d) /\ Untold(c) = Untold(d) => c = d
AllKnown ==
  \A n \in RotSecrets : \A v \in 2..current[n] :
    <<n, v>> \in Told \/ \E c \in Rotators : Announcing(c) /\ Untold(c) = <<n, v>>

\* Every version a rotation made is announced once, or one caller still has to.
EachToldOnce == ToldOnce /\ ToldExist /\ UntoldExist /\ UntoldApart /\ AllKnown

RotationInv == RotationsTyped /\ EachToldOnce

LEMMA ToldMore ==
  ASSUME RotationsTyped, NEW e \in RotSecrets \X Nat, announced' = Append(announced, e)
  PROVE  /\ announced' \in Seq(RotSecrets \X Nat)
         /\ Told' = Told \cup {e}
         /\ ToldOnce /\ e \notin Told => ToldOnce'
<1>1. announced' \in Seq(RotSecrets \X Nat) /\ Len(announced) \in Nat /\ DOMAIN announced = 1..Len(announced)
  BY DEF RotationsTyped
<1>2. /\ DOMAIN announced' = 1..(Len(announced) + 1)
      /\ \A i \in 1..Len(announced) : announced'[i] = announced[i]
      /\ announced'[Len(announced) + 1] = e
  BY DEF RotationsTyped
<1>3. Told' = Told \cup {e}
  BY <1>1, <1>2 DEF Told
<1>4. ToldOnce /\ e \notin Told => ToldOnce'
  BY <1>1, <1>2 DEF Told, ToldOnce
<1> QED BY <1>1, <1>3, <1>4

\* The steps that neither store a version nor announce one.
LEMMA QuietRotation ==
  ASSUME RotationInv, UNCHANGED <<current, announced>>, NEW c \in Rotators, ~Announcing(c), ~Announcing(c)',
         \A d \in Rotators \ {c} : rot'[d] = rot[d]
  PROVE  EachToldOnce'
<1>1. Told' = Told
  BY DEF Told
<1>2. ToldOnce' /\ ToldExist'
  BY <1>1 DEF RotationInv, EachToldOnce, ToldOnce, ToldExist
<1>3. UntoldExist' /\ UntoldApart' /\ AllKnown'
  BY <1>1 DEF RotationInv, EachToldOnce, UntoldExist, UntoldApart, AllKnown, Untold, Announcing
<1> QED BY <1>2, <1>3 DEF EachToldOnce

\* A caller's record changes, and nothing else.
LEMMA RecordKept ==
  ASSUME RotationsTyped, NEW c \in Rotators, NEW r \in RotationRecord, rot' = [rot EXCEPT ![c] = r],
         r.step # "rest" => r.name \in RotSecrets,
         r.step \in {"archive", "generate", "store"} => current[r.name] > 0,
         UNCHANGED <<current, registered, announced>>, todo' \in [Checkers -> SUBSET RotSecrets]
  PROVE  RotationsTyped' /\ rot'[c] = r /\ \A d \in Rotators \ {c} : rot'[d] = rot[d]
  BY DEF RotationsTyped

LEMMA RestingTyped == Resting \in RotationRecord /\ Resting.step = "rest"
  BY DEF Resting, RotationRecord

LEMMA RotationStepKept ==
  ASSUME RotationInv, NEW c \in Rotators,
         ReadCurrent(c) \/ ArchiveOld(c) \/ Generate(c) \/ RotationFails(c)
  PROVE  RotationInv'
<1>1. rot[c].step # "announce" /\ UNCHANGED <<current, announced, registered, todo>>
  BY DEF ReadCurrent, ArchiveOld, Generate, Generated, RotationFails
<1>2. RotationsTyped /\ current \in [RotSecrets -> Nat] /\ rot[c] \in RotationRecord
  BY DEF RotationInv, RotationsTyped
<1>3. \E r \in RotationRecord :
        /\ rot' = [rot EXCEPT ![c] = r] /\ r.step # "announce"
        /\ r.step # "rest" => r.name \in RotSecrets
        /\ r.step \in {"archive", "generate", "store"} => current[r.name] > 0
  <2>1. CASE ReadCurrent(c) /\ current[rot[c].name] # 0
    <3>1. PICK r \in RotationRecord : r = [rot[c] EXCEPT !.step = "archive", !.read = current[rot[c].name]]
      BY <1>2, <2>1 DEF RotationsTyped, RotationRecord, ReadCurrent
    <3>2. r.step = "archive" /\ r.name = rot[c].name /\ r.name \in RotSecrets
      BY <1>2, <2>1, <3>1 DEF RotationsTyped, RotationRecord, ReadCurrent
    <3>3. rot' = [rot EXCEPT ![c] = r]
      BY <2>1, <3>1 DEF ReadCurrent
    <3>4. current[r.name] > 0
      BY <1>2, <2>1, <3>2
    <3> QED BY <3>2, <3>3, <3>4
  <2>2. CASE RotationFails(c) \/ (ReadCurrent(c) /\ current[rot[c].name] = 0)
    BY <2>2, RestingTyped DEF RotationFails, ReadCurrent
  <2>3. CASE ArchiveOld(c)
    <3>1. PICK r \in RotationRecord : r = [rot[c] EXCEPT !.step = "generate"]
      BY <1>2 DEF RotationRecord
    <3>2. rot' = [rot EXCEPT ![c] = r]
      BY <2>3, <3>1 DEF ArchiveOld
    <3> QED BY <1>2, <2>3, <3>1, <3>2 DEF RotationsTyped, RotationRecord, ArchiveOld
  <2>4. CASE Generate(c)
    <3>1. PICK r \in RotationRecord : r = [rot[c] EXCEPT !.step = "store"]
      BY <1>2 DEF RotationRecord
    <3>2. rot' = [rot EXCEPT ![c] = r]
      BY <2>4, <3>1 DEF Generate, Generated
    <3> QED BY <1>2, <2>4, <3>1, <3>2 DEF RotationsTyped, RotationRecord, Generate
  <2> QED BY <2>1, <2>2, <2>3, <2>4
<1>4. RotationsTyped' /\ ~Announcing(c)' /\ \A d \in Rotators \ {c} : rot'[d] = rot[d]
  BY <1>1, <1>2, <1>3, RecordKept DEF Announcing, RotationsTyped
<1>5. EachToldOnce'
  BY <1>1, <1>4, QuietRotation DEF Announcing
<1> QED BY <1>4, <1>5 DEF RotationInv

LEMMA StoreKept ==
  ASSUME RotationInv, NEW c \in Rotators, StoreRotates(c)
  PROVE  RotationInv'
<1>0. PICK n : n = rot[c].name
  OBVIOUS
<1>1. n \in RotSecrets /\ current[n] \in Nat /\ current[n] > 0 /\ rot[c].step = "store" /\ rot[c] \in RotationRecord
  BY <1>0 DEF StoreRotates, RotationInv, RotationsTyped
<1>2. PICK v \in Nat : v = current[n] + 1
  BY <1>1
<1>3. current' = [current EXCEPT ![n] = v] /\ UNCHANGED <<announced, registered, todo>>
  BY <1>0, <1>2 DEF StoreRotates
<1>4. current'[n] = v /\ \A m \in RotSecrets \ {n} : current'[m] = current[m]
  BY <1>1, <1>3 DEF RotationInv, RotationsTyped
<1>5. PICK r \in RotationRecord : r = [rot[c] EXCEPT !.step = "announce", !.read = v]
  BY <1>1 DEF RotationRecord
<1>6. r.step = "announce" /\ r.name = n /\ r.read = v
  BY <1>0, <1>1, <1>5 DEF RotationRecord
<1>7. rot' = [rot EXCEPT ![c] = r]
  BY <1>0, <1>4, <1>5 DEF StoreRotates
<1>8. rot'[c] = r /\ \A d \in Rotators \ {c} : rot'[d] = rot[d]
  BY <1>7 DEF RotationInv, RotationsTyped
<1>9. \A m \in RotSecrets : current[m] \in Nat /\ current'[m] \in Nat /\ current[m] <= current'[m]
  <2>1. current[n] <= v
    BY <1>1, <1>2
  <2>2. \A m \in RotSecrets : current[m] \in Nat
    BY DEF RotationInv, RotationsTyped
  <2> QED BY <1>2, <1>4, <2>1, <2>2
<1>10. RotationsTyped'
  <2>1. current' \in [RotSecrets -> Nat] /\ rot' \in [Rotators -> RotationRecord]
    BY <1>3, <1>7 DEF RotationInv, RotationsTyped
  <2>2. \A d \in Rotators : rot'[d].step # "rest" => rot'[d].name \in RotSecrets
    BY <1>1, <1>6, <1>8 DEF RotationInv, RotationsTyped
  <2>3. \A d \in Rotators : rot'[d].step \in {"archive", "generate", "store"} => current'[rot'[d].name] > 0
    <3> SUFFICES ASSUME NEW d \in Rotators, rot'[d].step \in {"archive", "generate", "store"}
                 PROVE  current'[rot'[d].name] > 0
      OBVIOUS
    <3>1. d # c
      BY <1>6, <1>8
    <3>2. rot[d].name \in RotSecrets /\ current[rot[d].name] > 0 /\ rot'[d] = rot[d]
      BY <1>8, <3>1 DEF RotationInv, RotationsTyped
    <3> QED BY <1>9, <3>2
  <2> QED BY <1>3, <2>1, <2>2, <2>3 DEF RotationInv, RotationsTyped
<1>11. Told' = Told /\ ToldOnce'
  BY <1>3 DEF Told, RotationInv, EachToldOnce, ToldOnce
<1>12. \A e \in Told : e[1] \in RotSecrets /\ e[2] \in Nat
  BY DEF Told, RotationInv, RotationsTyped
<1>13. ToldExist' /\ <<n, v>> \notin Told
  BY <1>1, <1>2, <1>11, <1>12, <1>9 DEF RotationInv, EachToldOnce, ToldExist
<1>14. UntoldExist'
  <2> SUFFICES ASSUME NEW d \in Rotators, Announcing(d)'
               PROVE  rot'[d].read \in 2..current'[rot'[d].name] /\ Untold(d)' \notin Told'
    BY DEF UntoldExist
  <2>1. CASE d = c
    BY <1>1, <1>2, <1>4, <1>6, <1>8, <1>11, <1>13, <2>1 DEF Untold
  <2>2. CASE d # c
    BY <1>8, <1>11, <1>9, <2>2 DEF RotationInv, EachToldOnce, UntoldExist, RotationsTyped, Untold, Announcing
  <2> QED BY <2>1, <2>2
<1>15. UntoldApart'
  <2>1. \A d \in Rotators \ {c} : Announcing(d)' => Announcing(d) /\ Untold(d)' = Untold(d)
    BY <1>8 DEF Announcing, Untold
  <2>2. Untold(c)' = <<n, v>>
    BY <1>6, <1>8 DEF Untold
  <2>3. ASSUME NEW d \in Rotators \ {c}, Announcing(d), Untold(d) = <<n, v>>
        PROVE  FALSE
    <3>1. rot[d].name = n /\ rot[d].read = v
      BY <2>3 DEF Untold
    <3>2. v \in 2..current[n]
      BY <2>3, <3>1 DEF RotationInv, EachToldOnce, UntoldExist
    <3> QED BY <1>1, <1>2, <3>2
  <2> QED BY <2>1, <2>2, <2>3 DEF RotationInv, EachToldOnce, UntoldApart
<1>16. AllKnown'
  <2> SUFFICES ASSUME NEW m \in RotSecrets, NEW u \in 2..current'[m], <<m, u>> \notin Told
               PROVE  \E d \in Rotators : (Announcing(d) /\ Untold(d) = <<m, u>>)'
    BY <1>11 DEF AllKnown
  <2>1. CASE m = n /\ u = v
    BY <1>6, <1>8, <2>1 DEF Announcing, Untold
  <2>2. CASE m # n \/ u # v
    <3>1. u \in 2..current[m]
      BY <1>1, <1>2, <1>4, <1>9, <2>2
    <3>2. PICK d \in Rotators : Announcing(d) /\ Untold(d) = <<m, u>>
      BY <3>1 DEF RotationInv, EachToldOnce, AllKnown
    <3> QED BY <1>1, <1>8, <3>2 DEF Announcing, Untold
  <2> QED BY <2>1, <2>2
<1> QED BY <1>10, <1>11, <1>13, <1>14, <1>15, <1>16 DEF RotationInv, EachToldOnce

LEMMA AnnounceKept ==
  ASSUME RotationInv, NEW c \in Rotators, Announce(c)
  PROVE  RotationInv'
<1>0. PICK e : e = Untold(c)
  OBVIOUS
<1>1. e \in RotSecrets \X Nat /\ announced' = Append(announced, e) /\ Announcing(c)
  BY <1>0 DEF Announce, RotationInv, RotationsTyped, RotationRecord, Untold, Announcing
<1>2. rot'[c] = Resting /\ (\A d \in Rotators \ {c} : rot'[d] = rot[d]) /\ UNCHANGED <<current, registered, todo>>
  BY DEF Announce, RotationInv, RotationsTyped
<1>3. Told' = Told \cup {e} /\ e \notin Told /\ ToldOnce' /\ announced' \in Seq(RotSecrets \X Nat)
  BY <1>0, <1>1, ToldMore DEF RotationInv, EachToldOnce, UntoldExist
<1>4. RotationsTyped'
  BY <1>3, RestingTyped DEF Announce, RotationInv, RotationsTyped
<1>5. e[1] = rot[c].name /\ e[2] = rot[c].read
  BY <1>0 DEF Untold
<1>6. ToldExist'
  BY <1>1, <1>2, <1>3, <1>5 DEF RotationInv, EachToldOnce, ToldExist, UntoldExist
<1>7. ~Announcing(c)'
  BY <1>2, RestingTyped DEF Announcing
<1>8. \A d \in Rotators : Announcing(d)' => d # c /\ Announcing(d) /\ Untold(d)' = Untold(d) /\ Untold(d) # e
                                           /\ rot'[d] = rot[d]
  BY <1>0, <1>1, <1>2, <1>7 DEF RotationInv, EachToldOnce, UntoldApart, Untold, Announcing
<1>9. UntoldExist'
  BY <1>2, <1>3, <1>8 DEF RotationInv, EachToldOnce, UntoldExist
<1>10. UntoldApart'
  BY <1>8 DEF RotationInv, EachToldOnce, UntoldApart
<1>11. AllKnown'
  <2> SUFFICES ASSUME NEW m \in RotSecrets, NEW u \in 2..current[m], <<m, u>> \notin Told'
               PROVE  \E d \in Rotators : (Announcing(d) /\ Untold(d) = <<m, u>>)'
    BY <1>2 DEF AllKnown
  <2>1. PICK d \in Rotators : Announcing(d) /\ Untold(d) = <<m, u>>
    BY <1>3 DEF RotationInv, EachToldOnce, AllKnown
  <2>2. d # c
    BY <1>0, <1>3, <2>1
  <2> QED BY <1>2, <2>1, <2>2 DEF Announcing, Untold
<1> QED BY <1>3, <1>4, <1>6, <1>9, <1>10, <1>11 DEF RotationInv, EachToldOnce

LEMMA BeginKept ==
  ASSUME RotationInv, NEW c \in Rotators, NEW n \in RotSecrets, rot[c] = Resting, Rotates(c, n),
         UNCHANGED <<current, registered, announced>>, todo' \in [Checkers -> SUBSET RotSecrets]
  PROVE  RotationInv'
<1>1. PICK r \in RotationRecord : /\ rot' = [rot EXCEPT ![c] = r]
                                  /\ r.step = "rest" \/ (r.step = "read" /\ r.name = n)
  <2>1. CASE n \in registered
    <3>1. PICK r \in RotationRecord : r = [step |-> "read", name |-> n, read |-> 0]
      BY DEF RotationRecord
    <3> QED BY <2>1, <3>1 DEF Rotates
  <2>2. CASE n \notin registered
    BY <2>2, RestingTyped DEF Rotates
  <2> QED BY <2>1, <2>2
<1>2. RotationsTyped' /\ rot'[c] = r /\ \A d \in Rotators \ {c} : rot'[d] = rot[d]
  BY <1>1, RecordKept DEF RotationInv
<1>3. EachToldOnce'
  BY <1>1, <1>2, QuietRotation, RestingTyped DEF Announcing
<1> QED BY <1>2, <1>3 DEF RotationInv

\* Registering, ageing, listing and purging.
LEMMA AsideKept ==
  ASSUME RotationInv, UNCHANGED <<current, rot, announced>>, registered' \subseteq RotSecrets,
         todo' \in [Checkers -> SUBSET RotSecrets]
  PROVE  RotationInv'
  BY DEF RotationInv, RotationsTyped, EachToldOnce, ToldOnce, ToldExist, UntoldExist, UntoldApart, AllKnown,
     Told, Untold, Announcing

(***************************************************************************)
(* RotationManager announces every version it stored once and none that it *)
(* did not store, for any number of callers and background checks.         *)
(***************************************************************************)
THEOREM AnnouncementsStayTrue == RotationSpec => []AnnouncedWereStored
<1>1. RotationInit => RotationInv
  <2> SUFFICES ASSUME RotationInit PROVE RotationInv
    OBVIOUS
  <2>1. current \in [RotSecrets -> Nat] /\ \A n \in RotSecrets : ~(\E v \in 2..current[n] : TRUE)
    BY DEF RotationInit
  <2>2. \A c \in Rotators : rot[c] = Resting
    BY DEF RotationInit
  <2>3. RotationsTyped
    BY <2>1, <2>2, RestingTyped DEF RotationInit, RotationsTyped
  <2>4. DOMAIN announced = {} /\ Told = {}
    BY DEF RotationInit, Told
  <2>5. ToldOnce /\ ToldExist
    BY <2>4 DEF ToldOnce, ToldExist
  <2>6. UntoldExist /\ UntoldApart /\ AllKnown
    BY <2>1, <2>2, RestingTyped DEF UntoldExist, UntoldApart, AllKnown, Announcing
  <2> QED BY <2>3, <2>5, <2>6 DEF RotationInv, EachToldOnce
<1>2. RotationInv /\ [RotationNext]_rotationVars => RotationInv'
  <2> SUFFICES ASSUME RotationInv, [RotationNext]_rotationVars PROVE RotationInv'
    OBVIOUS
  <2>0. registered \subseteq RotSecrets /\ todo \in [Checkers -> SUBSET RotSecrets]
    BY DEF RotationInv, RotationsTyped
  <2>1. ASSUME NEW n \in RotSecrets, RegisterSecret(n) \/ UnregisterSecret(n) \/ Ages(n)
        PROVE  RotationInv'
    BY <2>0, <2>1, AsideKept DEF RegisterSecret, UnregisterSecret, Ages
  <2>2. ASSUME NEW c \in RotCallers, NEW n \in RotSecrets, RotateBegins(c, n)
        PROVE  RotationInv'
    BY <2>0, <2>2, BeginKept DEF RotateBegins, Rotators
  <2>3. ASSUME NEW c \in Rotators, ReadCurrent(c) \/ ArchiveOld(c) \/ Generate(c) \/ RotationFails(c)
        PROVE  RotationInv'
    BY <2>3, RotationStepKept
  <2>4. ASSUME NEW c \in Rotators, StoreRotates(c) \/ Announce(c)
        PROVE  RotationInv'
    BY <2>4, StoreKept, AnnounceKept
  <2>5. ASSUME NEW c \in Checkers, CheckBegins(c)
        PROVE  RotationInv'
    BY <2>0, <2>5, AsideKept DEF CheckBegins
  <2>6. ASSUME NEW c \in Checkers, NEW n \in RotSecrets, CheckSecret(c, n)
        PROVE  RotationInv'
    <3>1. todo' \in [Checkers -> SUBSET RotSecrets] /\ UNCHANGED <<current, registered, announced>>
      BY <2>0, <2>6 DEF CheckSecret
    <3>2. CASE Rotates(c, n)
      BY <2>6, <3>1, <3>2, BeginKept DEF CheckSecret, Rotators
    <3>3. CASE UNCHANGED rot
      BY <2>0, <3>1, <3>3, AsideKept
    <3> QED BY <2>6, <3>2, <3>3 DEF CheckSecret
  <2>7. ASSUME NEW c \in Checkers, NEW gone, PurgeExpired(c, gone)
        PROVE  RotationInv'
    BY <2>0, <2>7, AsideKept DEF PurgeExpired
  <2>8. CASE UNCHANGED rotationVars
    BY <2>0, <2>8, AsideKept DEF rotationVars
  <2> QED BY <2>1, <2>2, <2>3, <2>4, <2>5, <2>6, <2>7, <2>8 DEF RotationNext
<1>3. RotationInv => AnnouncedWereStored
  <2> SUFFICES ASSUME RotationInv PROVE AnnouncedWereStored
    OBVIOUS
  <2>1. \A i, j \in DOMAIN announced : announced[i] = announced[j] => i = j
    BY DEF RotationInv, EachToldOnce, ToldOnce
  <2>2. \A e \in Told : e[2] \in 2..current[e[1]]
    BY DEF RotationInv, EachToldOnce, ToldExist
  <2>3. (\A c \in Rotators : rot[c].step # "announce") =>
          \A n \in RotSecrets : \A v \in 2..current[n] : <<n, v>> \in Told
    BY DEF RotationInv, EachToldOnce, AllKnown, Announcing
  <2> QED BY <2>1, <2>2, <2>3 DEF AnnouncedWereStored, Told
<1> QED BY <1>1, <1>2, <1>3, PTL DEF RotationSpec

-----------------------------------------------------------------------------
(***************************************************************************)
(* Access and audit. Every secret has its own id, is sealed under the key of*)
(* that id and version, and the trail tells which version the store holds. *)
(***************************************************************************)

\* A resolution under way, and every secret kept under its own id and key.
ResolutionTyped ==
  /\ resolving \in [template : Seq(AccessNames \cup {Unclosed}), tried : Nat, out : Seq(Piece)]
  /\ resolved.out \in Seq(Piece)
Holds(n) == kept[n] # NoSecret
KeyOwned ==
  \A n \in AccessNames : Holds(n) => kept[n].id <= madeIds /\ kept[n].key = <<kept[n].id, kept[n].version>>
IdsApart ==
  \A n, m \in AccessNames : Holds(n) /\ Holds(m) /\ kept[n].id = kept[m].id => n = m

AccessInv == AccessTypeOK /\ ResolutionTyped /\ KeyOwned /\ IdsApart /\ TrailTellsStore

\* What Audited does to the log.
LEMMA AuditGrows ==
  ASSUME audit \in Seq(AuditEntry), NEW e \in AuditEntry, audit' = Append(audit, e)
  PROVE  /\ audit' \in Seq(AuditEntry)
         /\ DOMAIN audit \in SUBSET Nat
         /\ \E k \in Nat : /\ DOMAIN audit' = DOMAIN audit \cup {k}
                           /\ audit'[k] = e
                           /\ \A i \in DOMAIN audit : i < k /\ audit'[i] = audit[i]
<1>1. PICK k \in Nat : k = Len(audit) + 1
  OBVIOUS
<1>2. DOMAIN audit = 1..Len(audit) /\ DOMAIN audit' = 1..k
  BY <1>1
<1>3. audit'[k] = e /\ \A i \in 1..Len(audit) : audit'[i] = audit[i]
  BY <1>1
<1>4. Len(audit) \in Nat
  OBVIOUS
<1>5. DOMAIN audit' = DOMAIN audit \cup {k}
  BY <1>1, <1>2, <1>4
<1>6. \A i \in DOMAIN audit : i < k
  BY <1>1, <1>2, <1>4
<1>7. DOMAIN audit \in SUBSET Nat /\ audit' \in Seq(AuditEntry)
  BY <1>2
<1> QED BY <1>2, <1>3, <1>5, <1>6, <1>7

\* An entry about something else leaves what the trail tells of n.
LEMMA TrailKeeps ==
  ASSUME audit \in Seq(AuditEntry), NEW n \in AccessNames, TrailTells(n), kept'[n] = kept[n],
         \/ UNCHANGED audit
         \/ \E e \in AuditEntry : ~ChangesName(e, n) /\ audit' = Append(audit, e)
  PROVE  TrailTells(n)'
<1>1. ChangesOf(n)' = ChangesOf(n) /\ \A i \in ChangesOf(n) : audit'[i] = audit[i]
  <2>1. CASE UNCHANGED audit
    BY <2>1 DEF ChangesOf
  <2>2. ASSUME NEW e \in AuditEntry, ~ChangesName(e, n), audit' = Append(audit, e)
        PROVE  ChangesOf(n)' = ChangesOf(n) /\ \A i \in ChangesOf(n) : audit'[i] = audit[i]
    <3>1. PICK k \in Nat : /\ DOMAIN audit' = DOMAIN audit \cup {k}
                           /\ audit'[k] = e
                           /\ \A i \in DOMAIN audit : i < k /\ audit'[i] = audit[i]
      BY <2>2, AuditGrows
    <3>2. \A i \in DOMAIN audit' : ChangesName(audit'[i], n) => i \in DOMAIN audit /\ ChangesName(audit[i], n)
      BY <2>2, <3>1
    <3>3. \A i \in DOMAIN audit : i \in DOMAIN audit' /\ audit'[i] = audit[i]
      BY <3>1
    <3>4. ChangesOf(n)' = {i \in DOMAIN audit' : ChangesName(audit'[i], n)}
      BY DEF ChangesOf, ChangesName
    <3> QED BY <3>2, <3>3, <3>4 DEF ChangesOf
  <2> QED BY <2>1, <2>2
<1> QED BY <1>1 DEF TrailTells, LastChange, RefOf

\* The entry of a change tells what it made of n.
LEMMA TrailTold ==
  ASSUME audit \in Seq(AuditEntry), NEW n \in AccessNames, NEW e \in AuditEntry,
         ChangesName(e, n), audit' = Append(audit, e),
         IF kept'[n] = NoSecret THEN e.action = "delete"
         ELSE e.action # "delete" /\ e.ref = RefOf(n, kept'[n])
  PROVE  TrailTells(n)'
<1>1. PICK k \in Nat : /\ DOMAIN audit' = DOMAIN audit \cup {k}
                       /\ audit'[k] = e
                       /\ \A i \in DOMAIN audit : i < k /\ audit'[i] = audit[i]
  BY AuditGrows
<1>2. ChangesOf(n)' = {i \in DOMAIN audit' : ChangesName(audit'[i], n)}
  BY DEF ChangesOf, ChangesName
<1>3. k \in ChangesOf(n)'
  BY <1>1, <1>2
<1>4. \A i \in ChangesOf(n)' : i \in Nat /\ i <= k
  BY <1>1, <1>2, AuditGrows
<1>5. \A i \in ChangesOf(n)' : k <= i => i = k
  BY <1>4
<1> QED BY <1>1, <1>3, <1>4, <1>5 DEF TrailTells, LastChange, RefOf

\* What was read stays recorded, and so is what was just read.
LEMMA ReadsKept ==
  ASSUME audit \in Seq(AuditEntry), ReadsRecorded,
         UNCHANGED audit \/ \E e \in AuditEntry : audit' = Append(audit, e),
         \A p \in PiecesOut' : p \in PiecesOut \/ ReadRecorded(p)'
  PROVE  ReadsRecorded'
<1>1. \A i \in DOMAIN audit : i \in DOMAIN audit' /\ audit'[i] = audit[i]
  BY AuditGrows
<1>2. \A p \in PiecesOut : ReadRecorded(p)'
  BY <1>1 DEF ReadsRecorded, ReadRecorded
<1> QED BY <1>2 DEF ReadsRecorded

\* The data key of the secret a name holds, if it holds one.
KeysOf(s) == {k \in {s.key} : s # NoSecret}

\* One name changes: a secret comes, goes, or gets its next version.
LEMMA ChangeKept ==
  ASSUME AccessInv, NEW n \in AccessNames, NEW new \in Secret \cup {NoSecret}, NEW e \in AuditEntry,
         kept' = [kept EXCEPT ![n] = new], audit' = Append(audit, e), UNCHANGED <<isUnsealed, resolving, resolved>>,
         e.ref \in SecretRef, e.ref.name = n, e.action # "read",
         IF new = NoSecret THEN e.action = "delete" ELSE e.action # "delete" /\ e.ref = RefOf(n, new),
         madeIds' \in madeIds..MaxSecretIds,
         new # NoSecret => /\ new.id <= madeIds' /\ new.key = <<new.id, new.version>>
                           /\ \A m \in AccessNames \ {n} : Holds(m) => kept[m].id # new.id,
         dataKeys' = (dataKeys \ KeysOf(kept[n])) \cup KeysOf(new)
  PROVE  AccessInv'
<1>1. /\ kept \in [AccessNames -> Secret \cup {NoSecret}] /\ audit \in Seq(AuditEntry) /\ madeIds \in Nat
      /\ madeIds <= MaxSecretIds
  BY AccessAssumption DEF AccessInv, AccessTypeOK
<1>2. /\ kept' \in [AccessNames -> Secret \cup {NoSecret}] /\ kept'[n] = new
      /\ \A m \in AccessNames \ {n} : kept'[m] = kept[m]
  BY <1>1
<1>3. madeIds' \in 0..MaxSecretIds /\ madeIds <= madeIds'
  BY <1>1, AccessAssumption
<1>4. \A m \in AccessNames : kept[m] # NoSecret => kept[m].id \in Nat /\ kept[m].id <= madeIds'
  <2>1. SecretIds \subseteq Nat
    BY AccessAssumption DEF SecretIds
  <2>2. \A m \in AccessNames : kept[m] # NoSecret => kept[m].id \in Nat
    BY <1>1, <2>1 DEF Secret
  <2> QED BY <1>1, <1>3, <2>2, AccessAssumption DEF AccessInv, KeyOwned, Holds
<1>5. KeyOwned'
  BY <1>2, <1>4 DEF AccessInv, KeyOwned, Holds
<1>6. IdsApart'
  BY <1>2 DEF AccessInv, IdsApart, Holds
<1>7. \A m \in AccessNames : TrailTells(m)'
  <2> SUFFICES ASSUME NEW m \in AccessNames PROVE TrailTells(m)'
    OBVIOUS
  <2>1. e.ref # NoSecret
    BY NoSecretAssumption
  <2>2. CASE m = n
    BY <1>1, <1>2, <2>1, <2>2, TrailTold DEF ChangesName
  <2>3. CASE m # n
    BY <1>1, <1>2, <2>3, TrailKeeps DEF ChangesName, AccessInv, TrailTellsStore
  <2> QED BY <2>2, <2>3
<1>8. ReadsRecorded'
  BY <1>1, ReadsKept DEF AccessInv, TrailTellsStore, PiecesOut
<1>9. RingHoldsKept'
  <2>1. \A m, o \in AccessNames : Holds(m) /\ Holds(o) /\ kept[m].key = kept[o].key => m = o
    BY DEF AccessInv, KeyOwned, IdsApart
  <2>2. \A k : k \in dataKeys <=> \E m \in AccessNames : Holds(m) /\ k = kept[m].key
    BY DEF AccessInv, TrailTellsStore, RingHoldsKept, Holds
  <2>3. \A k : k \in dataKeys' <=> \/ \E m \in AccessNames \ {n} : Holds(m) /\ k = kept[m].key
                                   \/ new # NoSecret /\ k = new.key
    BY <2>1, <2>2 DEF KeysOf, Holds
  <2>4. \A k : k \in dataKeys' <=> \E m \in AccessNames : kept'[m] # NoSecret /\ k = kept'[m].key
    BY <1>2, <2>3 DEF Holds
  <2> QED BY <2>4 DEF RingHoldsKept
<1>10. dataKeys' \subseteq DataKeys
  <2>1. dataKeys \subseteq DataKeys /\ (new # NoSecret => new.key \in DataKeys)
    BY DEF AccessInv, AccessTypeOK, Secret
  <2> QED BY <2>1 DEF KeysOf
<1>11. audit' \in Seq(AuditEntry)
  BY <1>1, AuditGrows
<1>12. AccessTypeOK' /\ ResolutionTyped'
  BY <1>2, <1>3, <1>10, <1>11 DEF AccessInv, AccessTypeOK, ResolutionTyped
<1> QED BY <1>5, <1>6, <1>7, <1>8, <1>9, <1>12 DEF AccessInv, TrailTellsStore

LEMMA EntryTyped ==
  ASSUME NEW n \in AccessNames, NEW s \in Secret, NEW a \in AuditAction
  PROVE  /\ RefOf(n, s) \in SecretRef /\ RefOf(n, s).name = n
         /\ [action |-> a, ref |-> RefOf(n, s)] \in AuditEntry
  BY DEF RefOf, SecretRef, AuditEntry, Secret

LEMMA StoreKeptTrue ==
  ASSUME AccessInv, NEW n \in AccessNames, NEW text \in BOOLEAN, MemoryStore(n, text)
  PROVE  AccessInv'
<1>1. madeIds \in Nat /\ madeIds < MaxSecretIds /\ MaxSecretIds \in Nat /\ MaxVersions \in Nat \ {0}
  BY AccessAssumption DEF AccessInv, AccessTypeOK, MemoryStore
<1>2. PICK i \in SecretIds : i = madeIds + 1
  BY <1>1 DEF SecretIds
<1>3. 1 \in 1..MaxVersions /\ <<i, 1>> \in DataKeys
  BY <1>1 DEF DataKeys
<1>4. PICK made \in Secret : made = [id |-> i, version |-> 1, text |-> text, key |-> <<i, 1>>]
  BY <1>3 DEF Secret
<1>5. PICK e \in AuditEntry : e = [action |-> "write", ref |-> RefOf(n, made)]
  BY EntryTyped DEF AuditAction
<1>6. e.ref = RefOf(n, made) /\ e.action = "write" /\ e.ref \in SecretRef /\ e.ref.name = n
  BY <1>5, EntryTyped DEF AuditAction
<1>7. /\ kept' = [kept EXCEPT ![n] = made] /\ audit' = Append(audit, e)
      /\ dataKeys' = dataKeys \cup {made.key} /\ madeIds' = i
      /\ UNCHANGED <<isUnsealed, resolving, resolved>> /\ ~Holds(n)
  BY <1>2, <1>4, <1>5 DEF MemoryStore, Audited, Holds
<1>8. madeIds' \in madeIds..MaxSecretIds /\ made # NoSecret
  BY <1>1, <1>2, <1>7, NoSecretAssumption
<1>9. made.id = i /\ made.version = 1 /\ made.key = <<made.id, made.version>>
  BY <1>4
<1>10. \A m \in AccessNames \ {n} : Holds(m) => kept[m].id # made.id
  <2>1. \A m \in AccessNames : Holds(m) => kept[m].id \in Nat /\ kept[m].id <= madeIds
    BY <1>1 DEF AccessInv, AccessTypeOK, KeyOwned, Holds, Secret, SecretIds
  <2> QED BY <1>1, <1>2, <1>9, <2>1
<1>11. made.id <= madeIds'
  BY <1>1, <1>2, <1>7, <1>9
<1>12. dataKeys' = (dataKeys \ KeysOf(kept[n])) \cup KeysOf(made)
  BY <1>7, <1>8 DEF KeysOf, Holds
<1> QED BY <1>6, <1>7, <1>8, <1>9, <1>10, <1>11, <1>12, ChangeKept

LEMMA DeleteKeptTrue ==
  ASSUME AccessInv, NEW n \in AccessNames, MemoryDelete(n)
  PROVE  AccessInv'
<1>1. madeIds \in Nat /\ madeIds <= MaxSecretIds /\ MaxSecretIds \in Nat
  BY AccessAssumption DEF AccessInv, AccessTypeOK
<1>2. kept[n] \in Secret /\ Holds(n)
  BY DEF AccessInv, AccessTypeOK, MemoryDelete, Holds
<1>3. PICK e \in AuditEntry : e = [action |-> "delete", ref |-> RefOf(n, kept[n])]
  BY <1>2, EntryTyped DEF AuditAction
<1>4. e.action = "delete" /\ e.ref \in SecretRef /\ e.ref.name = n
  BY <1>2, <1>3, EntryTyped DEF AuditAction
<1>5. /\ kept' = [kept EXCEPT ![n] = NoSecret] /\ audit' = Append(audit, e)
      /\ dataKeys' = dataKeys \ {kept[n].key} /\ UNCHANGED <<isUnsealed, resolving, resolved, madeIds>>
  BY <1>3 DEF MemoryDelete, Audited
<1>6. madeIds' \in madeIds..MaxSecretIds
  BY <1>1, <1>5
<1>7. dataKeys' = (dataKeys \ KeysOf(kept[n])) \cup KeysOf(NoSecret)
  BY <1>2, <1>5 DEF KeysOf, Holds
<1> QED BY <1>2, <1>4, <1>5, <1>6, <1>7, ChangeKept

LEMMA RotateKeptTrue ==
  ASSUME AccessInv, NEW n \in AccessNames, NEW text \in BOOLEAN, MemoryRotate(n, text)
  PROVE  AccessInv'
<1>1. madeIds \in Nat /\ madeIds <= MaxSecretIds /\ MaxSecretIds \in Nat /\ MaxVersions \in Nat
  BY AccessAssumption DEF AccessInv, AccessTypeOK
<1>2. PICK old \in Secret : old = kept[n]
  BY DEF AccessInv, AccessTypeOK, MemoryRotate
<1>3. /\ old.version \in Nat /\ old.version < MaxVersions /\ old.id \in SecretIds /\ old.id <= madeIds
      /\ Holds(n)
  BY <1>1, <1>2 DEF AccessInv, KeyOwned, MemoryRotate, Holds, Secret
<1>4. PICK v \in 1..MaxVersions : v = old.version + 1
  BY <1>1, <1>3
<1>5. PICK k \in DataKeys : k = <<old.id, v>>
  BY <1>3, <1>4 DEF DataKeys
<1>6. PICK new \in Secret : new = [old EXCEPT !.version = v, !.text = text, !.key = k]
  BY <1>4, <1>5 DEF Secret
<1>7. new.id = old.id /\ new.version = v /\ new.key = k
  BY <1>6 DEF Secret
<1>8. PICK e \in AuditEntry : e = [action |-> "rotate", ref |-> RefOf(n, new)]
  BY EntryTyped DEF AuditAction
<1>9. e.ref = RefOf(n, new) /\ e.action = "rotate" /\ e.ref \in SecretRef /\ e.ref.name = n
  BY <1>8, EntryTyped DEF AuditAction
<1>10. /\ kept' = [kept EXCEPT ![n] = new] /\ audit' = Append(audit, e)
       /\ dataKeys' = (dataKeys \ {old.key}) \cup {new.key} /\ madeIds' = madeIds
       /\ UNCHANGED <<isUnsealed, resolving, resolved>>
  BY <1>2, <1>4, <1>5, <1>6, <1>8 DEF MemoryRotate, Audited
<1>11. madeIds' \in madeIds..MaxSecretIds /\ new # NoSecret
  BY <1>1, <1>10, NoSecretAssumption
<1>12. \A m \in AccessNames \ {n} : Holds(m) => kept[m].id # new.id
  BY <1>2, <1>3, <1>7 DEF AccessInv, IdsApart
<1>13. new.id <= madeIds' /\ new.key = <<new.id, new.version>>
  BY <1>3, <1>5, <1>7, <1>10
<1>14. dataKeys' = (dataKeys \ KeysOf(kept[n])) \cup KeysOf(new)
  BY <1>2, <1>3, <1>10, <1>11 DEF KeysOf, Holds
<1> QED BY <1>9, <1>10, <1>11, <1>12, <1>13, <1>14, ChangeKept

\* Nothing kept changes, and no change is recorded.
LEMMA NothingChanged ==
  ASSUME AccessInv, UNCHANGED <<kept, dataKeys, madeIds>>, isUnsealed' \in BOOLEAN, ResolutionTyped',
         \/ UNCHANGED audit
         \/ \E e \in AuditEntry : (\A n \in AccessNames : ~ChangesName(e, n)) /\ audit' = Append(audit, e),
         \A p \in PiecesOut' : p \in PiecesOut \/ ReadRecorded(p)'
  PROVE  AccessInv'
<1>1. audit \in Seq(AuditEntry) /\ audit' \in Seq(AuditEntry)
  BY AuditGrows DEF AccessInv, AccessTypeOK
<1>2. \A n \in AccessNames : TrailTells(n)'
  BY <1>1, TrailKeeps DEF AccessInv, TrailTellsStore
<1>3. ReadsRecorded'
  BY <1>1, ReadsKept DEF AccessInv, TrailTellsStore
<1>4. KeyOwned' /\ IdsApart' /\ RingHoldsKept'
  BY DEF AccessInv, TrailTellsStore, KeyOwned, IdsApart, RingHoldsKept, Holds
<1>5. AccessTypeOK'
  BY <1>1 DEF AccessInv, AccessTypeOK, ResolutionTyped
<1> QED BY <1>2, <1>3, <1>4, <1>5 DEF AccessInv, TrailTellsStore

LEMMA NoResultTyped == ResolveFails => ResolutionTyped' /\ PiecesOut' = {}
<1> SUFFICES ASSUME ResolveFails PROVE ResolutionTyped' /\ PiecesOut' = {}
  OBVIOUS
<1>1. resolving'.out = <<>> /\ resolved'.out = <<>>
  BY DEF ResolveFails, NoResolving, NoResult
<1>2. PiecesOut' = {}
  BY <1>1 DEF PiecesOut
<1>3. ResolutionTyped'
  BY <1>1 DEF ResolveFails, NoResolving, ResolutionTyped
<1> QED BY <1>2, <1>3

\* A value that is put in adds its piece to what the resolution has so far.
LEMMA SubstitutedAdds ==
  ASSUME ResolutionTyped, NEW piece \in Piece, NEW text, Substituted(text, piece), Resolving
  PROVE  ResolutionTyped' /\ \A p \in PiecesOut' : p \in PiecesOut \/ p = piece
<1>1. CASE ResolveFails
  BY <1>1, NoResultTyped
<1>2. CASE ~ResolveFails
  <2>0. PICK so \in Seq(Piece), left \in Seq(AccessNames \cup {Unclosed}) :
          so = resolving.out /\ left = resolving.template
    BY DEF ResolutionTyped
  <2>1. PICK out \in Seq(Piece) : out = Append(resolving.out, piece)
    <3>1. Append(so, piece) \in Seq(Piece)
      OBVIOUS
    <3> QED BY <2>0, <3>1
  <2>2. \A i \in DOMAIN out : out[i] = piece \/ (i \in DOMAIN resolving.out /\ out[i] = resolving.out[i])
    BY <2>0, <2>1
  <2>3. PICK rest \in Seq(AccessNames \cup {Unclosed}) : rest = Tail(resolving.template)
    <3>1. left # <<>>
      BY <2>0 DEF Resolving
    <3>2. Tail(left) \in Seq(AccessNames \cup {Unclosed})
      BY <3>1
    <3> QED BY <2>0, <3>2
  <2>4. CASE resolving' = NoResolving /\ resolved' = [ok |-> TRUE, out |-> out]
    <3>1. resolving'.out = <<>> /\ resolved'.out = out
      BY <2>4 DEF NoResolving
    <3>2. ResolutionTyped'
      BY <2>4, <3>1 DEF ResolutionTyped, NoResolving
    <3> QED BY <2>2, <3>1, <3>2 DEF PiecesOut
  <2>5. CASE resolving' = [template |-> rest, tried |-> 0, out |-> out] /\ UNCHANGED resolved
    <3>1. resolving'.out = out /\ resolved'.out = resolved.out
      BY <2>5
    <3>2. ResolutionTyped'
      BY <2>5 DEF ResolutionTyped
    <3> QED BY <2>2, <3>1, <3>2 DEF PiecesOut
  <2> QED BY <1>2, <2>1, <2>3, <2>4, <2>5 DEF Substituted
<1> QED BY <1>1, <1>2

\* The next provider of the chain is asked.
LEMMA NextAsked ==
  ASSUME ResolutionTyped, resolving' = [resolving EXCEPT !.tried = @ + 1], UNCHANGED resolved
  PROVE  ResolutionTyped' /\ PiecesOut' = PiecesOut
<1>1. ResolutionTyped'
  BY DEF ResolutionTyped
<1>2. resolving'.out = resolving.out
  BY DEF ResolutionTyped
<1> QED BY <1>1, <1>2 DEF PiecesOut

LEMMA WantedName ==
  ASSUME ResolutionTyped, Resolving, Wanted # Unclosed
  PROVE  Wanted \in AccessNames
  BY DEF ResolutionTyped, Resolving, Wanted

LEMMA AskVaultKeeps ==
  ASSUME AccessInv, AskVault
  PROVE  AccessInv'
<1>1. /\ Resolving /\ Wanted \in AccessNames /\ ResolutionTyped
      /\ UNCHANGED <<kept, dataKeys, isUnsealed, madeIds>>
  BY WantedName DEF AskVault, AccessInv
<1>2. isUnsealed' \in BOOLEAN
  BY <1>1 DEF AccessInv, AccessTypeOK
<1>3. CASE UNCHANGED audit
  <2>1. ResolveFails \/ (resolving' = [resolving EXCEPT !.tried = @ + 1] /\ UNCHANGED resolved)
        \/ Substituted(kept[Wanted].text, [name |-> Wanted, from |-> "vault", ref |-> RefOf(Wanted, kept[Wanted])])
    BY DEF AskVault
  <2>2. CASE ResolveFails
    BY <1>1, <1>2, <1>3, <2>2, NoResultTyped, NothingChanged
  <2>3. CASE resolving' = [resolving EXCEPT !.tried = @ + 1] /\ UNCHANGED resolved
    BY <1>1, <1>2, <1>3, <2>3, NextAsked, NothingChanged
  <2>4. CASE Audited("read", RefOf(Wanted, kept[Wanted]))
    <3>1. audit \in Seq(AuditEntry)
      BY DEF AccessInv, AccessTypeOK
    <3>2. Len(audit') = Len(audit) + 1
      BY <2>4, <3>1 DEF Audited
    <3> QED BY <1>3, <3>1, <3>2
  <2> QED BY <1>1, <2>2, <2>3, <2>4 DEF AskVault
<1>4. CASE /\ kept[Wanted] # NoSecret
           /\ Audited("read", RefOf(Wanted, kept[Wanted]))
           /\ Substituted(kept[Wanted].text, [name |-> Wanted, from |-> "vault", ref |-> RefOf(Wanted, kept[Wanted])])
  <2>1. PICK s \in Secret : s = kept[Wanted]
    BY <1>1, <1>4 DEF AccessInv, AccessTypeOK
  <2>2. PICK n \in AccessNames : n = Wanted
    BY <1>1
  <2>3. PICK ref \in SecretRef : ref = RefOf(n, s)
    BY EntryTyped DEF AuditAction
  <2>4. PICK e \in AuditEntry : e = [action |-> "read", ref |-> ref]
    BY DEF AuditEntry, AuditAction
  <2>5. PICK piece \in Piece : piece = [name |-> n, from |-> "vault", ref |-> ref]
    BY DEF Piece
  <2>6. audit' = Append(audit, e) /\ Substituted(s.text, piece) /\ e.action = "read" /\ piece.ref = ref
    BY <1>4, <2>1, <2>2, <2>3, <2>4, <2>5 DEF Audited
  <2>7. ResolutionTyped' /\ \A p \in PiecesOut' : p \in PiecesOut \/ p = piece
    BY <1>1, <2>6, SubstitutedAdds
  <2>8. ReadRecorded(piece)'
    <3>1. \E i \in DOMAIN audit' : audit'[i] = e
      BY <2>6, AuditGrows DEF AccessInv, AccessTypeOK
    <3> QED BY <2>4, <2>6, <3>1 DEF ReadRecorded
  <2>9. \A p \in PiecesOut' : p \in PiecesOut \/ ReadRecorded(p)'
    BY <2>7, <2>8
  <2>10. \A m \in AccessNames : ~ChangesName(e, m)
    BY <2>6 DEF ChangesName
  <2> QED BY <1>1, <1>2, <2>6, <2>7, <2>9, <2>10, NothingChanged
<1> QED BY <1>3, <1>4 DEF AskVault

LEMMA AskEnvKeeps ==
  ASSUME AccessInv, AskEnv
  PROVE  AccessInv'
<1>1. /\ Resolving /\ Wanted \in AccessNames /\ ResolutionTyped
      /\ UNCHANGED <<kept, dataKeys, isUnsealed, madeIds, audit>>
  BY WantedName DEF AskEnv, AccessInv
<1>2. isUnsealed' \in BOOLEAN
  BY <1>1 DEF AccessInv, AccessTypeOK
<1>3. CASE resolving' = [resolving EXCEPT !.tried = @ + 1] /\ UNCHANGED resolved
  BY <1>1, <1>2, <1>3, NextAsked, NothingChanged
<1>4. CASE Substituted(TRUE, [name |-> Wanted, from |-> "env", ref |-> NoSecret])
  <2>1. PICK piece \in Piece : piece = [name |-> Wanted, from |-> "env", ref |-> NoSecret]
    BY <1>1 DEF Piece
  <2>2. ResolutionTyped' /\ \A p \in PiecesOut' : p \in PiecesOut \/ p = piece
    BY <1>1, <1>4, <2>1, SubstitutedAdds
  <2>3. piece.from = "env"
    BY <2>1
  <2>4. ReadRecorded(piece)'
    BY <2>3 DEF ReadRecorded
  <2>5. \A p \in PiecesOut' : p \in PiecesOut \/ ReadRecorded(p)'
    BY <2>2, <2>4
  <2> QED BY <1>1, <1>2, <2>2, <2>5, NothingChanged
<1> QED BY <1>3, <1>4 DEF AskEnv

(***************************************************************************)
(* Whatever is stored, rotated, deleted and sealed while a template is     *)
(* resolved, the audit log of InMemoryVaultStore tells what it holds, its  *)
(* key ring has exactly the keys of that, and every value ChainProvider    *)
(* took from it is recorded as read.                                       *)
(***************************************************************************)
THEOREM AuditTrailStaysTrue == AccessSpec => []AccessSound
<1>1. AccessInit => AccessInv
  <2> SUFFICES ASSUME AccessInit PROVE AccessInv
    OBVIOUS
  <2>1. DOMAIN audit = {} /\ audit \in Seq(AuditEntry) /\ resolving.out = <<>> /\ resolved.out = <<>>
    BY DEF AccessInit, NoResolving, NoResult
  <2>2. \A n \in AccessNames : kept[n] = NoSecret /\ ChangesOf(n) = {}
    BY <2>1 DEF AccessInit, ChangesOf
  <2>3. (\A n \in AccessNames : TrailTells(n)) /\ KeyOwned /\ IdsApart
    BY <2>2 DEF TrailTells, KeyOwned, IdsApart, Holds
  <2>4. RingHoldsKept
    BY <2>2 DEF RingHoldsKept, AccessInit
  <2>5. ReadsRecorded
    BY <2>1 DEF ReadsRecorded, PiecesOut
  <2>6. ResolutionTyped
    BY <2>1 DEF ResolutionTyped, AccessInit, NoResolving
  <2>7. AccessTypeOK
    <3>1. isUnsealed \in BOOLEAN
      BY DEF AccessInit
    <3> QED BY <2>1, <3>1, AccessAssumption DEF AccessTypeOK, AccessInit
  <2> QED BY <2>3, <2>4, <2>5, <2>6, <2>7 DEF AccessInv, TrailTellsStore
<1>2. AccessInv /\ [AccessNext]_accessVars => AccessInv'
  <2> SUFFICES ASSUME AccessInv, [AccessNext]_accessVars PROVE AccessInv'
    OBVIOUS
  <2>0. isUnsealed \in BOOLEAN /\ ResolutionTyped
    BY DEF AccessInv, AccessTypeOK
  <2>1. ASSUME NEW n \in AccessNames, NEW text \in BOOLEAN, MemoryStore(n, text) \/ MemoryRotate(n, text)
        PROVE  AccessInv'
    BY <2>1, StoreKeptTrue, RotateKeptTrue
  <2>2. ASSUME NEW n \in AccessNames, MemoryDelete(n)
        PROVE  AccessInv'
    BY <2>2, DeleteKeptTrue
  <2>3. ASSUME UNCHANGED <<resolving, resolved>>
        PROVE  ResolutionTyped' /\ PiecesOut' = PiecesOut
    BY <2>0, <2>3 DEF ResolutionTyped, PiecesOut
  <2>4. CASE MemoryList
    <3>1. PICK e \in AuditEntry : e = [action |-> "list", ref |-> NoSecret]
      BY DEF AuditEntry, AuditAction
    <3>2. audit' = Append(audit, e) /\ \A n \in AccessNames : ~ChangesName(e, n)
      BY <2>4, <3>1 DEF MemoryList, Audited, ChangesName
    <3> QED BY <2>0, <2>3, <2>4, <3>2, NothingChanged DEF MemoryList
  <2>5. CASE MemorySeal \/ MemoryUnseal
    <3>1. isUnsealed' \in BOOLEAN
      BY <2>5 DEF MemorySeal, MemoryUnseal
    <3> QED BY <2>3, <2>5, <3>1, NothingChanged DEF MemorySeal, MemoryUnseal
  <2>6. ASSUME NEW t \in Templates, StartResolve(t)
        PROVE  AccessInv'
    <3>1. t \in Seq(AccessNames \cup {Unclosed})
      BY AccessAssumption
    <3>2. resolving'.out = <<>> /\ resolved'.out = <<>>
      BY <2>6 DEF StartResolve, NoResult
    <3>3. ResolutionTyped' /\ PiecesOut' = {}
      BY <2>6, <3>1, <3>2 DEF StartResolve, ResolutionTyped, PiecesOut
    <3> QED BY <2>0, <2>6, <3>3, NothingChanged DEF StartResolve
  <2>7. CASE AskVault \/ AskEnv
    BY <2>7, AskVaultKeeps, AskEnvKeeps
  <2>8. CASE GiveUpResolve
    BY <2>0, <2>8, NoResultTyped, NothingChanged DEF GiveUpResolve
  <2>9. CASE UNCHANGED accessVars
    BY <2>0, <2>3, <2>9, NothingChanged DEF accessVars
  <2> QED BY <2>1, <2>2, <2>4, <2>5, <2>6, <2>7, <2>8, <2>9 DEF AccessNext
<1>3. AccessInv => AccessSound
  BY DEF AccessInv, AccessSound
<1> QED BY <1>1, <1>2, <1>3, PTL DEF AccessSpec

(***************************************************************************)
(* The review journal.                                                     *)
(***************************************************************************)
ReviewRunning ==
  [pc : {"next", "calling"}, allow : BOOLEAN, number : Nat, snapshot : Nat,
   state : ReviewStates, todo : Seq(Roles), failed : BOOLEAN]

ReviewTypeOK ==
  /\ journal \in ReviewStates \cup {NoJournal}
  /\ stateLock \in ReviewProcs \cup {Free}
  /\ reviewed \in Nat /\ runsMade \in Nat
  /\ review \in [ReviewProcs -> ReviewRunning \cup {Idle}]
  /\ calls \in [Roles -> Nat] /\ inDoubt \in [Roles -> Nat]

\* A review state knows of every call that was begun (c), of every call of
\* unknown end (d), and of no answer that was not given (a).
Knows(s, c, d, a) ==
  /\ Consistent(s)
  /\ \A r \in Roles :
       /\ c[r] <= Len(s.attempts[r])
       /\ d[r] # 0 => \/ r \in s.outputs
                      \/ \E i \in DOMAIN s.attempts[r] : s.attempts[r][i] \in {"running", "interrupted"}
       /\ r \in s.outputs => <<r, s.fingerprint>> \in a

JournalInv ==
  /\ journal # NoJournal => Knows(journal, calls, inDoubt, answered)
  /\ journal = NoJournal => \A r \in Roles : calls[r] = 0 /\ inDoubt[r] = 0

LockInv == \A p \in ReviewProcs : review[p] # Idle => stateLock = p

\* The roles that are still to be asked without a call in progress.
Ahead(w) == IF w.pc = "next" THEN ToSet(w.todo) ELSE ToSet(Tail(w.todo))

Distinct(q) == \A i, j \in DOMAIN q : q[i] = q[j] => i = j

\* A run w, with journal j and n runs made: the roles ahead whose last call is
\* in doubt may be asked again, and a run that has not failed leaves out none.
RunInv(w, j, c, d, a, n) ==
  /\ j # NoJournal
  /\ Knows(w.state, c, d, a)
  /\ w.state.fingerprint = w.snapshot
  /\ w.number <= n
  /\ Distinct(w.todo)
  /\ \A r \in Ahead(w) : d[r] # 0 /\ r \notin w.state.outputs => w.allow /\ w.number > d[r]
  /\ ~w.failed => \A r \in Roles : r \in w.state.outputs \/ r \in ToSet(w.todo)
  /\ w.pc = "calling" =>
       /\ w.todo # <<>>
       /\ Head(w.todo) \notin w.state.outputs
       /\ j = w.state
       /\ w.state.attempts[Head(w.todo)] # <<>>
       /\ w.state.attempts[Head(w.todo)][Len(w.state.attempts[Head(w.todo)])] = "running"

RunsInv ==
  \A p \in ReviewProcs :
    review[p] # Idle => RunInv(review[p], journal, calls, inDoubt, answered, runsMade)

ReviewInv ==
  /\ ReviewTypeOK
  /\ JournalInv
  /\ LockInv
  /\ RunsInv
  /\ \A r \in Roles : inDoubt[r] <= runsMade
  /\ ReportHonest

LEMMA FunctionIsSequence ==
  ASSUME NEW S, NEW n \in Nat, NEW f \in [1 .. n -> S]
  PROVE  f \in Seq(S) /\ Len(f) = n /\ DOMAIN f = 1 .. n
<1>1. f \in Seq(S)
  BY SeqDef
<1>2. Len(f) \in Nat /\ DOMAIN f = 1 .. Len(f)
  BY <1>1, LenProperties
<1>. QED BY <1>1, <1>2

LEMMA SuccessesFinite ==
  ASSUME NEW s \in ReviewStates, NEW r \in Roles
  PROVE  IsFiniteSet(Successes(s, r)) /\ Succeeded(s, r) \in Nat
<1>1. s.attempts[r] \in Seq(Statuses)
  BY DEF ReviewStates
<1>2. Successes(s, r) \subseteq 1 .. Len(s.attempts[r])
  BY <1>1 DEF Successes
<1>3. IsFiniteSet(1 .. Len(s.attempts[r]))
  BY <1>1, FS_Interval
<1>. QED BY <1>2, <1>3, FS_Subset, FS_CardinalityType DEF Succeeded

LEMMA KnowsLess ==
  ASSUME NEW s, NEW c, NEW d, NEW a, NEW e, NEW b, Knows(s, c, d, a),
         \A r \in Roles : e[r] # 0 => d[r] # 0, a \subseteq b
  PROVE  Knows(s, c, e, b)
  BY DEF Knows

LEMMA FreshKnows ==
  ASSUME NEW f \in Nat, NEW c, NEW d, NEW a, \A r \in Roles : c[r] = 0 /\ d[r] = 0
  PROVE  FreshState(f) \in ReviewStates /\ Knows(FreshState(f), c, d, a)
<1>1. FreshState(f) \in ReviewStates
  BY DEF FreshState, ReviewStates
<1>2. \A r \in Roles : Successes(FreshState(f), r) = {}
  BY DEF FreshState, Successes
<1>3. \A r \in Roles : Succeeded(FreshState(f), r) = 0
  BY <1>2, FS_EmptySet DEF Succeeded
<1>4. Consistent(FreshState(f))
  <2>1. \A r \in Roles : /\ FreshState(f).attempts[r] = <<>> /\ FreshState(f).completed[r] = 0
                         /\ r \notin FreshState(f).outputs
    BY DEF FreshState
  <2>2. \A r \in Roles : Len(FreshState(f).attempts[r]) <= MaxRetries + 1
    BY <2>1, ReviewAssumption
  <2>3. \A r \in Roles : DOMAIN FreshState(f).attempts[r] = {}
    BY <2>1
  <2>. QED BY <1>3, <2>1, <2>2, <2>3 DEF Consistent
<1>5. \A r \in Roles : c[r] <= Len(FreshState(f).attempts[r])
  BY DEF FreshState
<1>. QED BY <1>1, <1>4, <1>5 DEF Knows, FreshState

LEMMA RecoveredKnows ==
  ASSUME NEW s \in ReviewStates, NEW c, NEW d, NEW a, Knows(s, c, d, a)
  PROVE  /\ Recovered(s) \in ReviewStates
         /\ Knows(Recovered(s), c, d, a)
         /\ Recovered(s).fingerprint = s.fingerprint
         /\ \A r \in Roles \ Recovered(s).outputs :
              d[r] # 0 => "interrupted" \in ToSet(Recovered(s).attempts[r])
<1>0. \A r \in Roles : s.attempts[r] \in Seq(Statuses)
  BY DEF ReviewStates
<1>1. /\ Recovered(s).fingerprint = s.fingerprint
      /\ Recovered(s).outputs = s.outputs
      /\ Recovered(s).completed = s.completed
      /\ \A r \in Roles : Recovered(s).attempts[r] =
           [i \in 1 .. Len(s.attempts[r]) |->
              IF s.attempts[r][i] = "running" THEN "interrupted" ELSE s.attempts[r][i]]
  BY <1>0 DEF Recovered, ReviewStates
<1>2. \A r \in Roles : /\ Recovered(s).attempts[r] \in Seq(Statuses)
                       /\ Len(Recovered(s).attempts[r]) = Len(s.attempts[r])
                       /\ DOMAIN Recovered(s).attempts[r] = DOMAIN s.attempts[r]
  <2>. TAKE r \in Roles
  <2>1. Recovered(s).attempts[r] \in [1 .. Len(s.attempts[r]) -> Statuses]
    <3>1. \A i \in 1 .. Len(s.attempts[r]) : s.attempts[r][i] \in Statuses
      BY <1>0
    <3>. QED BY <3>1, <1>1 DEF Statuses
  <2>2. Len(s.attempts[r]) \in Nat /\ DOMAIN s.attempts[r] = 1 .. Len(s.attempts[r])
    BY <1>0
  <2>. QED BY <2>1, <2>2, FunctionIsSequence
<1>3. Recovered(s) \in ReviewStates
  BY <1>2 DEF Recovered, ReviewStates
<1>4. \A r \in Roles : Successes(Recovered(s), r) = Successes(s, r)
  BY <1>0, <1>1, <1>2 DEF Successes
<1>5. \A r \in Roles : Succeeded(Recovered(s), r) = Succeeded(s, r)
  BY <1>4 DEF Succeeded
<1>6. Consistent(Recovered(s))
  <2>1. \A r \in Roles : \A i \in DOMAIN Recovered(s).attempts[r] : Recovered(s).attempts[r][i] \in Statuses
    BY <1>2
  <2>. QED BY <2>1, <1>1, <1>2, <1>5 DEF Consistent, Knows
<1>7. \A r \in Roles \ s.outputs : d[r] # 0 =>
         \E i \in DOMAIN Recovered(s).attempts[r] : Recovered(s).attempts[r][i] = "interrupted"
  <2>. SUFFICES ASSUME NEW r \in Roles, r \notin s.outputs, d[r] # 0
                PROVE  \E i \in DOMAIN Recovered(s).attempts[r] : Recovered(s).attempts[r][i] = "interrupted"
    OBVIOUS
  <2>1. PICK i \in DOMAIN s.attempts[r] : s.attempts[r][i] \in {"running", "interrupted"}
    BY DEF Knows
  <2>2. i \in 1 .. Len(s.attempts[r])
    BY <1>0
  <2>3. Recovered(s).attempts[r][i] = "interrupted"
    BY <1>1, <2>1, <2>2
  <2>. QED BY <1>2, <2>3
<1>8. Knows(Recovered(s), c, d, a)
  BY <1>1, <1>2, <1>6, <1>7 DEF Knows
<1>. QED BY <1>1, <1>3, <1>7, <1>8 DEF ToSet

LEMMA PushedKnows ==
  ASSUME NEW s \in ReviewStates, NEW r \in Roles, NEW c \in [Roles -> Nat], NEW d \in [Roles -> Nat],
         NEW a, Knows(s, c, d, a), ~(Len(s.attempts[r]) > MaxRetries)
  PROVE  /\ Pushed(s, r) \in ReviewStates
         /\ Pushed(s, r).fingerprint = s.fingerprint
         /\ Pushed(s, r).outputs = s.outputs
         /\ Pushed(s, r).attempts[r] # <<>>
         /\ Pushed(s, r).attempts[r][Len(Pushed(s, r).attempts[r])] = "running"
         /\ Knows(Pushed(s, r), c, d, a)
         /\ \A n : Knows(Pushed(s, r), [c EXCEPT ![r] = @ + 1], [d EXCEPT ![r] = n], a)
<1>0. \A q \in Roles : s.attempts[q] \in Seq(Statuses)
  BY DEF ReviewStates
<1>1. /\ Pushed(s, r).fingerprint = s.fingerprint
      /\ Pushed(s, r).outputs = s.outputs
      /\ Pushed(s, r).completed = s.completed
      /\ Pushed(s, r).attempts = [s.attempts EXCEPT ![r] = Append(s.attempts[r], "running")]
  BY DEF Pushed, ReviewStates
<1>3. /\ Append(s.attempts[r], "running") \in Seq(Statuses)
      /\ Len(Append(s.attempts[r], "running")) = Len(s.attempts[r]) + 1
      /\ \A i \in 1 .. Len(s.attempts[r]) : Append(s.attempts[r], "running")[i] = s.attempts[r][i]
      /\ Append(s.attempts[r], "running")[Len(s.attempts[r]) + 1] = "running"
  BY <1>0 DEF Statuses
<1>4. Pushed(s, r).attempts \in [Roles -> Seq(Statuses)]
  BY <1>1, <1>3 DEF ReviewStates
<1>5. Pushed(s, r) \in ReviewStates
  BY <1>3 DEF Pushed, ReviewStates
<1>6. /\ Pushed(s, r).attempts[r] = Append(s.attempts[r], "running")
      /\ \A q \in Roles \ {r} : Pushed(s, r).attempts[q] = s.attempts[q]
  BY <1>1 DEF ReviewStates
<1>7. \A q \in Roles : Successes(Pushed(s, r), q) = Successes(s, q)
  <2>1. \A q \in Roles \ {r} : Successes(Pushed(s, r), q) = Successes(s, q)
    BY <1>6 DEF Successes
  <2>2. Successes(Pushed(s, r), r) = Successes(s, r)
    BY <1>0, <1>3, <1>6 DEF Successes
  <2>. QED BY <2>1, <2>2
<1>8. \A q \in Roles : Succeeded(Pushed(s, r), q) = Succeeded(s, q)
  BY <1>7 DEF Succeeded
<1>9. Consistent(Pushed(s, r))
  <2>1. Len(Pushed(s, r).attempts[r]) <= MaxRetries + 1
    BY <1>0, <1>3, <1>6, ReviewAssumption
  <2>2. \A q \in Roles : \A i \in DOMAIN Pushed(s, r).attempts[q] : Pushed(s, r).attempts[q][i] \in Statuses
    BY <1>4
  <2>. QED BY <1>1, <1>6, <1>8, <2>1, <2>2 DEF Consistent, Knows
<1>10. \A q \in Roles : d[q] # 0 => \/ q \in s.outputs
         \/ \E i \in DOMAIN Pushed(s, r).attempts[q] : Pushed(s, r).attempts[q][i] \in {"running", "interrupted"}
  <2>. TAKE q \in Roles
  <2>1. CASE q # r
    BY <2>1, <1>6 DEF Knows
  <2>2. CASE q = r
    <3>1. Len(s.attempts[r]) + 1 \in DOMAIN Pushed(s, r).attempts[r]
      BY <1>0, <1>3, <1>6
    <3>. QED BY <2>2, <3>1, <1>3, <1>6
  <2>. QED BY <2>1, <2>2
<1>11. Len(s.attempts[r]) + 1 \in DOMAIN Pushed(s, r).attempts[r]
  BY <1>0, <1>3, <1>6
<1>12. Pushed(s, r).attempts[r][Len(Pushed(s, r).attempts[r])] = "running" /\ Pushed(s, r).attempts[r] # <<>>
  BY <1>3, <1>6, <1>11
<1>15. /\ \A q \in Roles : c[q] <= Len(Pushed(s, r).attempts[q])
       /\ c[r] + 1 <= Len(Pushed(s, r).attempts[r])
  <2>1. \A q \in Roles : Len(s.attempts[q]) \in Nat
    BY <1>0
  <2>2. \A q \in Roles : c[q] <= Len(s.attempts[q])
    BY DEF Knows
  <2>3. Len(Pushed(s, r).attempts[r]) = Len(s.attempts[r]) + 1
    BY <1>3, <1>6
  <2>4. c[r] + 1 <= Len(Pushed(s, r).attempts[r]) /\ c[r] <= Len(Pushed(s, r).attempts[r])
    BY <2>1, <2>2, <2>3
  <2>. QED BY <2>2, <2>4, <1>6
<1>13. Knows(Pushed(s, r), c, d, a)
  <2>1. \A q \in Roles : c[q] <= Len(Pushed(s, r).attempts[q])
    BY <1>15
  <2>. QED BY <1>1, <1>9, <1>10, <2>1 DEF Knows
<1>14. \A n : Knows(Pushed(s, r), [c EXCEPT ![r] = @ + 1], [d EXCEPT ![r] = n], a)
  <2>. TAKE n
  <2>1. \A q \in Roles : [c EXCEPT ![r] = @ + 1][q] <= Len(Pushed(s, r).attempts[q])
    BY <1>15
  <2>2. \A q \in Roles : [d EXCEPT ![r] = n][q] # 0 => \/ q \in s.outputs
          \/ \E i \in DOMAIN Pushed(s, r).attempts[q] : Pushed(s, r).attempts[q][i] \in {"running", "interrupted"}
    BY <1>10, <1>11, <1>12
  <2>. QED BY <1>1, <1>9, <2>1, <2>2 DEF Knows
<1>. QED BY <1>1, <1>5, <1>12, <1>13, <1>14

LEMMA SettledKnows ==
  ASSUME NEW s \in ReviewStates, NEW r \in Roles, NEW c, NEW d, NEW a,
         Knows(s, c, d, a), NEW status \in Statuses, status # "running", s.attempts[r] # <<>>,
         s.attempts[r][Len(s.attempts[r])] = "running", r \notin s.outputs,
         d[r] # 0 => status = "interrupted",
         status = "succeeded" => <<r, s.fingerprint>> \in a
  PROVE  /\ Settled(s, r, status) \in ReviewStates
         /\ Knows(Settled(s, r, status), c, d, a)
         /\ Settled(s, r, status).fingerprint = s.fingerprint
         /\ Settled(s, r, status).outputs = IF status = "succeeded" THEN s.outputs \cup {r} ELSE s.outputs
<1>. DEFINE t == Settled(s, r, status)
            n == Len(s.attempts[r])
<1>0. \A q \in Roles : s.attempts[q] \in Seq(Statuses)
  BY DEF ReviewStates
<1>1. n \in Nat /\ n \in DOMAIN s.attempts[r] /\ DOMAIN s.attempts[r] = 1 .. n
  BY <1>0
<1>2. /\ t.fingerprint = s.fingerprint
      /\ t.outputs = IF status = "succeeded" THEN s.outputs \cup {r} ELSE s.outputs
      /\ t.completed = IF status = "succeeded" THEN [s.completed EXCEPT ![r] = s.completed[r] + 1] ELSE s.completed
      /\ t.attempts = [s.attempts EXCEPT ![r] = [s.attempts[r] EXCEPT ![n] = status]]
  BY DEF Settled, ReviewStates
<1>3. /\ [s.attempts[r] EXCEPT ![n] = status] \in [1 .. n -> Statuses]
      /\ [s.attempts[r] EXCEPT ![n] = status] \in Seq(Statuses)
      /\ Len([s.attempts[r] EXCEPT ![n] = status]) = n
  <2>1. s.attempts[r] \in [1 .. n -> Statuses]
    BY <1>0, <1>1
  <2>2. [s.attempts[r] EXCEPT ![n] = status] \in [1 .. n -> Statuses]
    BY <2>1
  <2>3. s.attempts[r] \in Seq(Statuses) /\ n \in 1 .. Len(s.attempts[r])
    BY <1>0, <1>1
  <2>. QED BY <2>2, <2>3, ExceptSeq
<1>4. /\ t.attempts[r] = [s.attempts[r] EXCEPT ![n] = status]
      /\ \A q \in Roles \ {r} : t.attempts[q] = s.attempts[q]
      /\ t.attempts \in [Roles -> Seq(Statuses)]
  BY <1>2, <1>3 DEF ReviewStates
<1>5. t \in ReviewStates
  <2>1. t.outputs \in SUBSET Roles /\ t.completed \in [Roles -> Nat]
    BY <1>2 DEF ReviewStates
  <2>2. CASE status = "succeeded"
    BY <1>2, <1>4, <2>1, <2>2 DEF Settled, ReviewStates
  <2>3. CASE status # "succeeded"
    BY <1>2, <1>4, <2>1, <2>3 DEF Settled, ReviewStates
  <2>. QED BY <2>2, <2>3
<1>6. \A q \in Roles \ {r} : Succeeded(t, q) = Succeeded(s, q)
  <2>1. \A q \in Roles \ {r} : Successes(t, q) = Successes(s, q)
    BY <1>4 DEF Successes
  <2>. QED BY <2>1 DEF Succeeded
<1>7. Succeeded(s, r) = 0 /\ s.completed[r] = 0 /\ Successes(s, r) = {}
  <2>1. ~(Succeeded(s, r) > 0) /\ ~(s.completed[r] > 0)
    BY DEF Knows, Consistent
  <2>2. Succeeded(s, r) \in Nat /\ s.completed[r] \in Nat /\ IsFiniteSet(Successes(s, r))
    BY SuccessesFinite DEF ReviewStates
  <2>3. Succeeded(s, r) = 0 /\ s.completed[r] = 0
    BY <2>1, <2>2
  <2>. QED BY <2>2, <2>3, FS_EmptySet DEF Succeeded
<1>8. Successes(t, r) = IF status = "succeeded" THEN {n} ELSE {}
  BY <1>1, <1>3, <1>4, <1>7 DEF Successes
<1>9. Succeeded(t, r) = IF status = "succeeded" THEN 1 ELSE 0
  BY <1>8, FS_EmptySet, FS_Singleton DEF Succeeded
<1>10. \A q \in Roles : Len(t.attempts[q]) = Len(s.attempts[q])
  BY <1>3, <1>4
<1>11. Consistent(t)
  <2>1. \A q \in Roles : \A i \in DOMAIN t.attempts[q] : t.attempts[q][i] \in Statuses
    BY <1>4
  <2>2. \A q \in Roles \ {r} : t.completed[q] = s.completed[q] /\ (q \in t.outputs <=> q \in s.outputs)
    BY <1>2 DEF ReviewStates
  <2>3. /\ t.completed[r] = IF status = "succeeded" THEN 1 ELSE 0
        /\ r \in t.outputs <=> status = "succeeded"
    BY <1>2, <1>7 DEF ReviewStates
  <2>4. \A q \in Roles : Len(t.attempts[q]) <= MaxRetries + 1
    BY <1>10 DEF Knows, Consistent
  <2>5. \A q \in Roles \ {r} :
          /\ Succeeded(t, q) > 0 => q \in t.outputs
          /\ t.completed[q] > 0 => t.completed[q] = 1 /\ Succeeded(t, q) = 1
          /\ t.completed[q] > 0 <=> q \in t.outputs
    BY <1>6, <2>2 DEF Knows, Consistent
  <2>6. /\ Succeeded(t, r) > 0 => r \in t.outputs
        /\ t.completed[r] > 0 => t.completed[r] = 1 /\ Succeeded(t, r) = 1
        /\ t.completed[r] > 0 <=> r \in t.outputs
    BY <1>9, <2>3
  <2>. QED BY <2>1, <2>4, <2>5, <2>6 DEF Consistent
<1>12. \A q \in Roles : d[q] # 0 => \/ q \in t.outputs
         \/ \E i \in DOMAIN t.attempts[q] : t.attempts[q][i] \in {"running", "interrupted"}
  <2>1. \A q \in Roles \ {r} : d[q] # 0 => \/ q \in t.outputs
         \/ \E i \in DOMAIN t.attempts[q] : t.attempts[q][i] \in {"running", "interrupted"}
    BY <1>2, <1>4 DEF Knows
  <2>2. n \in DOMAIN t.attempts[r] /\ t.attempts[r][n] = status
    BY <1>1, <1>3, <1>4
  <2>. QED BY <2>1, <2>2
<1>13. \A q \in Roles : q \in t.outputs => <<q, t.fingerprint>> \in a
  BY <1>2 DEF Knows
<1>14. Knows(t, c, d, a)
  BY <1>10, <1>11, <1>12, <1>13 DEF Knows
<1>. QED BY <1>2, <1>5, <1>14

\* An answer that does not leave the outcome open says so of every call.
LEMMA KnownOutcome ==
  ASSUME NEW response \in Responses
  PROVE  /\ StatusOf(response) \in Statuses \ {"running"}
         /\ response.unknown => StatusOf(response) = "interrupted"
<1>1. StatusOf(response) \in Statuses \ {"running"}
  BY DEF StatusOf, Statuses
<1>2. CASE response = [output |-> "none", error |-> TRUE, unknown |-> FALSE]
  BY <1>1, <1>2
<1>3. ASSUME NEW events, response \in {ParseCodexEvents(events), [ParseCodexEvents(events) EXCEPT !.error = TRUE]}
      PROVE  response.unknown => StatusOf(response) = "interrupted"
  <2>1. response.unknown <=> {"completed", "failed"} \cap ToSet(events) = {}
    <3>1. ParseCodexEvents(events).unknown <=> {"completed", "failed"} \cap ToSet(events) = {}
      BY DEF ParseCodexEvents
    <3>2. [ParseCodexEvents(events) EXCEPT !.error = TRUE].unknown = ParseCodexEvents(events).unknown
      BY DEF ParseCodexEvents
    <3>. QED BY <1>3, <3>1, <3>2
  <2>2. response.unknown => CompletedTurns(events) = {}
    BY <2>1 DEF ToSet, CompletedTurns
  <2>3. CompletedTurns(events) = {} => Cardinality(CompletedTurns(events)) # 1
    BY FS_EmptySet
  <2>4. ASSUME Cardinality(CompletedTurns(events)) # 1
        PROVE  response.error = TRUE
    <3>1. ParseCodexEvents(events).error = TRUE
      BY <2>4 DEF ParseCodexEvents
    <3>2. [ParseCodexEvents(events) EXCEPT !.error = TRUE].error = TRUE
      BY DEF ParseCodexEvents
    <3>. QED BY <1>3, <3>1, <3>2
  <2>. QED BY <2>2, <2>3, <2>4 DEF StatusOf
<1>. QED BY <1>1, <1>2, <1>3 DEF Responses

LEMMA TailOfTodo ==
  ASSUME NEW q \in Seq(Roles), q # <<>>, Distinct(q)
  PROVE  /\ Head(q) \in Roles /\ Tail(q) \in Seq(Roles) /\ Distinct(Tail(q))
         /\ ToSet(q) = {Head(q)} \cup ToSet(Tail(q)) /\ Head(q) \notin ToSet(Tail(q))
         /\ ToSet(Tail(q)) \subseteq Roles
<1>1. /\ Head(q) = q[1] /\ Head(q) \in Roles /\ Tail(q) \in Seq(Roles)
      /\ DOMAIN q = 1 .. Len(q) /\ Len(q) \in Nat /\ Len(q) >= 1
      /\ DOMAIN Tail(q) = 1 .. Len(q) - 1
      /\ \A i \in 1 .. Len(q) - 1 : Tail(q)[i] = q[i + 1]
  OBVIOUS
<1>2. Distinct(Tail(q))
  <2>. SUFFICES ASSUME NEW i \in 1 .. Len(q) - 1, NEW j \in 1 .. Len(q) - 1, Tail(q)[i] = Tail(q)[j]
                PROVE  i = j
    BY <1>1 DEF Distinct
  <2>1. i + 1 \in DOMAIN q /\ j + 1 \in DOMAIN q /\ q[i + 1] = q[j + 1]
    BY <1>1
  <2>2. i + 1 = j + 1
    BY <2>1 DEF Distinct
  <2>. QED BY <2>2
<1>3. ToSet(q) = {Head(q)} \cup ToSet(Tail(q))
  <2>1. \A x \in ToSet(q) : x = Head(q) \/ x \in ToSet(Tail(q))
    <3>. SUFFICES ASSUME NEW i \in DOMAIN q, q[i] # Head(q) PROVE q[i] \in ToSet(Tail(q))
      BY DEF ToSet
    <3>1. i - 1 \in DOMAIN Tail(q) /\ Tail(q)[i - 1] = q[i]
      BY <1>1
    <3>. QED BY <3>1 DEF ToSet
  <2>2. \A x \in ToSet(Tail(q)) : x \in ToSet(q)
    <3>. SUFFICES ASSUME NEW i \in DOMAIN Tail(q) PROVE Tail(q)[i] \in ToSet(q)
      BY DEF ToSet
    <3>1. i + 1 \in DOMAIN q /\ Tail(q)[i] = q[i + 1]
      BY <1>1
    <3>. QED BY <3>1 DEF ToSet
  <2>3. Head(q) \in ToSet(q)
    BY <1>1 DEF ToSet
  <2>. QED BY <2>1, <2>2, <2>3
<1>4. Head(q) \notin ToSet(Tail(q))
  <2>. SUFFICES ASSUME NEW i \in DOMAIN Tail(q), Tail(q)[i] = Head(q) PROVE FALSE
    BY DEF ToSet
  <2>1. i + 1 \in DOMAIN q /\ 1 \in DOMAIN q /\ q[i + 1] = q[1]
    BY <1>1
  <2>2. i + 1 = 1
    BY <2>1 DEF Distinct
  <2>. QED BY <2>2, <1>1
<1>5. ToSet(Tail(q)) \subseteq Roles
  BY <1>1 DEF ToSet
<1>. QED BY <1>1, <1>2, <1>3, <1>4, <1>5

LEMMA EndedRun ==
  ASSUME NEW w \in ReviewRunning, NEW s \in ReviewStates, NEW failed \in BOOLEAN,
         NEW j, NEW c, NEW d, NEW a, NEW n, w.todo # <<>>, Distinct(w.todo),
         j # NoJournal, Knows(s, c, d, a), s.fingerprint = w.snapshot, w.number <= n,
         \A r \in ToSet(Tail(w.todo)) : d[r] # 0 /\ r \notin s.outputs => w.allow /\ w.number > d[r],
         ~w.failed => \A r \in Roles : r \in s.outputs \/ r \in ToSet(w.todo),
         ~failed => Head(w.todo) \in s.outputs
  PROVE  WorkerDone(w, s, failed) \in ReviewRunning /\ RunInv(WorkerDone(w, s, failed), j, c, d, a, n)
<1>1. w.todo \in Seq(Roles)
  BY DEF ReviewRunning
<1>2. /\ Head(w.todo) \in Roles /\ Tail(w.todo) \in Seq(Roles) /\ Distinct(Tail(w.todo))
      /\ ToSet(w.todo) = {Head(w.todo)} \cup ToSet(Tail(w.todo))
  BY <1>1, TailOfTodo
<1>3. WorkerDone(w, s, failed) \in ReviewRunning
  BY <1>2 DEF WorkerDone, ReviewRunning
<1>6. /\ WorkerDone(w, s, failed).pc = "next" /\ WorkerDone(w, s, failed).allow = w.allow
      /\ WorkerDone(w, s, failed).number = w.number /\ WorkerDone(w, s, failed).snapshot = w.snapshot
      /\ WorkerDone(w, s, failed).state = s /\ WorkerDone(w, s, failed).todo = Tail(w.todo)
      /\ WorkerDone(w, s, failed).failed = (w.failed \/ failed)
  BY DEF WorkerDone, ReviewRunning
<1>4. Ahead(WorkerDone(w, s, failed)) = ToSet(Tail(w.todo))
  BY <1>6 DEF Ahead
<1>5. ~WorkerDone(w, s, failed).failed => \A r \in Roles : r \in s.outputs \/ r \in ToSet(Tail(w.todo))
  BY <1>2, <1>6
<1>7. RunInv(WorkerDone(w, s, failed), j, c, d, a, n)
  BY <1>2, <1>4, <1>5, <1>6 DEF RunInv
<1>. QED BY <1>3, <1>7

LEMMA MovedFields ==
  ASSUME NEW w \in ReviewRunning, NEW pc \in {"next", "calling"}, NEW s \in ReviewStates
  PROVE  /\ WorkerAt(w, pc, s) \in ReviewRunning
         /\ WorkerAt(w, pc, s).pc = pc /\ WorkerAt(w, pc, s).state = s
         /\ WorkerAt(w, pc, s).allow = w.allow /\ WorkerAt(w, pc, s).number = w.number
         /\ WorkerAt(w, pc, s).snapshot = w.snapshot /\ WorkerAt(w, pc, s).todo = w.todo
         /\ WorkerAt(w, pc, s).failed = w.failed
  BY DEF WorkerAt, ReviewRunning

\* Only the process that holds the lock has a run, and its step is the run's.
LEMMA OnlyRunner ==
  ASSUME ReviewInv, NEW p \in ReviewProcs, review[p] # Idle, NEW w \in ReviewRunning,
         review' = [review EXCEPT ![p] = w], UNCHANGED stateLock,
         RunInv(w, journal', calls', inDoubt', answered', runsMade')
  PROVE  review' \in [ReviewProcs -> ReviewRunning \cup {Idle}] /\ LockInv' /\ RunsInv'
<1>1. review \in [ReviewProcs -> ReviewRunning \cup {Idle}]
  BY DEF ReviewInv, ReviewTypeOK
<1>2. stateLock = p /\ \A q \in ReviewProcs : q # p => review[q] = Idle
  BY DEF ReviewInv, LockInv
<1>3. review' \in [ReviewProcs -> ReviewRunning \cup {Idle}]
  BY <1>1
<1>4. review'[p] = w /\ \A q \in ReviewProcs : q # p => review'[q] = Idle
  BY <1>1, <1>2
<1>5. LockInv'
  BY <1>2, <1>4 DEF LockInv
<1>6. RunsInv'
  BY <1>4 DEF RunsInv
<1>. QED BY <1>3, <1>5, <1>6

LEMMA RunOf ==
  ASSUME ReviewInv, NEW p \in ReviewProcs, NEW pc \in {"next", "calling"}, Working(p, pc)
  PROVE  /\ review[p] # Idle /\ review[p] \in ReviewRunning
         /\ RunInv(review[p], journal, calls, inDoubt, answered, runsMade)
         /\ journal \in ReviewStates /\ Knows(journal, calls, inDoubt, answered)
         /\ review[p].todo \in Seq(Roles) /\ review[p].state \in ReviewStates
<1>1. review[p] # Idle
  BY DEF Working, Idle
<1>2. review[p] \in ReviewRunning
  BY <1>1 DEF ReviewInv, ReviewTypeOK
<1>3. RunInv(review[p], journal, calls, inDoubt, answered, runsMade)
  BY <1>1 DEF ReviewInv, RunsInv
<1>4. journal # NoJournal
  BY <1>3 DEF RunInv
<1>5. journal \in ReviewStates /\ Knows(journal, calls, inDoubt, answered)
  BY <1>4 DEF ReviewInv, ReviewTypeOK, JournalInv
<1>. QED BY <1>1, <1>2, <1>3, <1>5 DEF ReviewRunning

\* What a step of a run has to show.
LEMMA StepOfRun ==
  ASSUME ReviewInv, NEW p \in ReviewProcs, review[p] # Idle, NEW w \in ReviewRunning,
         review' = [review EXCEPT ![p] = w],
         UNCHANGED <<stateLock, reviewed, runsMade, reports>>,
         RunInv(w, journal', calls', inDoubt', answered', runsMade),
         journal' \in ReviewStates, Knows(journal', calls', inDoubt', answered'),
         calls' \in [Roles -> Nat], inDoubt' \in [Roles -> Nat], answered \subseteq answered',
         \A r \in Roles : inDoubt'[r] <= runsMade
  PROVE  ReviewInv'
<1>1. review' \in [ReviewProcs -> ReviewRunning \cup {Idle}] /\ LockInv' /\ RunsInv'
  BY OnlyRunner
<1>2. ReviewTypeOK'
  BY <1>1 DEF ReviewInv, ReviewTypeOK
<1>3. JournalInv'
  BY JournalAssumption DEF JournalInv
<1>4. ReportHonest'
  BY DEF ReviewInv, ReportHonest
<1>. QED BY <1>1, <1>2, <1>3, <1>4 DEF ReviewInv

LEMMA NextAttemptKeeps ==
  ASSUME ReviewInv, NEW p \in ReviewProcs, NextAttempt(p)
  PROVE  ReviewInv'
<1>. DEFINE w == review[p]
            s == w.state
            r == Head(w.todo)
<1>0. Working(p, "next") /\ w.todo # <<>> /\ UNCHANGED <<stateLock, reviewed, runsMade, answered, reports>>
  BY DEF NextAttempt
<1>1. /\ w # Idle /\ w \in ReviewRunning /\ RunInv(w, journal, calls, inDoubt, answered, runsMade)
      /\ journal \in ReviewStates /\ Knows(journal, calls, inDoubt, answered)
      /\ w.todo \in Seq(Roles) /\ s \in ReviewStates
  BY <1>0, RunOf
<1>2. /\ journal # NoJournal /\ Knows(s, calls, inDoubt, answered) /\ s.fingerprint = w.snapshot
      /\ w.number <= runsMade /\ Distinct(w.todo)
      /\ \A q \in Ahead(w) : inDoubt[q] # 0 /\ q \notin s.outputs => w.allow /\ w.number > inDoubt[q]
      /\ ~w.failed => \A q \in Roles : q \in s.outputs \/ q \in ToSet(w.todo)
  BY <1>1 DEF RunInv
<1>3. /\ r \in Roles /\ ToSet(w.todo) = {r} \cup ToSet(Tail(w.todo)) /\ r \notin ToSet(Tail(w.todo))
      /\ Ahead(w) = ToSet(w.todo)
  BY <1>0, <1>1, <1>2, TailOfTodo DEF Ahead, Working
<1>4. calls \in [Roles -> Nat] /\ inDoubt \in [Roles -> Nat] /\ \A q \in Roles : inDoubt[q] <= runsMade
  BY DEF ReviewInv, ReviewTypeOK
<1>5. CASE r \in s.outputs \/ Len(s.attempts[r]) > MaxRetries
  <2>1. WorkerEnds(p, s, r \notin s.outputs) /\ UNCHANGED <<journal, calls, inDoubt>>
    BY <1>5 DEF NextAttempt, WorkingOn
  <2>0. PICK spent \in BOOLEAN : spent = (r \notin s.outputs)
    OBVIOUS
  <2>2. /\ WorkerDone(w, s, spent) \in ReviewRunning
        /\ RunInv(WorkerDone(w, s, spent), journal, calls, inDoubt, answered, runsMade)
    <3>1. \A q \in ToSet(Tail(w.todo)) : inDoubt[q] # 0 /\ q \notin s.outputs => w.allow /\ w.number > inDoubt[q]
      BY <1>2, <1>3
    <3>2. ~spent => Head(w.todo) \in s.outputs
      BY <2>0
    <3>. HIDE DEF r, s, w
    <3>. QED BY <1>0, <1>1, <1>2, <3>1, <3>2, EndedRun
  <2>. QED BY <1>0, <1>1, <1>4, <2>0, <2>1, <2>2, StepOfRun DEF WorkerEnds
<1>6. CASE ~(r \in s.outputs \/ Len(s.attempts[r]) > MaxRetries)
  <2>. DEFINE t == Pushed(s, r)
  <2>1. PICK ok \in BOOLEAN :
          /\ Save(t, ok)
          /\ IF ok THEN /\ WorkerMoves(p, "calling", t)
                        /\ calls' = [calls EXCEPT ![r] = @ + 1]
                        /\ inDoubt' = [inDoubt EXCEPT ![r] = w.number]
             ELSE WorkerEnds(p, t, TRUE) /\ UNCHANGED <<calls, inDoubt>>
    BY <1>6 DEF NextAttempt, WorkingOn
  <2>2. /\ t \in ReviewStates /\ t.fingerprint = s.fingerprint /\ t.outputs = s.outputs
        /\ t.attempts[r] # <<>> /\ t.attempts[r][Len(t.attempts[r])] = "running"
        /\ Knows(t, calls, inDoubt, answered)
        /\ Knows(t, [calls EXCEPT ![r] = @ + 1], [inDoubt EXCEPT ![r] = w.number], answered)
    <3>1. ~(Len(s.attempts[r]) > MaxRetries)
      BY <1>6
    <3>. HIDE DEF r, s, w
    <3>2. /\ s \in ReviewStates /\ r \in Roles /\ calls \in [Roles -> Nat] /\ inDoubt \in [Roles -> Nat]
          /\ Knows(s, calls, inDoubt, answered)
      BY <1>1, <1>2, <1>3, <1>4
    <3>3. /\ t \in ReviewStates /\ t.fingerprint = s.fingerprint /\ t.outputs = s.outputs
          /\ t.attempts[r] # <<>> /\ t.attempts[r][Len(t.attempts[r])] = "running"
          /\ Knows(t, calls, inDoubt, answered)
          /\ \A n : Knows(t, [calls EXCEPT ![r] = @ + 1], [inDoubt EXCEPT ![r] = n], answered)
      BY <3>1, <3>2, PushedKnows
    <3>. QED BY <3>3
  <2>3. CASE ok
    <3>1. /\ journal' = t /\ review' = [review EXCEPT ![p] = WorkerAt(w, "calling", t)]
          /\ calls' = [calls EXCEPT ![r] = @ + 1] /\ inDoubt' = [inDoubt EXCEPT ![r] = w.number]
      BY <2>1, <2>3 DEF Save, WorkerMoves
    <3>. DEFINE v == WorkerAt(w, "calling", t)
    <3>2. /\ v \in ReviewRunning /\ v.pc = "calling" /\ v.state = t /\ v.allow = w.allow
          /\ v.number = w.number /\ v.snapshot = w.snapshot /\ v.todo = w.todo /\ v.failed = w.failed
      <4>1. w \in ReviewRunning /\ t \in ReviewStates
        BY <1>1, <2>2
      <4>. HIDE DEF w, t
      <4>. QED BY <4>1, MovedFields
    <3>3. Ahead(v) = ToSet(Tail(w.todo))
      BY <3>2 DEF Ahead
    <3>4. \A q \in Ahead(v) : inDoubt'[q] = inDoubt[q]
      BY <1>3, <1>4, <3>1, <3>3
    <3>5. w.number \in Nat
      BY <1>1 DEF ReviewRunning
    <3>6. calls' \in [Roles -> Nat] /\ inDoubt' \in [Roles -> Nat] /\ \A q \in Roles : inDoubt'[q] <= runsMade
      BY <1>2, <1>3, <1>4, <3>1, <3>5
    <3>7. t # NoJournal
      BY <2>2, JournalAssumption
    <3>8. \A q \in Ahead(v) : inDoubt'[q] # 0 /\ q \notin t.outputs => w.allow /\ w.number > inDoubt'[q]
      BY <1>2, <1>3, <2>2, <3>3, <3>4
    <3>9. RunInv(v, journal', calls', inDoubt', answered', runsMade)
      <4>1. Knows(t, calls', inDoubt', answered') /\ journal' = t
        BY <1>0, <2>2, <3>1
      <4>2. /\ Head(v.todo) = r /\ v.todo # <<>> /\ Distinct(v.todo) /\ r \notin t.outputs
            /\ v.state.fingerprint = v.snapshot /\ v.number <= runsMade
        BY <1>0, <1>2, <1>6, <2>2, <3>2
      <4>3. ~v.failed => \A q \in Roles : q \in t.outputs \/ q \in ToSet(v.todo)
        BY <1>2, <2>2, <3>2
      <4>. HIDE DEF v, t, r, s, w
      <4>. QED BY <2>2, <3>2, <3>7, <3>8, <4>1, <4>2, <4>3 DEF RunInv
    <3>. QED BY <1>0, <1>1, <2>2, <3>1, <3>2, <3>6, <3>9, StepOfRun
  <2>4. CASE ~ok
    <3>1. /\ journal' \in {journal, t} /\ review' = [review EXCEPT ![p] = WorkerDone(w, t, TRUE)]
          /\ UNCHANGED <<calls, inDoubt>>
      BY <2>1, <2>4 DEF Save, CheckpointFails, WorkerEnds
    <3>2. /\ WorkerDone(w, t, TRUE) \in ReviewRunning /\ journal' # NoJournal
          /\ RunInv(WorkerDone(w, t, TRUE), journal', calls, inDoubt, answered, runsMade)
      <4>1. journal' # NoJournal
        BY <1>1, <2>2, <3>1, JournalAssumption
      <4>2. \A q \in ToSet(Tail(w.todo)) : inDoubt[q] # 0 /\ q \notin t.outputs => w.allow /\ w.number > inDoubt[q]
        BY <1>2, <1>3, <2>2
      <4>3. ~w.failed => \A q \in Roles : q \in t.outputs \/ q \in ToSet(w.todo)
        BY <1>2, <2>2
      <4>4. t.fingerprint = w.snapshot
        BY <1>2, <2>2
      <4>. HIDE DEF t, r, s, w
      <4>. QED BY <1>0, <1>1, <1>2, <2>2, <4>1, <4>2, <4>3, <4>4, EndedRun
    <3>3. journal' \in ReviewStates /\ Knows(journal', calls, inDoubt, answered)
      BY <1>1, <2>2, <3>1
    <3>. QED BY <1>0, <1>1, <1>4, <3>1, <3>2, <3>3, StepOfRun
  <2>. QED BY <2>3, <2>4
<1>. QED BY <1>5, <1>6

\* Recording an outcome, with what is known of the call afterwards.
LEMMA SettleKeeps ==
  ASSUME ReviewInv, NEW p \in ReviewProcs, Working(p, "calling"), NEW status \in Statuses, status # "running",
         SettleAttempt(p, status), UNCHANGED <<stateLock, reviewed, runsMade, calls, reports>>,
         inDoubt' \in [Roles -> Nat], answered \subseteq answered',
         \A q \in Roles : inDoubt'[q] # 0 => inDoubt'[q] = inDoubt[q],
         inDoubt'[WorkingOn(p)] # 0 => status = "interrupted",
         status = "succeeded" => <<WorkingOn(p), review[p].snapshot>> \in answered'
  PROVE  ReviewInv'
<1>. DEFINE w == review[p]
            s == w.state
            r == Head(w.todo)
            t == Settled(s, r, status)
<1>1. /\ w # Idle /\ w \in ReviewRunning /\ RunInv(w, journal, calls, inDoubt, answered, runsMade)
      /\ w.todo \in Seq(Roles) /\ s \in ReviewStates
  BY RunOf
<1>2. /\ journal # NoJournal /\ Knows(s, calls, inDoubt, answered) /\ s.fingerprint = w.snapshot
      /\ w.number <= runsMade /\ Distinct(w.todo)
      /\ \A q \in Ahead(w) : inDoubt[q] # 0 /\ q \notin s.outputs => w.allow /\ w.number > inDoubt[q]
      /\ ~w.failed => \A q \in Roles : q \in s.outputs \/ q \in ToSet(w.todo)
      /\ w.todo # <<>> /\ r \notin s.outputs /\ journal = s
      /\ s.attempts[r] # <<>> /\ s.attempts[r][Len(s.attempts[r])] = "running"
  BY <1>1 DEF RunInv, Working
<1>3. /\ r \in Roles /\ ToSet(w.todo) = {r} \cup ToSet(Tail(w.todo)) /\ r \notin ToSet(Tail(w.todo))
      /\ Ahead(w) = ToSet(Tail(w.todo)) /\ ToSet(Tail(w.todo)) \subseteq Roles
  BY <1>1, <1>2, TailOfTodo DEF Ahead, Working
<1>4. calls \in [Roles -> Nat] /\ \A q \in Roles : inDoubt[q] <= runsMade /\ inDoubt[q] \in Nat
  BY DEF ReviewInv, ReviewTypeOK
<1>5. \A q \in Roles : inDoubt'[q] <= runsMade
  BY <1>4 DEF ReviewInv, ReviewTypeOK
<1>7. Knows(s, calls, inDoubt', answered')
  BY <1>2, KnowsLess
<1>6. /\ t \in ReviewStates /\ Knows(t, calls, inDoubt', answered') /\ t.fingerprint = s.fingerprint
      /\ t.outputs = IF status = "succeeded" THEN s.outputs \cup {r} ELSE s.outputs
  <2>1. /\ inDoubt'[r] # 0 => status = "interrupted"
        /\ status = "succeeded" => <<r, s.fingerprint>> \in answered'
    BY <1>2 DEF WorkingOn
  <2>. HIDE DEF r, s, w
  <2>2. /\ s \in ReviewStates /\ r \in Roles /\ r \notin s.outputs
        /\ s.attempts[r] # <<>> /\ s.attempts[r][Len(s.attempts[r])] = "running"
    BY <1>1, <1>2, <1>3
  <2>. QED BY <1>7, <2>1, <2>2, SettledKnows
<1>8. PICK ok \in BOOLEAN :
        /\ Save(t, ok)
        /\ IF ok /\ TriedAgain(status) THEN WorkerMoves(p, "next", t)
           ELSE WorkerEnds(p, t, ~ok \/ status # "succeeded")
  BY DEF SettleAttempt, WorkingOn
<1>9. journal' \in {s, t}
  BY <1>2, <1>8 DEF Save, CheckpointFails
<1>10. journal' \in ReviewStates /\ journal' # NoJournal /\ Knows(journal', calls', inDoubt', answered')
  BY <1>1, <1>6, <1>7, <1>9, JournalAssumption
<1>11. \A q \in ToSet(Tail(w.todo)) : inDoubt'[q] # 0 /\ q \notin t.outputs => w.allow /\ w.number > inDoubt'[q]
  BY <1>2, <1>3, <1>6
<1>12. ~w.failed => \A q \in Roles : q \in t.outputs \/ q \in ToSet(w.todo)
  BY <1>2, <1>6
<1>13. t.fingerprint = w.snapshot
  BY <1>2, <1>6
<1>14. CASE ok /\ TriedAgain(status)
  <2>. DEFINE v == WorkerAt(w, "next", t)
  <2>1. /\ v \in ReviewRunning /\ v.pc = "next" /\ v.state = t /\ v.allow = w.allow
        /\ v.number = w.number /\ v.snapshot = w.snapshot /\ v.todo = w.todo /\ v.failed = w.failed
    <3>. HIDE DEF t, w
    <3>. QED BY <1>1, <1>6, MovedFields
  <2>2. inDoubt'[r] = 0
    BY <1>14 DEF TriedAgain, WorkingOn
  <2>3. \A q \in Ahead(v) : inDoubt'[q] # 0 /\ q \notin t.outputs => w.allow /\ w.number > inDoubt'[q]
    BY <1>3, <1>11, <2>1, <2>2 DEF Ahead
  <2>4. review' = [review EXCEPT ![p] = v]
    BY <1>8, <1>14 DEF WorkerMoves
  <2>5. RunInv(v, journal', calls', inDoubt', answered', runsMade)
    <3>1. Knows(t, calls', inDoubt', answered')
      BY <1>6
    <3>2. v.state.fingerprint = v.snapshot /\ v.number <= runsMade /\ Distinct(v.todo)
      BY <1>2, <1>13, <2>1
    <3>. HIDE DEF v, t, r, s, w
    <3>. QED BY <1>10, <1>12, <2>1, <2>3, <3>1, <3>2 DEF RunInv
  <2>. QED BY <1>1, <1>4, <1>5, <1>10, <2>1, <2>4, <2>5, StepOfRun
<1>15. CASE ~(ok /\ TriedAgain(status))
  <2>0. PICK bad \in BOOLEAN : bad = (~ok \/ status # "succeeded")
    OBVIOUS
  <2>1. review' = [review EXCEPT ![p] = WorkerDone(w, t, bad)]
    BY <1>8, <1>15, <2>0 DEF WorkerEnds
  <2>2. ~bad => Head(w.todo) \in t.outputs
    BY <1>6, <2>0
  <2>3. WorkerDone(w, t, bad) \in ReviewRunning
        /\ RunInv(WorkerDone(w, t, bad), journal', calls', inDoubt', answered', runsMade)
    <3>1. Knows(t, calls', inDoubt', answered')
      BY <1>6
    <3>. HIDE DEF t, r, s, w
    <3>. QED BY <1>1, <1>2, <1>6, <1>10, <1>11, <1>12, <1>13, <2>2, <3>1, EndedRun
  <2>. QED BY <1>1, <1>4, <1>5, <1>10, <2>1, <2>3, StepOfRun
<1>. QED BY <1>14, <1>15

LEMMA AnswerKeeps ==
  ASSUME ReviewInv, NEW p \in ReviewProcs, NEW response \in Responses, Answer(p, response)
  PROVE  ReviewInv'
<1>. DEFINE w == review[p]
            r == Head(w.todo)
<1>0. /\ Working(p, "calling") /\ UNCHANGED <<stateLock, reviewed, runsMade, calls, reports>>
      /\ inDoubt' = [inDoubt EXCEPT ![r] = IF response.unknown THEN @ ELSE 0]
      /\ answered' = IF StatusOf(response) = "succeeded" THEN answered \cup {<<r, w.snapshot>>} ELSE answered
  BY DEF Answer, WorkingOn
<1>1. /\ w # Idle /\ w \in ReviewRunning /\ RunInv(w, journal, calls, inDoubt, answered, runsMade)
      /\ w.todo \in Seq(Roles) /\ w.state \in ReviewStates
  BY <1>0, RunOf
<1>2. /\ journal # NoJournal /\ Knows(w.state, calls, inDoubt, answered) /\ w.state.fingerprint = w.snapshot
      /\ w.number <= runsMade /\ Distinct(w.todo) /\ w.todo # <<>> /\ journal = w.state
      /\ \A q \in ToSet(Tail(w.todo)) : inDoubt[q] # 0 /\ q \notin w.state.outputs => w.allow /\ w.number > inDoubt[q]
      /\ ~w.failed => \A q \in Roles : q \in w.state.outputs \/ q \in ToSet(w.todo)
  BY <1>0, <1>1 DEF RunInv, Working, Ahead
<1>3. r \in Roles /\ ToSet(Tail(w.todo)) \subseteq Roles
  BY <1>1, <1>2, TailOfTodo
<1>4. inDoubt \in [Roles -> Nat] /\ calls \in [Roles -> Nat] /\ \A q \in Roles : inDoubt[q] <= runsMade
  BY DEF ReviewInv, ReviewTypeOK
<1>5. inDoubt' \in [Roles -> Nat] /\ \A q \in Roles : inDoubt'[q] # 0 => inDoubt'[q] = inDoubt[q]
  BY <1>0, <1>3, <1>4
<1>6. \A q \in Roles : inDoubt'[q] <= runsMade
  BY <1>4, <1>5 DEF ReviewInv, ReviewTypeOK
<1>7. answered \subseteq answered'
  BY <1>0
<1>8. /\ StatusOf(response) \in Statuses /\ StatusOf(response) # "running"
      /\ response.unknown => StatusOf(response) = "interrupted"
  BY KnownOutcome
<1>9. inDoubt'[r] # 0 => StatusOf(response) = "interrupted"
  BY <1>0, <1>3, <1>4, <1>8
<1>10. CASE CheckpointFails(w.state) /\ WorkerEnds(p, w.state, TRUE)
  <2>1. journal' = w.state /\ review' = [review EXCEPT ![p] = WorkerDone(w, w.state, TRUE)]
    BY <1>2, <1>10 DEF CheckpointFails, WorkerEnds
  <2>2. Knows(w.state, calls, inDoubt', answered')
    BY <1>2, <1>5, <1>7, KnowsLess
  <2>3. /\ WorkerDone(w, w.state, TRUE) \in ReviewRunning
        /\ RunInv(WorkerDone(w, w.state, TRUE), journal', calls', inDoubt', answered', runsMade)
    <3>1. \A q \in ToSet(Tail(w.todo)) : inDoubt'[q] # 0 /\ q \notin w.state.outputs
          => w.allow /\ w.number > inDoubt'[q]
      BY <1>2, <1>3, <1>5
    <3>2. journal' # NoJournal /\ Knows(w.state, calls', inDoubt', answered')
      BY <1>0, <1>2, <2>1, <2>2
    <3>. HIDE DEF r, w
    <3>. QED BY <1>1, <1>2, <3>1, <3>2, EndedRun
  <2>4. journal' \in ReviewStates /\ Knows(journal', calls', inDoubt', answered') /\ calls' \in [Roles -> Nat]
    BY <1>0, <1>1, <1>4, <2>1, <2>2
  <2>. QED BY <1>0, <1>1, <1>5, <1>6, <1>7, <2>1, <2>3, <2>4, StepOfRun
<1>11. CASE SettleAttempt(p, StatusOf(response))
  <2>1. StatusOf(response) = "succeeded" => <<WorkingOn(p), review[p].snapshot>> \in answered'
    BY <1>0 DEF WorkingOn
  <2>2. inDoubt'[WorkingOn(p)] # 0 => StatusOf(response) = "interrupted"
    BY <1>9 DEF WorkingOn
  <2>. QED BY <1>0, <1>5, <1>7, <1>8, <1>11, <2>1, <2>2, SettleKeeps
<1>. QED BY <1>10, <1>11 DEF Answer

LEMMA ProviderDeadlineKeeps ==
  ASSUME ReviewInv, NEW p \in ReviewProcs, ProviderDeadline(p)
  PROVE  ReviewInv'
<1>1. /\ Working(p, "calling") /\ SettleAttempt(p, "interrupted")
      /\ UNCHANGED <<stateLock, reviewed, runsMade, calls, reports, inDoubt, answered>>
  BY DEF ProviderDeadline
<1>2. inDoubt' \in [Roles -> Nat]
  BY <1>1 DEF ReviewInv, ReviewTypeOK
<1>3. "interrupted" \in Statuses /\ "interrupted" # "running" /\ "interrupted" # "succeeded"
  BY DEF Statuses
<1>. QED BY <1>1, <1>2, <1>3, SettleKeeps

\* A run ends and gives the lock back; what it leaves behind is the journal.
LEMMA ReturnKeeps ==
  ASSUME ReviewInv, NEW p \in ReviewProcs, Returned(p), stateLock \in {p, Free},
         UNCHANGED <<reviewed, calls, inDoubt, answered>>, runsMade' \in {runsMade, runsMade + 1},
         journal' \in ReviewStates \cup {NoJournal}, JournalInv', ReportHonest'
  PROVE  ReviewInv'
<1>1. review \in [ReviewProcs -> ReviewRunning \cup {Idle}] /\ runsMade \in Nat
  BY DEF ReviewInv, ReviewTypeOK
<1>2. \A q \in ReviewProcs : review[q] # Idle => q = p
  BY ReviewAssumption DEF ReviewInv, LockInv
<1>3. \A q \in ReviewProcs : review'[q] = Idle
  BY <1>1, <1>2 DEF Returned
<1>4. ReviewTypeOK'
  BY <1>1 DEF Returned, ReviewInv, ReviewTypeOK
<1>5. LockInv' /\ RunsInv'
  BY <1>3 DEF LockInv, RunsInv
<1>6. \A q \in Roles : inDoubt'[q] <= runsMade'
  <2>1. \A q \in Roles : inDoubt[q] \in Nat /\ inDoubt[q] <= runsMade
    BY DEF ReviewInv, ReviewTypeOK
  <2>. QED BY <1>1, <2>1
<1>. QED BY <1>4, <1>5, <1>6 DEF ReviewInv

LEMMA FinishReviewKeeps ==
  ASSUME ReviewInv, NEW p \in ReviewProcs, FinishReview(p)
  PROVE  ReviewInv'
<1>. DEFINE w == review[p]
<1>0. /\ Working(p, "next") /\ w.todo = <<>> /\ Returned(p)
      /\ UNCHANGED <<journal, reviewed, runsMade, calls, inDoubt, answered>>
  BY DEF FinishReview
<1>1. /\ w # Idle /\ w.state \in ReviewStates
      /\ RunInv(w, journal, calls, inDoubt, answered, runsMade)
  BY <1>0, RunOf
<1>2. stateLock = p
  BY <1>1 DEF ReviewInv, LockInv
<1>3. Knows(w.state, calls, inDoubt, answered) /\ w.state.fingerprint = w.snapshot
  BY <1>1 DEF RunInv
<1>4. ~w.failed => \A r \in Roles : r \in w.state.outputs
  BY <1>0, <1>1 DEF RunInv, ToSet
<1>5. ~w.failed => \A r \in Roles : <<r, w.snapshot>> \in answered /\ Succeeded(w.state, r) = 1
  BY <1>3, <1>4 DEF Knows, Consistent
<1>6. ReportHonest'
  <2>1. ReportHonest
    BY DEF ReviewInv
  <2>2. CASE reports' = reports
    BY <1>0, <2>1, <2>2 DEF ReportHonest
  <2>3. CASE ~w.failed /\ UnchangedSince(p)
    <3>1. reports' = reports \cup {[of |-> w.snapshot, now |-> reviewed, state |-> w.state]}
      BY <2>3 DEF FinishReview
    <3>2. reviewed = w.snapshot
      BY <2>3 DEF UnchangedSince
    <3>. QED BY <1>0, <1>5, <2>1, <2>3, <3>1, <3>2 DEF ReportHonest
  <2>. QED BY <2>2, <2>3 DEF FinishReview
<1>7. JournalInv' /\ journal' \in ReviewStates \cup {NoJournal}
  BY <1>0 DEF ReviewInv, JournalInv, ReviewTypeOK
<1>. QED BY <1>0, <1>2, <1>6, <1>7, ReturnKeeps

LEMMA ReviewCrashKeeps ==
  ASSUME ReviewInv, NEW p \in ReviewProcs, ReviewCrash(p)
  PROVE  ReviewInv'
<1>1. /\ review[p] # Idle /\ Returned(p)
      /\ UNCHANGED <<journal, reviewed, runsMade, calls, inDoubt, answered, reports>>
  BY DEF ReviewCrash
<1>2. stateLock = p
  BY <1>1 DEF ReviewInv, LockInv
<1>3. JournalInv' /\ journal' \in ReviewStates \cup {NoJournal}
  BY <1>1 DEF ReviewInv, JournalInv, ReviewTypeOK
<1>4. ReportHonest'
  BY <1>1 DEF ReviewInv, ReportHonest
<1>. QED BY <1>1, <1>2, <1>3, <1>4, ReturnKeeps

LEMMA EditKeeps ==
  ASSUME ReviewInv, Edit
  PROVE  ReviewInv'
<1>1. UNCHANGED <<journal, stateLock, review, runsMade, calls, inDoubt, answered, reports>> /\ reviewed' \in Nat
  BY DEF Edit
<1>2. ReviewTypeOK' /\ LockInv'
  BY <1>1 DEF ReviewInv, ReviewTypeOK, LockInv
<1>3. JournalInv' /\ RunsInv'
  BY <1>1 DEF ReviewInv, JournalInv, RunsInv
<1>4. ReportHonest'
  BY <1>1 DEF ReviewInv, ReportHonest
<1>. QED BY <1>1, <1>2, <1>3, <1>4 DEF ReviewInv

LEMMA RunReviewKeeps ==
  ASSUME ReviewInv, NEW p \in ReviewProcs, NEW allow \in BOOLEAN, RunReview(p, allow)
  PROVE  ReviewInv'
<1>. DEFINE loaded == IF journal = NoJournal THEN FreshState(reviewed) ELSE journal
            s == Recovered(loaded)
<1>0. /\ review[p] = Idle /\ stateLock = Free /\ runsMade' = runsMade + 1
      /\ loaded.fingerprint = reviewed
      /\ UNCHANGED <<reviewed, calls, inDoubt, answered>>
  BY DEF RunReview, LockFree, SameFingerprint
<1>1. /\ reviewed \in Nat /\ runsMade \in Nat /\ review \in [ReviewProcs -> ReviewRunning \cup {Idle}]
      /\ calls \in [Roles -> Nat] /\ inDoubt \in [Roles -> Nat]
  BY DEF ReviewInv, ReviewTypeOK
<1>2. loaded \in ReviewStates /\ Knows(loaded, calls, inDoubt, answered)
  <2>1. CASE journal = NoJournal
    <3>1. \A r \in Roles : calls[r] = 0 /\ inDoubt[r] = 0
      BY <2>1 DEF ReviewInv, JournalInv
    <3>. QED BY <1>1, <2>1, <3>1, FreshKnows
  <2>2. CASE journal # NoJournal
    BY <2>2 DEF ReviewInv, JournalInv, ReviewTypeOK
  <2>. QED BY <2>1, <2>2
<1>3. /\ s \in ReviewStates /\ Knows(s, calls, inDoubt, answered) /\ s.fingerprint = reviewed
      /\ \A r \in Roles \ s.outputs : inDoubt[r] # 0 => "interrupted" \in ToSet(s.attempts[r])
  <2>. HIDE DEF loaded
  <2>. QED BY <1>0, <1>2, RecoveredKnows
<1>4. PICK ok \in BOOLEAN :
        /\ Save(s, ok)
        /\ IF ~ok \/ (~allow /\ OutcomeUnknown(s)) \/ reviewed = 0
           THEN /\ Returned(p)
                /\ reports' = IF ok /\ reviewed = 0 /\ (allow \/ ~OutcomeUnknown(s))
                              THEN reports \cup {[of |-> reviewed, now |-> reviewed, state |-> s]}
                              ELSE reports
           ELSE /\ stateLock' = p
                /\ review' = [review EXCEPT ![p] =
                     [pc |-> "next", allow |-> allow, number |-> runsMade',
                      snapshot |-> reviewed, state |-> s, todo |-> RoleOrder, failed |-> FALSE]]
                /\ UNCHANGED reports
  BY DEF RunReview
<1>5. journal' \in {journal, s} /\ (ok => journal' = s)
  BY <1>4 DEF Save, CheckpointFails
<1>6. JournalInv' /\ journal' \in ReviewStates \cup {NoJournal}
  <2>1. CASE journal' = s
    BY <1>0, <1>3, <2>1, JournalAssumption DEF JournalInv
  <2>2. CASE journal' = journal
    BY <1>0, <2>2 DEF ReviewInv, JournalInv, ReviewTypeOK
  <2>. QED BY <1>5, <2>1, <2>2
<1>7. CASE ~ok \/ (~allow /\ OutcomeUnknown(s)) \/ reviewed = 0
  <2>1. /\ Returned(p)
        /\ \/ reports' = reports
           \/ reviewed = 0 /\ reports' = reports \cup {[of |-> reviewed, now |-> reviewed, state |-> s]}
    BY <1>4, <1>7
  <2>2. ReportHonest
    BY DEF ReviewInv
  <2>3. ReportHonest'
    BY <1>0, <2>1, <2>2 DEF ReportHonest
  <2>. QED BY <1>0, <1>6, <2>1, <2>3, ReturnKeeps
<1>8. CASE ~(~ok \/ (~allow /\ OutcomeUnknown(s)) \/ reviewed = 0)
  <2>. DEFINE w == [pc |-> "next", allow |-> allow, number |-> runsMade',
                    snapshot |-> reviewed, state |-> s, todo |-> RoleOrder, failed |-> FALSE]
  <2>1. /\ stateLock' = p /\ review' = [review EXCEPT ![p] = w] /\ UNCHANGED reports
        /\ ok /\ (allow \/ ~OutcomeUnknown(s))
    BY <1>4, <1>8
  <2>2. RoleOrder \in Seq(Roles) /\ Distinct(RoleOrder) /\ ToSet(RoleOrder) = Roles
    BY ReviewAssumption DEF Roles, Distinct
  <2>3. w \in ReviewRunning
    BY <1>0, <1>1, <1>3, <2>2 DEF ReviewRunning
  <2>4. \A q \in ReviewProcs : q # p => review'[q] = Idle
    BY <1>0, <1>1, <2>1, ReviewAssumption DEF ReviewInv, LockInv
  <2>5. review'[p] = w
    BY <1>1, <2>1
  <2>6. \A r \in Roles : inDoubt[r] <= runsMade /\ inDoubt[r] \in Nat
    BY <1>1 DEF ReviewInv
  <2>7. \A r \in Roles : inDoubt[r] # 0 /\ r \notin s.outputs => allow /\ runsMade + 1 > inDoubt[r]
    <3>1. \A r \in Roles : inDoubt[r] # 0 /\ r \notin s.outputs => OutcomeUnknown(s)
      BY <1>3 DEF OutcomeUnknown
    <3>. QED BY <1>1, <2>1, <2>6, <3>1
  <2>8. RunInv(w, journal', calls', inDoubt', answered', runsMade')
    <3>1. /\ w.pc = "next" /\ w.allow = allow /\ w.number = runsMade + 1 /\ w.snapshot = reviewed
          /\ w.state = s /\ w.todo = RoleOrder /\ w.failed = FALSE
      BY <1>0
    <3>2. journal' # NoJournal /\ Knows(s, calls', inDoubt', answered')
      BY <1>0, <1>3, <1>5, <2>1, JournalAssumption
    <3>3. Ahead(w) = Roles
      BY <2>2 DEF Ahead
    <3>4. \A r \in Ahead(w) : inDoubt'[r] # 0 /\ r \notin s.outputs => allow /\ w.number > inDoubt'[r]
      BY <1>0, <2>7, <3>1, <3>3
    <3>5. w.number <= runsMade'
      BY <1>0, <1>1, <3>1
    <3>. HIDE DEF w, s, loaded
    <3>. QED BY <1>3, <2>2, <3>1, <3>2, <3>4, <3>5 DEF RunInv
  <2>9. ReviewTypeOK'
    <3>1. review' \in [ReviewProcs -> ReviewRunning \cup {Idle}]
      BY <1>1, <2>1, <2>3
    <3>. HIDE DEF w
    <3>. QED BY <1>0, <1>1, <1>6, <2>1, <3>1 DEF ReviewTypeOK
  <2>10. LockInv' /\ RunsInv'
    <3>. HIDE DEF w
    <3>1. LockInv'
      BY <2>1, <2>4 DEF LockInv
    <3>2. RunsInv'
      BY <2>4, <2>5, <2>8 DEF RunsInv
    <3>. QED BY <3>1, <3>2
  <2>11. ReportHonest'
    BY <1>0, <2>1 DEF ReviewInv, ReportHonest
  <2>12. \A r \in Roles : inDoubt'[r] <= runsMade'
    BY <1>0, <1>1, <2>6
  <2>. QED BY <1>6, <2>9, <2>10, <2>11, <2>12 DEF ReviewInv
<1>. QED BY <1>7, <1>8

LEMMA ReviewStart ==
  ASSUME ReviewInit
  PROVE  ReviewInv
<1>1. ReviewTypeOK /\ LockInv
  BY ReviewAssumption DEF ReviewInit, ReviewTypeOK, LockInv
<1>2. JournalInv /\ RunsInv /\ ReportHonest
  BY DEF ReviewInit, JournalInv, RunsInv, ReportHonest
<1>. QED BY <1>1, <1>2 DEF ReviewInit, ReviewInv

LEMMA ReviewStep ==
  ASSUME ReviewInv, [ReviewNext]_reviewVars
  PROVE  ReviewInv'
<1>1. CASE UNCHANGED reviewVars
  <2>1. UNCHANGED <<journal, stateLock, reviewed, review, runsMade, calls, inDoubt, answered, reports>>
    BY <1>1 DEF reviewVars
  <2>2. ReviewTypeOK' /\ LockInv'
    BY <2>1 DEF ReviewInv, ReviewTypeOK, LockInv
  <2>3. JournalInv' /\ RunsInv' /\ ReportHonest'
    BY <2>1 DEF ReviewInv, JournalInv, RunsInv, ReportHonest
  <2>. QED BY <2>1, <2>2, <2>3 DEF ReviewInv
<1>. QED BY <1>1, RunReviewKeeps, NextAttemptKeeps, AnswerKeeps, ProviderDeadlineKeeps, FinishReviewKeeps,
        ReviewCrashKeeps, EditKeeps DEF ReviewNext

LEMMA InvDisciplines ==
  ASSUME ReviewInv
  PROVE  BudgetHonoured /\ ReportHonest /\ JournalLoads
<1>1. JournalLoads
  BY DEF ReviewInv, JournalInv, JournalLoads, Knows
<1>2. BudgetHonoured
  <2>. SUFFICES ASSUME NEW r \in Roles
                PROVE  /\ calls[r] <= MaxRetries + 1
                       /\ calls[r] > 0 => journal # NoJournal /\ calls[r] <= Len(journal.attempts[r])
    BY DEF BudgetHonoured
  <2>1. calls[r] \in Nat
    BY DEF ReviewInv, ReviewTypeOK
  <2>2. CASE journal = NoJournal
    BY <2>1, <2>2, ReviewAssumption DEF ReviewInv, JournalInv
  <2>3. CASE journal # NoJournal
    <3>1. calls[r] <= Len(journal.attempts[r]) /\ Len(journal.attempts[r]) <= MaxRetries + 1
      BY <2>3 DEF ReviewInv, JournalInv, Knows, Consistent
    <3>2. journal.attempts[r] \in Seq(Statuses)
      BY <2>3 DEF ReviewInv, ReviewTypeOK, ReviewStates
    <3>3. Len(journal.attempts[r]) \in Nat
      BY <3>2
    <3>. QED BY <2>1, <2>3, <3>1, <3>3, ReviewAssumption
  <2>. QED BY <2>2, <2>3
<1>. QED BY <1>1, <1>2 DEF ReviewInv

\* Only NextAttempt begins a call, and only one the run may begin.
LEMMA CallsAreAllowed ==
  ASSUME ReviewInv, ReviewNext, NEW r \in Roles, calls'[r] > calls[r], inDoubt[r] # 0
  PROVE  \E p \in ReviewProcs :
           /\ review'[p].pc = "calling" /\ review[p].pc = "next"
           /\ review[p].allow /\ review[p].number > inDoubt[r]
<1>0. calls \in [Roles -> Nat] /\ review \in [ReviewProcs -> ReviewRunning \cup {Idle}]
  BY DEF ReviewInv, ReviewTypeOK
<1>1. calls' # calls
  BY <1>0
<1>2. PICK p \in ReviewProcs : NextAttempt(p)
  BY <1>1 DEF ReviewNext, RunReview, Answer, ProviderDeadline, FinishReview, ReviewCrash, Edit
<1>. DEFINE w == review[p]
<1>3. Working(p, "next") /\ w.todo # <<>>
  BY <1>2 DEF NextAttempt
<1>4. /\ w \in ReviewRunning /\ w.todo \in Seq(Roles) /\ w.state \in ReviewStates
      /\ RunInv(w, journal, calls, inDoubt, answered, runsMade)
  BY <1>3, RunOf
<1>5. /\ Head(w.todo) \notin w.state.outputs
      /\ calls' = [calls EXCEPT ![Head(w.todo)] = @ + 1]
      /\ review' = [review EXCEPT ![p] = WorkerAt(w, "calling", Pushed(w.state, Head(w.todo)))]
  BY <1>1, <1>2 DEF NextAttempt, WorkingOn, WorkerMoves
<1>6. r = Head(w.todo)
  BY <1>0, <1>5
<1>7. Head(w.todo) \in Ahead(w)
  <2>1. Distinct(w.todo)
    BY <1>4 DEF RunInv
  <2>2. Head(w.todo) \in ToSet(w.todo)
    BY <1>3, <1>4, <2>1, TailOfTodo
  <2>. QED BY <1>3, <2>2 DEF Ahead, Working
<1>8. w.allow /\ w.number > inDoubt[r]
  BY <1>4, <1>5, <1>6, <1>7 DEF RunInv
<1>9. review'[p].pc = "calling"
  BY <1>0, <1>4, <1>5 DEF WorkerAt, ReviewRunning
<1>. QED BY <1>3, <1>8, <1>9 DEF Working

\* However runs crash, fail to save, run out of time or overlap with edits: the
\* provider is called within the budget of the journal, a role in doubt only by
\* a run that allows it, and what is reported was answered (run_review).
THEOREM ReviewsStayDisciplined == ReviewSpec => ReviewDisciplined
<1>1. ReviewInit => ReviewInv
  BY ReviewStart
<1>2. ReviewInv /\ [ReviewNext]_reviewVars => ReviewInv'
  BY ReviewStep
<1>3. ReviewInv => BudgetHonoured /\ ReportHonest /\ JournalLoads
  BY InvDisciplines
<1>. DEFINE Asked ==
       \A r \in Roles : calls'[r] > calls[r] /\ inDoubt[r] # 0 =>
         \E p \in ReviewProcs :
           /\ review'[p].pc = "calling" /\ review[p].pc = "next"
           /\ review[p].allow /\ review[p].number > inDoubt[r]
<1>4. ReviewInv /\ [ReviewNext]_reviewVars => [Asked]_reviewVars
  BY CallsAreAllowed
<1>. QED BY <1>1, <1>2, <1>3, <1>4, PTL DEF ReviewSpec, ReviewDisciplined, NoSilentRetry

(***************************************************************************)
(* The memory stores: what a walk has seen, and what is on disk.           *)
(***************************************************************************)
WriteSet == MemoryKeys \X (Labels \cup {Gone})
Views == UNION {[D -> Labels \cup {Gone}] : D \in SUBSET MemoryKeys}
StoreCalls ==
  [op : {"none", "update", "scan", "done", "flush"}, id : MemoryKeys \cup {0}, label : Labels \cup {Gone, All},
   at : Nat, limit : Nat, got : SUBSET (MemoryKeys \X (Labels \cup {Gone})), from : Views, mark : Nat]

BackendTypeOK ==
  /\ backend \in Backends
  /\ held \in Views /\ writeLog \in Seq(WriteSet) /\ durable \in Nat /\ promised \in Seq(WriteSet)
  /\ storeCall \in [StoreClients -> StoreCalls]
  /\ DOMAIN during = StoreClients

MatchesOf(q, ps) == {x \in ps : MatchesLabel(q, x[2])}

\* The entries walk s, seeing the view, has to find among those seen.
WalkInv(s, seen, view) ==
  /\ IsFiniteSet(s.got) /\ Cardinality(s.got) <= s.limit
  /\ s.got \subseteq MatchesOf(s.label, seen.ever)
  /\ \A x \in MatchesOf(s.label, seen.steady) : x[1] <= s.at => x \in s.got
  /\ seen.steady \subseteq Pairs(view) /\ Pairs(view) \subseteq seen.ever

ViewOf(c) == IF backend = "rocks" THEN storeCall[c].from ELSE held

WalksInv == \A c \in StoreClients : storeCall[c].op = "scan" => WalkInv(storeCall[c], during[c], ViewOf(c))

UpdatesInv ==
  \A c \in StoreClients : storeCall[c].op = "update" => storeCall[c].id \in MemoryKeys /\ storeCall[c].label \in Labels

\* What is promised is on disk; a flush under way fences writes that are there.
LogInv ==
  /\ held = Replayed(writeLog)
  /\ durable <= Len(writeLog) /\ Len(promised) <= durable
  /\ \A k \in 1 .. Len(promised) : promised[k] = writeLog[k]
  /\ backend # "sled" => promised = <<>>
  /\ \A c \in StoreClients : storeCall[c].op = "flush" => backend = "sled" /\ storeCall[c].mark <= Len(writeLog)

BackendInv == BackendTypeOK /\ WalksInv /\ UpdatesInv /\ LogInv /\ ScansComplete

LEMMA LeastKey ==
  ASSUME NEW T, T \subseteq Nat, T # {}
  PROVE  Min(T) \in T /\ \A y \in T : Min(T) <= y
<1>. DEFINE R == OpToRel(<, Nat)
<1>1. IsWellFoundedOn(R, Nat)
  BY NatLessThanWellFounded
<1>2. \A a, b \in Nat : <<a, b>> \in R <=> a < b
  BY Zenon DEF OpToRel
<1>. HIDE DEF R
<1>3. PICK x \in T : \A y \in T : ~ (<<y, x>> \in R)
  BY <1>1, WFMin
<1>4. \A y \in T : ~(y < x)
  BY <1>2, <1>3
<1>5. \E z \in T : \A y \in T : z <= y
  BY <1>4
<1>. QED BY <1>5, Zenon DEF Min

LEMMA StandingOnce ==
  ASSUME NEW ws \in Seq(WriteSet), NEW k \in Standing(ws)
  PROVE  /\ \A j \in Standing(ws) : ws[j][1] = ws[k][1] => j = k
         /\ ws[k][1] \in DOMAIN Replayed(ws) /\ Replayed(ws)[ws[k][1]] = ws[k][2]
<1>1. \A j \in Standing(ws) : ws[j][1] = ws[k][1] => j = k
  BY DEF Standing
<1>2. (CHOOSE j \in Standing(ws) : ws[j][1] = ws[k][1]) = k
  BY <1>1
<1>3. ws[k][1] \in DOMAIN Replayed(ws)
  BY DEF Replayed
<1>4. Replayed(ws)[ws[k][1]] = ws[CHOOSE j \in Standing(ws) : ws[j][1] = ws[k][1]][2]
  BY DEF Replayed
<1>. QED BY <1>1, <1>2, <1>3, <1>4

\* A write at the end of the log does to its replay what it does to the store.
LEMMA ReplayStep ==
  ASSUME NEW ws \in Seq(WriteSet), NEW w \in WriteSet
  PROVE  Replayed(Append(ws, w)) = AfterWrite(Replayed(ws), w)
<1>. DEFINE xs == Append(ws, w)
            n == Len(ws)
<1>1. /\ xs \in Seq(WriteSet) /\ n \in Nat /\ DOMAIN xs = 1 .. n + 1 /\ DOMAIN ws = 1 .. n
      /\ xs[n + 1] = w /\ \A k \in 1 .. n : xs[k] = ws[k]
  OBVIOUS
<1>. HIDE DEF xs, n
<1>2. \A k \in 1 .. n : k \in Standing(xs) <=> k \in Standing(ws) /\ ws[k][1] # w[1]
  <2>. TAKE k \in 1 .. n
  <2>1. k \in Standing(ws) <=> ws[k][2] # Gone /\ \A j \in 1 .. n : j > k => ws[j][1] # ws[k][1]
    BY <1>1 DEF Standing
  <2>2. k \in Standing(xs) <=> xs[k][2] # Gone /\ \A j \in 1 .. n + 1 : j > k => xs[j][1] # xs[k][1]
    BY <1>1 DEF Standing
  <2>3. ASSUME k \in Standing(xs)
        PROVE  k \in Standing(ws) /\ ws[k][1] # w[1]
    <3>1. \A j \in 1 .. n : j \in 1 .. n + 1
      BY <1>1
    <3>2. n + 1 \in 1 .. n + 1 /\ n + 1 > k
      BY <1>1
    <3>. QED BY <1>1, <2>1, <2>2, <2>3, <3>1, <3>2
  <2>4. ASSUME k \in Standing(ws), ws[k][1] # w[1]
        PROVE  k \in Standing(xs)
    <3>1. \A j \in 1 .. n + 1 : j \in 1 .. n \/ j = n + 1
      BY <1>1
    <3>. QED BY <1>1, <2>1, <2>2, <2>4, <3>1
  <2>. QED BY <2>3, <2>4
<1>3. n + 1 \in Standing(xs) <=> w[2] # Gone
  BY <1>1 DEF Standing
<1>4. Standing(xs) \subseteq 1 .. n + 1 /\ Standing(ws) \subseteq 1 .. n
  BY <1>1 DEF Standing
<1>. DEFINE old == Replayed(ws)
<1>5. \A i : i \in DOMAIN Replayed(xs) <=> \E k \in Standing(xs) : xs[k][1] = i
  BY DEF Replayed
<1>6. \A i : i \in DOMAIN old <=> \E k \in Standing(ws) : ws[k][1] = i
  BY DEF Replayed
<1>7. \A i : i # w[1] => (i \in DOMAIN Replayed(xs) <=> i \in DOMAIN old)
  <2>. TAKE i
  <2>. HAVE i # w[1]
  <2>1. ASSUME NEW k \in Standing(xs), xs[k][1] = i PROVE k \in Standing(ws) /\ ws[k][1] = i
    <3>1. k # n + 1
      BY <1>1, <2>1
    <3>2. k \in 1 .. n
      BY <1>1, <1>4, <3>1
    <3>. QED BY <1>1, <1>2, <2>1, <3>2
  <2>2. ASSUME NEW k \in Standing(ws), ws[k][1] = i PROVE k \in Standing(xs) /\ xs[k][1] = i
    BY <1>1, <1>2, <1>4, <2>2
  <2>. QED BY <1>5, <1>6, <2>1, <2>2
<1>8. w[1] \in DOMAIN Replayed(xs) <=> w[2] # Gone
  <2>1. ASSUME NEW k \in Standing(xs), xs[k][1] = w[1] PROVE k = n + 1
    <3>1. ~(k \in 1 .. n)
      BY <1>1, <1>2, <2>1
    <3>. QED BY <1>1, <1>4, <3>1
  <2>2. w[1] \in DOMAIN Replayed(xs) => n + 1 \in Standing(xs)
    BY <1>5, <2>1
  <2>3. n + 1 \in Standing(xs) => w[1] \in DOMAIN Replayed(xs)
    BY <1>1, <1>5
  <2>. QED BY <1>3, <2>2, <2>3
<1>9. \A i \in DOMAIN Replayed(xs) : i # w[1] => Replayed(xs)[i] = old[i]
  <2>. TAKE i \in DOMAIN Replayed(xs)
  <2>. HAVE i # w[1]
  <2>1. PICK k \in Standing(xs) : xs[k][1] = i
    BY <1>5
  <2>2. k \in 1 .. n
    <3>1. k # n + 1
      BY <1>1, <2>1
    <3>. QED BY <1>1, <1>4, <3>1
  <2>3. k \in Standing(ws) /\ ws[k] = xs[k]
    BY <1>1, <1>2, <2>1, <2>2
  <2>4. Replayed(xs)[i] = xs[k][2]
    BY <1>1, <2>1, StandingOnce
  <2>5. old[i] = ws[k][2]
    BY <2>1, <2>3, StandingOnce
  <2>. QED BY <2>3, <2>4, <2>5
<1>10. w[2] # Gone => Replayed(xs)[w[1]] = w[2]
  <2>. HAVE w[2] # Gone
  <2>1. n + 1 \in Standing(xs)
    BY <1>3
  <2>2. Replayed(xs)[xs[n + 1][1]] = xs[n + 1][2]
    BY <1>1, <2>1, StandingOnce
  <2>. QED BY <1>1, <2>2
<1>11. Replayed(xs) = [i \in DOMAIN Replayed(xs) |-> Replayed(xs)[i]]
  BY DEF Replayed
<1>. HIDE DEF old
<1>12. CASE w[2] = Gone
  <2>1. AfterWrite(old, w) = [z \in DOMAIN old \ {w[1]} |-> old[z]]
    BY <1>12 DEF AfterWrite, Drop
  <2>2. DOMAIN Replayed(xs) = DOMAIN old \ {w[1]}
    BY <1>7, <1>8, <1>12
  <2>3. Replayed(xs) = AfterWrite(old, w)
    BY <1>9, <1>11, <2>1, <2>2
  <2>. QED BY <2>3 DEF xs, old
<1>13. CASE w[2] # Gone
  <2>1. AfterWrite(old, w) = [z \in DOMAIN old \cup {w[1]} |-> IF z = w[1] THEN w[2] ELSE old[z]]
    BY <1>13 DEF AfterWrite, Put
  <2>2. DOMAIN Replayed(xs) = DOMAIN old \cup {w[1]}
    BY <1>7, <1>8, <1>13
  <2>3. Replayed(xs) = AfterWrite(old, w)
    BY <1>9, <1>10, <1>11, <1>13, <2>1, <2>2
  <2>. QED BY <2>3 DEF xs, old
<1>. QED BY <1>12, <1>13

LEMMA ViewKeys ==
  ASSUME NEW v \in Views
  PROVE  /\ DOMAIN v \subseteq MemoryKeys /\ DOMAIN v \subseteq Nat
         /\ \A i \in DOMAIN v : v[i] \in Labels \cup {Gone}
<1>1. PICK D \in SUBSET MemoryKeys : v \in [D -> Labels \cup {Gone}]
  BY DEF Views
<1>. QED BY <1>1, BackendAssumption

LEMMA ViewTyped ==
  ASSUME NEW v \in Views, NEW w \in WriteSet
  PROVE  AfterWrite(v, w) \in Views
<1>1. PICK D \in SUBSET MemoryKeys : v \in [D -> Labels \cup {Gone}]
  BY DEF Views
<1>2. w[1] \in MemoryKeys /\ w[2] \in Labels \cup {Gone}
  BY DEF WriteSet
<1>3. Drop(v, w[1]) \in [D \ {w[1]} -> Labels \cup {Gone}]
  BY <1>1 DEF Drop
<1>4. Put(v, w[1], w[2]) \in [D \cup {w[1]} -> Labels \cup {Gone}]
  BY <1>1, <1>2 DEF Put
<1>5. D \ {w[1]} \in SUBSET MemoryKeys /\ D \cup {w[1]} \in SUBSET MemoryKeys
  BY <1>2
<1>6. AfterWrite(v, w) \in Views
  BY <1>3, <1>4, <1>5 DEF AfterWrite, Views
<1>. QED BY <1>1, <1>6

LEMMA ReplayTyped ==
  ASSUME NEW ws \in Seq(WriteSet)
  PROVE  Replayed(ws) \in Views
<1>1. \A k \in DOMAIN ws : ws[k] \in WriteSet
  OBVIOUS
<1>2. \A k \in Standing(ws) : ws[k][1] \in MemoryKeys /\ ws[k][2] \in Labels \cup {Gone}
  BY <1>1 DEF Standing, WriteSet
<1>. DEFINE D == {ws[k][1] : k \in Standing(ws)}
<1>3. D \in SUBSET MemoryKeys
  BY <1>2
<1>4. \A i \in D : ws[CHOOSE k \in Standing(ws) : ws[k][1] = i][2] \in Labels \cup {Gone}
  <2>. TAKE i \in D
  <2>1. \E k \in Standing(ws) : ws[k][1] = i
    OBVIOUS
  <2>2. (CHOOSE k \in Standing(ws) : ws[k][1] = i) \in Standing(ws)
    BY <2>1
  <2>. QED BY <1>2, <2>2
<1>5. Replayed(ws) \in [D -> Labels \cup {Gone}]
  BY <1>4 DEF Replayed
<1>. QED BY <1>3, <1>5 DEF Views

LEMMA NoCallTyped == NoCall \in StoreCalls /\ EmptyMap \in Views
<1>1. EmptyMap \in [{} -> Labels \cup {Gone}]
  BY DEF EmptyMap
<1>2. EmptyMap \in Views
  BY <1>1 DEF Views
<1>. QED BY <1>2 DEF NoCall, StoreCalls

\* One write beside any walks; the call that made it, if any, has ended.
LEMMA WritesKeep ==
  ASSUME BackendInv, NEW w \in WriteSet, Writes(w),
         storeCall' \in [StoreClients -> StoreCalls],
         \A c \in StoreClients : storeCall'[c] = storeCall[c] \/ storeCall'[c] = NoCall
  PROVE  BackendInv'
<1>0. /\ held' = AfterWrite(held, w) /\ writeLog' = Append(writeLog, w)
      /\ during' = [c \in StoreClients |->
           IF storeCall[c].op # "scan" THEN during[c]
           ELSE [steady |-> during[c].steady \cap Pairs(held'), ever |-> during[c].ever \cup Pairs(held')]]
      /\ UNCHANGED <<backend, durable, promised, restarts>>
  BY DEF Writes
<1>1. /\ held \in Views /\ writeLog \in Seq(WriteSet) /\ durable \in Nat /\ promised \in Seq(WriteSet)
      /\ backend \in Backends
  BY DEF BackendInv, BackendTypeOK
<1>2. NoCall.op = "none"
  BY DEF NoCall
<1>3. BackendTypeOK'
  <2>1. held' \in Views
    BY <1>0, <1>1, ViewTyped
  <2>2. writeLog' \in Seq(WriteSet)
    BY <1>0, <1>1
  <2>. QED BY <1>0, <1>1, <2>1, <2>2 DEF BackendTypeOK
<1>4. WalksInv'
  <2>. SUFFICES ASSUME NEW c \in StoreClients, storeCall'[c].op = "scan"
                PROVE  WalkInv(storeCall'[c], during'[c], ViewOf(c)')
    BY DEF WalksInv
  <2>1. storeCall'[c] = storeCall[c] /\ storeCall[c].op = "scan"
    BY <1>2
  <2>2. WalkInv(storeCall[c], during[c], ViewOf(c))
    BY <2>1 DEF BackendInv, WalksInv
  <2>3. /\ during'[c].steady = during[c].steady \cap Pairs(held')
        /\ during'[c].ever = during[c].ever \cup Pairs(held')
    BY <1>0, <2>1
  <2>4. ViewOf(c)' = IF backend = "rocks" THEN ViewOf(c) ELSE held'
    BY <1>0, <2>1 DEF ViewOf
  <2>5. during'[c].steady \subseteq Pairs(ViewOf(c)') /\ Pairs(ViewOf(c)') \subseteq during'[c].ever
    BY <2>2, <2>3, <2>4 DEF WalkInv
  <2>6. /\ MatchesOf(storeCall[c].label, during'[c].steady) \subseteq MatchesOf(storeCall[c].label, during[c].steady)
        /\ MatchesOf(storeCall[c].label, during[c].ever) \subseteq MatchesOf(storeCall[c].label, during'[c].ever)
    BY <2>3 DEF MatchesOf
  <2>. QED BY <2>1, <2>2, <2>5, <2>6 DEF WalkInv
<1>5. UpdatesInv'
  BY <1>2 DEF BackendInv, UpdatesInv
<1>6. LogInv'
  <2>1. held' = Replayed(writeLog')
    BY <1>0, <1>1, ReplayStep DEF BackendInv, LogInv
  <2>2. /\ Len(writeLog) \in Nat /\ Len(writeLog') = Len(writeLog) + 1
        /\ \A k \in 1 .. Len(writeLog) : writeLog'[k] = writeLog[k]
    BY <1>0, <1>1
  <2>3. /\ durable <= Len(writeLog) /\ Len(promised) <= durable /\ Len(promised) \in Nat
        /\ \A k \in 1 .. Len(promised) : promised[k] = writeLog[k]
        /\ backend # "sled" => promised = <<>>
        /\ \A c \in StoreClients : storeCall[c].op = "flush" => backend = "sled" /\ storeCall[c].mark <= Len(writeLog)
    BY <1>1 DEF BackendInv, LogInv
  <2>4. durable <= Len(writeLog')
    BY <1>1, <2>2, <2>3
  <2>5. \A k \in 1 .. Len(promised) : promised[k] = writeLog'[k]
    BY <1>1, <2>2, <2>3
  <2>6. \A c \in StoreClients : storeCall'[c].op = "flush" => backend = "sled" /\ storeCall'[c].mark <= Len(writeLog')
    <3>. SUFFICES ASSUME NEW c \in StoreClients, storeCall'[c].op = "flush"
                  PROVE  backend = "sled" /\ storeCall'[c].mark <= Len(writeLog')
      OBVIOUS
    <3>1. storeCall'[c] = storeCall[c] /\ storeCall'[c].mark \in Nat
      BY <1>2 DEF StoreCalls
    <3>. QED BY <2>2, <2>3, <3>1
  <2>. QED BY <1>0, <2>1, <2>3, <2>4, <2>5, <2>6 DEF LogInv
<1>7. ScansComplete'
  <2>1. \A c \in StoreClients : storeCall'[c].op = "done" =>
          storeCall'[c] = storeCall[c] /\ during'[c] = during[c] /\ storeCall[c].op = "done"
    BY <1>0, <1>2
  <2>. QED BY <2>1 DEF BackendInv, ScansComplete
<1>. QED BY <1>3, <1>4, <1>5, <1>6, <1>7 DEF BackendInv

\* A step of one client's call that writes nothing.
LEMMA CallKeeps ==
  ASSUME BackendInv, NEW c \in StoreClients, NEW s \in StoreCalls, Calls(c, s),
         UNCHANGED <<backend, held, writeLog>>, DOMAIN during' = StoreClients,
         \A d \in StoreClients : d # c => during'[d] = during[d],
         s.op = "scan" => WalkInv(s, during'[c], IF backend = "rocks" THEN s.from ELSE held),
         s.op = "update" => s.id \in MemoryKeys /\ s.label \in Labels,
         s.op = "flush" => backend = "sled" /\ s.mark <= Len(writeLog),
         s.op = "done" => /\ s.got \subseteq MatchesOf(s.label, during'[c].ever)
                          /\ Cardinality(s.got) <= s.limit
                          /\ Cardinality(s.got) < s.limit => MatchesOf(s.label, during'[c].steady) \subseteq s.got,
         durable' \in Nat, promised' \in Seq(WriteSet), durable' <= Len(writeLog), Len(promised') <= durable',
         \A k \in 1 .. Len(promised') : promised'[k] = writeLog[k], backend # "sled" => promised' = <<>>
  PROVE  BackendInv'
<1>0. storeCall \in [StoreClients -> StoreCalls] /\ storeCall' = [storeCall EXCEPT ![c] = s]
  BY DEF BackendInv, BackendTypeOK, Calls
<1>1. /\ storeCall' \in [StoreClients -> StoreCalls] /\ storeCall'[c] = s
      /\ \A d \in StoreClients : d # c => storeCall'[d] = storeCall[d]
  BY <1>0
<1>2. BackendTypeOK'
  BY <1>1 DEF BackendInv, BackendTypeOK
<1>3. WalksInv'
  <2>1. ViewOf(c)' = IF backend = "rocks" THEN s.from ELSE held
    BY <1>1 DEF ViewOf
  <2>2. \A d \in StoreClients : d # c => ViewOf(d)' = ViewOf(d)
    BY <1>1 DEF ViewOf
  <2>3. \A d \in StoreClients : d # c /\ storeCall'[d].op = "scan" => WalkInv(storeCall'[d], during'[d], ViewOf(d)')
    BY <1>1, <2>2 DEF BackendInv, WalksInv
  <2>. QED BY <1>1, <2>1, <2>3 DEF WalksInv
<1>4. UpdatesInv'
  BY <1>1 DEF BackendInv, UpdatesInv
<1>5. LogInv'
  <2>1. \A d \in StoreClients : storeCall'[d].op = "flush" => backend = "sled" /\ storeCall'[d].mark <= Len(writeLog)
    BY <1>1 DEF BackendInv, LogInv
  <2>. QED BY <2>1 DEF BackendInv, LogInv
<1>6. ScansComplete'
  <2>1. \A d \in StoreClients : d # c => storeCall'[d] = storeCall[d] /\ during'[d] = during[d]
    BY <1>1
  <2>. QED BY <1>1, <2>1 DEF BackendInv, ScansComplete, MatchesOf
<1>. QED BY <1>2, <1>3, <1>4, <1>5, <1>6 DEF BackendInv

\* What every step that leaves the log alone keeps of it.
LEMMA LogFacts ==
  ASSUME BackendInv
  PROVE  /\ durable \in Nat /\ promised \in Seq(WriteSet) /\ durable <= Len(writeLog)
         /\ Len(promised) <= durable /\ \A k \in 1 .. Len(promised) : promised[k] = writeLog[k]
         /\ backend # "sled" => promised = <<>>
         /\ held \in Views /\ writeLog \in Seq(WriteSet) /\ Len(writeLog) \in Nat
         /\ DOMAIN during = StoreClients /\ storeCall \in [StoreClients -> StoreCalls]
<1>1. writeLog \in Seq(WriteSet)
  BY DEF BackendInv, BackendTypeOK
<1>2. Len(writeLog) \in Nat
  BY <1>1
<1>. QED BY <1>1, <1>2 DEF BackendInv, BackendTypeOK, LogInv

LEMMA LooksKeeps ==
  ASSUME BackendInv, NEW c \in StoreClients, NEW i \in MemoryKeys, NEW l \in Labels, Looks(c, i, l)
  PROVE  BackendInv'
<1>. DEFINE s == [NoCall EXCEPT !.op = "update", !.id = i, !.label = l]
<1>1. s \in StoreCalls /\ s.op = "update" /\ s.id = i /\ s.label = l
  BY NoCallTyped DEF StoreCalls, NoCall
<1>2. Calls(c, s) /\ UNCHANGED <<backend, held, writeLog, durable, promised, during>>
  BY DEF Looks
<1>. HIDE DEF s
<1>. QED BY <1>1, <1>2, LogFacts, CallKeeps

LEMMA EndKeeps ==
  ASSUME BackendInv, NEW c \in StoreClients, Calls(c, NoCall),
         UNCHANGED <<backend, held, writeLog, durable, promised>>,
         during' \in {during, [during EXCEPT ![c] = NothingSeen]}
  PROVE  BackendInv'
<1>1. NoCall \in StoreCalls /\ NoCall.op = "none"
  BY NoCallTyped DEF NoCall
<1>2. DOMAIN during' = StoreClients /\ \A d \in StoreClients : d # c => during'[d] = during[d]
  BY LogFacts
<1>. QED BY <1>1, <1>2, LogFacts, CallKeeps

LEMMA InsertsKeeps ==
  ASSUME BackendInv, NEW c \in StoreClients, Inserts(c)
  PROVE  BackendInv'
<1>1. /\ storeCall[c].op = "update" /\ Writes(<<storeCall[c].id, storeCall[c].label>>)
      /\ storeCall' = [storeCall EXCEPT ![c] = NoCall]
  BY DEF Inserts, Calls
<1>2. <<storeCall[c].id, storeCall[c].label>> \in WriteSet
  BY <1>1 DEF BackendInv, UpdatesInv, WriteSet
<1>3. storeCall \in [StoreClients -> StoreCalls]
  BY DEF BackendInv, BackendTypeOK
<1>4. /\ storeCall' \in [StoreClients -> StoreCalls]
      /\ \A d \in StoreClients : storeCall'[d] = storeCall[d] \/ storeCall'[d] = NoCall
  BY <1>1, <1>3, NoCallTyped
<1>. QED BY <1>1, <1>2, <1>4, WritesKeep

LEMMA WalkStartsKeeps ==
  ASSUME BackendInv, NEW c \in StoreClients, NEW q \in Labels \cup {All}, NEW n \in Nat,
         NEW view \in Views, view = IF backend = "rocks" THEN held ELSE EmptyMap,
         WalkStarts(c, q, n, view)
  PROVE  BackendInv'
<1>. DEFINE s == [NoCall EXCEPT !.op = "scan", !.label = q, !.limit = n, !.from = view]
<1>1. /\ s \in StoreCalls /\ s.op = "scan" /\ s.label = q /\ s.limit = n /\ s.from = view
      /\ s.at = 0 /\ s.got = {}
  BY NoCallTyped DEF StoreCalls, NoCall
<1>2. /\ Calls(c, s) /\ UNCHANGED <<backend, held, writeLog, durable, promised>>
      /\ during' = [during EXCEPT ![c] = [steady |-> Pairs(held), ever |-> Pairs(held)]]
  BY DEF WalkStarts
<1>3. /\ DOMAIN during' = StoreClients /\ \A d \in StoreClients : d # c => during'[d] = during[d]
      /\ during'[c].steady = Pairs(held) /\ during'[c].ever = Pairs(held)
  BY <1>2, LogFacts
<1>4. WalkInv(s, during'[c], IF backend = "rocks" THEN s.from ELSE held)
  <2>1. IsFiniteSet(s.got) /\ Cardinality(s.got) = 0
    BY <1>1, FS_EmptySet
  <2>2. \A x \in MatchesOf(s.label, during'[c].steady) : ~(x[1] <= s.at)
    <3>1. \A x \in Pairs(held) : x[1] \in MemoryKeys
      BY LogFacts, ViewKeys DEF Pairs
    <3>2. \A k \in MemoryKeys : k \in Nat \ {0}
      BY BackendAssumption
    <3>. QED BY <1>1, <1>3, <3>1, <3>2 DEF MatchesOf
  <2>3. (IF backend = "rocks" THEN s.from ELSE held) = held
    BY <1>1
  <2>4. s.got \subseteq MatchesOf(s.label, during'[c].ever) /\ Cardinality(s.got) <= s.limit
    BY <1>1, <2>1
  <2>. HIDE DEF s
  <2>. QED BY <1>3, <2>1, <2>2, <2>3, <2>4 DEF WalkInv
<1>. HIDE DEF s
<1>. QED BY <1>1, <1>2, <1>3, <1>4, LogFacts, CallKeeps

LEMMA WalkGoesOnKeeps ==
  ASSUME BackendInv, NEW c \in StoreClients, NEW view, view = ViewOf(c), WalkGoesOn(c, view)
  PROVE  BackendInv'
<1>. DEFINE s == storeCall[c]
            ahead == {i \in DOMAIN view : i > s.at}
            seen == during[c]
<1>1. s.op = "scan" /\ UNCHANGED <<backend, held, writeLog, durable, promised, during>>
  BY DEF WalkGoesOn
<1>2. s \in StoreCalls /\ view \in Views /\ s.at \in Nat /\ s.limit \in Nat
  BY LogFacts DEF ViewOf, StoreCalls
<1>3. /\ IsFiniteSet(s.got) /\ Cardinality(s.got) <= s.limit /\ Cardinality(s.got) \in Nat
      /\ s.got \subseteq MatchesOf(s.label, seen.ever)
      /\ \A x \in MatchesOf(s.label, seen.steady) : x[1] <= s.at => x \in s.got
      /\ seen.steady \subseteq Pairs(view) /\ Pairs(view) \subseteq seen.ever
  <2>1. WalkInv(s, seen, view)
    BY <1>1 DEF BackendInv, WalksInv
  <2>. QED BY <2>1, FS_CardinalityType DEF WalkInv
<1>4. /\ DOMAIN view \subseteq MemoryKeys /\ DOMAIN view \subseteq Nat
      /\ \A i \in DOMAIN view : view[i] \in Labels \cup {Gone}
  BY <1>2, ViewKeys
<1>5. CASE ahead = {} \/ LimitReached(s, view)
  <2>. DEFINE t == [s EXCEPT !.op = "done", !.from = EmptyMap]
  <2>1. Calls(c, t)
    BY <1>5 DEF WalkGoesOn
  <2>2. t \in StoreCalls /\ t.op = "done" /\ t.got = s.got /\ t.label = s.label /\ t.limit = s.limit
    BY <1>2, NoCallTyped DEF StoreCalls
  <2>3. Cardinality(s.got) < s.limit => MatchesOf(s.label, seen.steady) \subseteq s.got
    <3>. HAVE Cardinality(s.got) < s.limit
    <3>1. ahead = {}
      BY <1>2, <1>3, <1>5 DEF LimitReached
    <3>2. \A x \in MatchesOf(s.label, seen.steady) : x[1] \in DOMAIN view
      BY <1>3 DEF MatchesOf, Pairs
    <3>3. \A i \in DOMAIN view : i <= s.at
      BY <1>2, <1>4, <3>1
    <3>. QED BY <1>3, <3>2, <3>3
  <2>. HIDE DEF t
  <2>. QED BY <1>1, <1>3, <2>1, <2>2, <2>3, LogFacts, CallKeeps
<1>6. CASE ~(ahead = {} \/ LimitReached(s, view))
  <2>1. ahead \subseteq Nat /\ ahead # {}
    BY <1>4, <1>6
  <2>2. PICK i \in ahead : i = Min(ahead) /\ \A y \in ahead : i <= y
    <3>. HIDE DEF ahead
    <3>. QED BY <2>1, LeastKey
  <2>3. Calls(c, Advanced(s, view, i))
    BY <1>6, <2>2 DEF WalkGoesOn
  <2>4. i \in DOMAIN view /\ i \in Nat /\ i > s.at /\ i \in MemoryKeys /\ view[i] \in Labels \cup {Gone}
    BY <1>4
  <2>. DEFINE t == Advanced(s, view, i)
              x == <<i, view[i]>>
  <2>5. /\ t.op = "scan" /\ t.at = i /\ t.label = s.label /\ t.limit = s.limit /\ t.from = s.from
        /\ t.got = IF MatchesLabel(s.label, view[i]) THEN s.got \cup {x} ELSE s.got
    BY <1>1, <1>2 DEF Advanced, StoreCalls
  <2>6. t \in StoreCalls
    <3>1. t.got \in SUBSET (MemoryKeys \X (Labels \cup {Gone}))
      BY <1>2, <2>4, <2>5 DEF StoreCalls
    <3>. QED BY <1>2, <2>4, <3>1 DEF Advanced, StoreCalls
  <2>7. IsFiniteSet(t.got) /\ Cardinality(t.got) <= t.limit
    <3>1. /\ IsFiniteSet(s.got \cup {x})
          /\ Cardinality(s.got \cup {x}) = IF x \in s.got THEN Cardinality(s.got) ELSE Cardinality(s.got) + 1
      <4>. HIDE DEF s, x
      <4>. QED BY <1>3, FS_AddElement
    <3>2. Cardinality(s.got) < s.limit
      BY <1>2, <1>3, <1>6 DEF LimitReached
    <3>3. Cardinality(s.got \cup {x}) \in Nat
      BY <3>1, FS_CardinalityType
    <3>. QED BY <1>2, <1>3, <2>5, <3>1, <3>2, <3>3
  <2>8. t.got \subseteq MatchesOf(t.label, seen.ever)
    <3>1. x \in seen.ever /\ x[2] = view[i]
      BY <1>3, <2>4 DEF Pairs
    <3>. QED BY <1>3, <2>5, <3>1 DEF MatchesOf
  <2>9. \A y \in MatchesOf(t.label, seen.steady) : y[1] <= t.at => y \in t.got
    <3>. SUFFICES ASSUME NEW y \in MatchesOf(s.label, seen.steady), y[1] <= i PROVE y \in t.got
      BY <2>5
    <3>1. y[1] \in DOMAIN view /\ y = <<y[1], view[y[1]]>> /\ MatchesLabel(s.label, y[2])
      BY <1>3 DEF MatchesOf, Pairs
    <3>2. y[1] \in Nat
      BY <1>4, <3>1
    <3>3. CASE y[1] <= s.at
      BY <1>3, <2>5, <3>3
    <3>4. CASE ~(y[1] <= s.at)
      <4>1. y[1] \in ahead
        BY <1>2, <3>1, <3>2, <3>4
      <4>2. y[1] = i
        <5>. HIDE DEF ahead
        <5>. QED BY <2>2, <2>4, <3>2, <4>1
      <4>3. y = x /\ y[2] = view[i]
        BY <3>1, <4>2
      <4>. QED BY <2>5, <3>1, <4>3
    <3>. QED BY <3>3, <3>4
  <2>10. (IF backend = "rocks" THEN t.from ELSE held) = view
    BY <2>5 DEF ViewOf
  <2>. HIDE DEF t
  <2>11. WalkInv(t, during'[c], IF backend = "rocks" THEN t.from ELSE held)
    BY <1>1, <1>3, <2>7, <2>8, <2>9, <2>10 DEF WalkInv
  <2>. QED BY <1>1, <2>3, <2>5, <2>6, <2>11, LogFacts, CallKeeps DEF t
<1>. QED BY <1>5, <1>6

LEMMA FlushReturnsKeeps ==
  ASSUME BackendInv, NEW c \in StoreClients, FlushReturns(c)
  PROVE  BackendInv'
<1>. DEFINE n == storeCall[c].mark
<1>1. /\ storeCall[c].op = "flush" /\ Calls(c, NoCall) /\ UNCHANGED <<backend, held, writeLog, during>>
      /\ durable' = IF n > durable THEN n ELSE durable
      /\ promised' = IF n > Len(promised) THEN SubSeq(writeLog, 1, n) ELSE promised
  BY DEF FlushReturns
<1>2. n \in Nat /\ n <= Len(writeLog) /\ backend = "sled"
  BY <1>1, LogFacts DEF BackendInv, LogInv, StoreCalls
<1>3. /\ SubSeq(writeLog, 1, n) \in Seq(WriteSet) /\ Len(SubSeq(writeLog, 1, n)) = n
      /\ \A k \in 1 .. n : SubSeq(writeLog, 1, n)[k] = writeLog[k]
  BY <1>2, LogFacts
<1>4. promised \in Seq(WriteSet) /\ Len(promised) \in Nat /\ durable \in Nat
      /\ durable <= Len(writeLog) /\ Len(promised) <= durable
  BY LogFacts
<1>. HIDE DEF n
<1>5. durable' \in Nat /\ durable' <= Len(writeLog)
  BY <1>1, <1>2, <1>4
<1>6. /\ promised' \in Seq(WriteSet) /\ Len(promised') <= durable'
      /\ \A k \in 1 .. Len(promised') : promised'[k] = writeLog[k]
  <2>1. CASE n > Len(promised)
    <3>1. promised' = SubSeq(writeLog, 1, n)
      BY <1>1, <2>1
    <3>2. n <= durable'
      BY <1>1, <1>2, <1>4
    <3>. QED BY <1>3, <3>1, <3>2
  <2>2. CASE ~(n > Len(promised))
    <3>1. promised' = promised
      BY <1>1, <2>2
    <3>2. Len(promised) <= durable'
      BY <1>1, <1>2, <1>4
    <3>. QED BY <3>1, <3>2, LogFacts
  <2>. QED BY <2>1, <2>2
<1>7. NoCall \in StoreCalls /\ NoCall.op = "none"
  BY NoCallTyped DEF NoCall
<1>. QED BY <1>1, <1>2, <1>5, <1>6, <1>7, LogFacts, CallKeeps

LEMMA FlushBeginsKeeps ==
  ASSUME BackendInv, NEW c \in StoreClients, FlushBegins(c)
  PROVE  BackendInv'
<1>. DEFINE s == [NoCall EXCEPT !.op = "flush", !.mark = Len(writeLog)]
<1>1. Len(writeLog) \in Nat
  BY LogFacts
<1>2. s \in StoreCalls /\ s.op = "flush" /\ s.mark = Len(writeLog)
  BY <1>1, NoCallTyped DEF StoreCalls, NoCall
<1>3. backend = "sled" /\ Calls(c, s) /\ UNCHANGED <<backend, held, writeLog, durable, promised, during>>
  BY DEF FlushBegins
<1>4. s.mark <= Len(writeLog)
  BY <1>1, <1>2
<1>. HIDE DEF s
<1>. QED BY <1>2, <1>3, <1>4, LogFacts, CallKeeps

LEMMA WritesBackKeeps ==
  ASSUME BackendInv, WritesBack
  PROVE  BackendInv'
<1>1. /\ durable < Len(writeLog) /\ durable' = durable + 1
      /\ UNCHANGED <<backend, held, writeLog, promised, storeCall, during>>
  BY DEF WritesBack
<1>2. durable' \in Nat /\ durable' <= Len(writeLog) /\ Len(promised) <= durable'
  <2>1. durable \in Nat /\ Len(promised) \in Nat /\ Len(promised) <= durable /\ Len(writeLog) \in Nat
    BY LogFacts
  <2>. QED BY <1>1, <2>1
<1>3. BackendTypeOK'
  BY <1>1, <1>2 DEF BackendInv, BackendTypeOK
<1>4. WalksInv' /\ UpdatesInv' /\ ScansComplete'
  BY <1>1 DEF BackendInv, WalksInv, ViewOf, UpdatesInv, ScansComplete
<1>5. LogInv'
  BY <1>1, <1>2 DEF BackendInv, LogInv
<1>. QED BY <1>3, <1>4, <1>5 DEF BackendInv

LEMMA ReopenKeeps ==
  ASSUME BackendInv, Reopen
  PROVE  BackendInv'
<1>1. /\ writeLog' = IF backend = "memory" THEN <<>> ELSE SubSeq(writeLog, 1, durable)
      /\ held' = Replayed(writeLog') /\ storeCall' = [c \in StoreClients |-> NoCall]
      /\ durable' = Len(writeLog') /\ during' = [c \in StoreClients |-> NothingSeen]
      /\ UNCHANGED <<backend, promised>>
  BY DEF Reopen
<1>2. /\ durable \in Nat /\ durable <= Len(writeLog) /\ writeLog \in Seq(WriteSet) /\ Len(promised) \in Nat
      /\ Len(promised) <= durable /\ \A k \in 1 .. Len(promised) : promised[k] = writeLog[k]
      /\ backend # "sled" => promised = <<>>
  BY LogFacts
<1>3. /\ SubSeq(writeLog, 1, durable) \in Seq(WriteSet) /\ Len(SubSeq(writeLog, 1, durable)) = durable
      /\ \A k \in 1 .. durable : SubSeq(writeLog, 1, durable)[k] = writeLog[k]
  BY <1>2
<1>4. writeLog' \in Seq(WriteSet) /\ Len(writeLog') \in Nat
  BY <1>1, <1>3
<1>5. Len(promised) <= Len(writeLog') /\ \A k \in 1 .. Len(promised) : promised[k] = writeLog'[k]
  <2>1. CASE backend = "memory"
    BY <1>1, <1>2, <2>1
  <2>2. CASE backend # "memory"
    <3>1. writeLog' = SubSeq(writeLog, 1, durable)
      BY <1>1, <2>2
    <3>2. \A k \in 1 .. Len(promised) : k \in 1 .. durable
      BY <1>2
    <3>. QED BY <1>2, <1>3, <3>1, <3>2
  <2>. QED BY <2>1, <2>2
<1>6. \A c \in StoreClients : storeCall'[c].op = "none"
  BY <1>1 DEF NoCall
<1>7. BackendTypeOK'
  <2>1. held' \in Views
    BY <1>1, <1>4, ReplayTyped
  <2>. QED BY <1>1, <1>4, <2>1, NoCallTyped DEF BackendInv, BackendTypeOK
<1>8. WalksInv' /\ UpdatesInv' /\ ScansComplete'
  BY <1>6 DEF WalksInv, UpdatesInv, ScansComplete
<1>9. LogInv'
  BY <1>1, <1>2, <1>4, <1>5, <1>6 DEF LogInv
<1>. QED BY <1>7, <1>8, <1>9 DEF BackendInv

LEMMA BackendStart ==
  ASSUME BackendInit
  PROVE  BackendInv
<1>1. BackendTypeOK
  BY NoCallTyped DEF BackendInit, BackendTypeOK
<1>2. \A c \in StoreClients : storeCall[c].op = "none"
  BY DEF BackendInit, NoCall
<1>3. WalksInv /\ UpdatesInv /\ ScansComplete
  BY <1>2 DEF WalksInv, UpdatesInv, ScansComplete
<1>4. Replayed(<<>>) = EmptyMap
  <2>1. Standing(<<>>) = {}
    BY DEF Standing
  <2>. QED BY <2>1 DEF Replayed, EmptyMap
<1>5. LogInv
  BY <1>2, <1>4 DEF BackendInit, LogInv
<1>. QED BY <1>1, <1>3, <1>5 DEF BackendInv

LEMMA BackendStep ==
  ASSUME BackendInv, [BackendNext]_backendVars
  PROVE  BackendInv'
<1>1. ASSUME NEW w \in WriteSet, Writes(w), UNCHANGED storeCall
      PROVE  BackendInv'
  BY <1>1, LogFacts, WritesKeep
<1>2. ASSUME NEW i \in MemoryKeys, NEW l \in Labels, InMemoryStore(i, l) \/ SledStore(i, l) \/ RocksStore(i, l)
      PROVE  BackendInv'
  <2>1. <<i, l>> \in WriteSet /\ Writes(<<i, l>>) /\ UNCHANGED storeCall
    BY <1>2 DEF WriteSet, InMemoryStore, SledStore, RocksStore
  <2>. QED BY <1>1, <2>1
<1>3. ASSUME NEW i \in MemoryKeys, InMemoryDelete(i) \/ SledDelete(i) \/ RocksDelete(i)
      PROVE  BackendInv'
  <2>1. <<i, Gone>> \in WriteSet /\ Writes(<<i, Gone>>) /\ UNCHANGED storeCall
    BY <1>3 DEF WriteSet, InMemoryDelete, SledDelete, RocksDelete, Deletes
  <2>. QED BY <1>1, <2>1
<1>4. ASSUME NEW c \in StoreClients, FlushFails(c) \/ WalkFails(c) \/ WalkReturns(c)
      PROVE  BackendInv'
  BY <1>4, EndKeeps DEF FlushFails, WalkFails, WalkReturns
<1>5. ASSUME NEW c \in StoreClients, NEW i \in MemoryKeys, NEW l \in Labels,
             InMemoryUpdate(c, i, l) \/ SledUpdate(c, i, l) \/ RocksUpdate(c, i, l)
      PROVE  BackendInv'
  BY <1>5, LooksKeeps, InsertsKeeps DEF InMemoryUpdate, SledUpdate, RocksUpdate
<1>6. ASSUME NEW c \in StoreClients, NEW n \in 1 .. Cardinality(MemoryKeys), NEW q \in Labels \cup {All},
             \/ backend \in {"memory", "sled"} /\ (WalkStarts(c, q, n, EmptyMap) \/ WalkGoesOn(c, held))
             \/ backend = "rocks" /\ (WalkStarts(c, q, n, held) \/ WalkGoesOn(c, storeCall[c].from))
      PROVE  BackendInv'
  <2>1. n \in Nat /\ held \in Views /\ EmptyMap \in Views
    BY LogFacts, NoCallTyped
  <2>2. CASE WalkStarts(c, q, n, EmptyMap) /\ backend \in {"memory", "sled"}
    BY <2>1, <2>2, WalkStartsKeeps
  <2>3. CASE WalkStarts(c, q, n, held) /\ backend = "rocks"
    BY <2>1, <2>3, WalkStartsKeeps
  <2>4. CASE WalkGoesOn(c, held) /\ backend \in {"memory", "sled"}
    <3>1. held = ViewOf(c)
      BY <2>4 DEF ViewOf
    <3>. QED BY <2>4, <3>1, WalkGoesOnKeeps
  <2>5. CASE WalkGoesOn(c, storeCall[c].from) /\ backend = "rocks"
    <3>1. storeCall[c].from = ViewOf(c)
      BY <2>5 DEF ViewOf
    <3>. QED BY <2>5, <3>1, WalkGoesOnKeeps
  <2>. QED BY <1>6, <2>2, <2>3, <2>4, <2>5
<1>7. ASSUME NEW c \in StoreClients, NEW n \in 1 .. Cardinality(MemoryKeys),
             \/ InMemoryList(c, n) \/ SledList(c, n) \/ RocksList(c, n)
             \/ \E q \in Labels : InMemorySearch(c, q, n) \/ SledSearch(c, q, n) \/ RocksSearch(c, q, n)
      PROVE  BackendInv'
  <2>1. CASE InMemoryList(c, n) \/ SledList(c, n) \/ RocksList(c, n)
    BY <1>6, <2>1 DEF InMemoryList, SledList, RocksList
  <2>2. CASE \E q \in Labels : InMemorySearch(c, q, n) \/ SledSearch(c, q, n) \/ RocksSearch(c, q, n)
    <3>1. PICK q \in Labels : InMemorySearch(c, q, n) \/ SledSearch(c, q, n) \/ RocksSearch(c, q, n)
      BY <2>2
    <3>. QED BY <1>6, <3>1 DEF InMemorySearch, SledSearch, RocksSearch
  <2>. QED BY <1>7, <2>1, <2>2
<1>8. CASE UNCHANGED backendVars
  <2>1. UNCHANGED <<backend, held, writeLog, durable, promised, storeCall, during>>
    BY <1>8 DEF backendVars
  <2>2. BackendTypeOK' /\ LogInv'
    BY <2>1 DEF BackendInv, BackendTypeOK, LogInv
  <2>3. WalksInv' /\ UpdatesInv' /\ ScansComplete'
    BY <2>1 DEF BackendInv, WalksInv, ViewOf, UpdatesInv, ScansComplete
  <2>. QED BY <2>2, <2>3 DEF BackendInv
<1>9. CASE BackendNext
  BY <1>9, <1>2, <1>3, <1>4, <1>5, <1>7, ReopenKeeps, WritesBackKeeps, FlushBeginsKeeps, FlushReturnsKeeps
     DEF BackendNext
<1>. QED BY <1>8, <1>9

LEMMA BackendInvFaithful ==
  ASSUME BackendInv
  PROVE  BackendsFaithful
<1>1. /\ promised \in Seq(WriteSet) /\ writeLog \in Seq(WriteSet) /\ Len(promised) \in Nat
      /\ Len(promised) <= durable /\ durable <= Len(writeLog) /\ durable \in Nat
      /\ \A k \in 1 .. Len(promised) : promised[k] = writeLog[k]
  BY LogFacts
<1>2. Len(promised) <= Len(writeLog) /\ Len(writeLog) \in Nat
  BY <1>1
<1>3. SubSeq(promised, 1, Len(promised)) = promised
  BY <1>1
<1>4. SubSeq(writeLog, 1, Len(promised)) = promised
  <2>1. /\ SubSeq(writeLog, 1, Len(promised)) \in Seq(WriteSet)
        /\ Len(SubSeq(writeLog, 1, Len(promised))) = Len(promised)
        /\ \A k \in 1 .. Len(promised) : SubSeq(writeLog, 1, Len(promised))[k] = writeLog[k]
    BY <1>1, <1>2
  <2>. QED BY <1>1, <2>1, SeqEqual
<1>5. FlushedSurvives
  BY <1>2, <1>3, <1>4 DEF FlushedSurvives, IsPrefix, BackendInv, LogInv
<1>. QED BY <1>5 DEF BackendInv, BackendsFaithful

\* For any clients, ids and labels: a search or list beside writers misses
\* nothing that stays, shows nothing that never was there and keeps its limit,
\* and what a returned flush fenced survives every crash, in order.
THEOREM BackendsStayFaithful == BackendSpec => []BackendsFaithful
<1>1. BackendInit => BackendInv
  BY BackendStart
<1>2. BackendInv /\ [BackendNext]_backendVars => BackendInv'
  BY BackendStep
<1>3. BackendInv => BackendsFaithful
  BY BackendInvFaithful
<1>. QED BY <1>1, <1>2, <1>3, PTL DEF BackendSpec



(***************************************************************************)
(* Manifests on disk: what a scan reports and what the catalog keeps.      *)
(***************************************************************************)
ScanState == [todo : SUBSET ToSet(ManifestFiles), listed : SUBSET ToSet(ManifestFiles),
              changes : UNION {[D -> Contents] : D \in SUBSET ToSet(ManifestFiles)}, on : BOOLEAN]
FileMaps == UNION {[D -> Contents] : D \in SUBSET ToSet(ManifestFiles)}
EntryMaps == UNION {[D -> [manifest : Contents, stats : BOOLEAN]] : D \in SUBSET TypeNames}

ReloadTypeOK ==
  /\ onDisk \in FileMaps /\ checksums \in FileMaps /\ told \in FileMaps
  /\ scan \in ScanState /\ scanFailed \in BOOLEAN
  /\ entries \in EntryMaps

\* The strengthening: outside a scan there is nothing left to report.
ReloadInv == ReloadTypeOK /\ (~scan.on => scan.changes = EmptyMap) /\ ReloadSound

\* The greatest of some places of a finite list is one of them.
LEMMA GreatestPlace ==
  ASSUME NEW n \in Nat, NEW T, T \subseteq 1 .. n, T # {}
  PROVE  Max(T) \in T
<1>. DEFINE U == {n - i : i \in T}
<1>0. PICK t \in T : TRUE
  OBVIOUS
<1>1. U \subseteq Nat /\ U # {}
  <2>1. n - t \in U
    OBVIOUS
  <2>2. \A i \in T : n - i \in Nat
    OBVIOUS
  <2>. QED BY <2>1, <2>2
<1>2. Min(U) \in U /\ \A y \in U : Min(U) <= y
  BY <1>1, LeastKey
<1>3. PICK k \in T : Min(U) = n - k
  BY <1>2
<1>4. \A i \in T : n - k <= n - i
  BY <1>2, <1>3
<1>5. \A i \in T : k >= i
  BY <1>4
<1>6. \E x \in T : \A y \in T : x >= y
  BY <1>5
<1>. QED BY <1>6, Zenon DEF Max

\* Of some of the files, the first and the last in order are among them.
LEMMA FirstAndLast ==
  ASSUME NEW fs, fs \subseteq ToSet(ManifestFiles), fs # {}
  PROVE  FirstFile(fs) \in fs /\ LastFile(fs) \in fs
<1>1. ManifestFiles \in Seq(ToSet(ManifestFiles))
  BY FilesAssumption
<1>2. DOMAIN ManifestFiles = 1 .. Len(ManifestFiles) /\ Len(ManifestFiles) \in Nat
  BY <1>1
<1>3. PICK f \in fs : TRUE
  OBVIOUS
<1>4. PICK i \in DOMAIN ManifestFiles : ManifestFiles[i] = f
  BY <1>3 DEF ToSet
<1>5. PlacesOf(fs) # {} /\ PlacesOf(fs) \subseteq 1 .. Len(ManifestFiles)
  BY <1>2, <1>3, <1>4 DEF PlacesOf
<1>6. PlacesOf(fs) \subseteq Nat
  BY <1>5
<1>7. Min(PlacesOf(fs)) \in PlacesOf(fs)
  BY <1>5, <1>6, LeastKey
<1>8. Max(PlacesOf(fs)) \in PlacesOf(fs)
  BY <1>2, <1>5, GreatestPlace
<1>9. \A p \in PlacesOf(fs) : ManifestFiles[p] \in fs
  BY DEF PlacesOf
<1>. QED BY <1>7, <1>8, <1>9 DEF FirstFile, LastFile

LEMMA PutFile ==
  ASSUME NEW m \in FileMaps, NEW f \in ToSet(ManifestFiles), NEW c \in Contents
  PROVE  Put(m, f, c) \in FileMaps
<1>1. PICK D \in SUBSET ToSet(ManifestFiles) : m \in [D -> Contents]
  BY DEF FileMaps
<1>2. Put(m, f, c) \in [D \cup {f} -> Contents] /\ D \cup {f} \in SUBSET ToSet(ManifestFiles)
  BY <1>1 DEF Put
<1>. QED BY <1>2 DEF FileMaps

LEMMA DropFile ==
  ASSUME NEW m \in FileMaps, NEW f
  PROVE  Drop(m, f) \in FileMaps
<1>1. PICK D \in SUBSET ToSet(ManifestFiles) : m \in [D -> Contents]
  BY DEF FileMaps
<1>2. Drop(m, f) \in [D \ {f} -> Contents] /\ D \ {f} \in SUBSET ToSet(ManifestFiles)
  BY <1>1 DEF Drop
<1>. QED BY <1>2 DEF FileMaps

LEMMA PutEntry ==
  ASSUME NEW m \in EntryMaps, NEW n \in TypeNames, NEW e \in [manifest : Contents, stats : BOOLEAN]
  PROVE  Put(m, n, e) \in EntryMaps
<1>. DEFINE K == [manifest : Contents, stats : BOOLEAN]
<1>1. PICK D \in SUBSET TypeNames : m \in [D -> K]
  BY DEF EntryMaps
<1>2. e \in K
  OBVIOUS
<1>. HIDE DEF K
<1>3. Put(m, n, e) \in [D \cup {n} -> K] /\ D \cup {n} \in SUBSET TypeNames
  BY <1>1, <1>2 DEF Put
<1>. QED BY <1>3 DEF EntryMaps, K

\* A change is folded into what a caller knows as it is put into the checksums.
LEMMA FoldedPut ==
  ASSUME NEW m \in FileMaps, NEW ch \in FileMaps, NEW f, NEW c
  PROVE  Folded(m, Put(ch, f, c)) = Put(Folded(m, ch), f, c)
<1>1. DOMAIN Put(ch, f, c) = DOMAIN ch \cup {f}
  BY DEF Put
<1>2. \A z \in DOMAIN ch \cup {f} : Put(ch, f, c)[z] = IF z = f THEN c ELSE ch[z]
  BY DEF Put
<1>. DEFINE q == Put(ch, f, c)
<1>. HIDE DEF q
<1>3. Folded(m, q) = [z \in DOMAIN m \cup DOMAIN ch \cup {f} |-> IF z \in DOMAIN ch \cup {f} THEN q[z] ELSE m[z]]
  BY <1>1 DEF Folded, q
<1>4. Put(Folded(m, ch), f, c)
      = [z \in DOMAIN m \cup DOMAIN ch \cup {f} |->
           IF z = f THEN c ELSE IF z \in DOMAIN ch THEN ch[z] ELSE m[z]]
  BY DEF Folded, Put
<1>5. \A z \in DOMAIN m \cup DOMAIN ch \cup {f} :
        (IF z \in DOMAIN ch \cup {f} THEN q[z] ELSE m[z])
        = (IF z = f THEN c ELSE IF z \in DOMAIN ch THEN ch[z] ELSE m[z])
  BY <1>2 DEF q
<1>6. Folded(m, q) = Put(Folded(m, ch), f, c)
  BY <1>3, <1>4, <1>5
<1>. QED BY <1>6 DEF q

\* With no change left to fold, a caller knows what it knew.
LEMMA FoldedNone ==
  ASSUME NEW m \in FileMaps
  PROVE  Folded(m, EmptyMap) = m
  BY DEF Folded, EmptyMap, FileMaps

LEMMA FoldedFiles ==
  ASSUME NEW m \in FileMaps, NEW ch \in FileMaps
  PROVE  Folded(m, ch) \in FileMaps /\ DOMAIN Folded(m, ch) = DOMAIN m \cup DOMAIN ch
<1>1. PICK D \in SUBSET ToSet(ManifestFiles) : m \in [D -> Contents]
  BY DEF FileMaps
<1>2. PICK F \in SUBSET ToSet(ManifestFiles) : ch \in [F -> Contents]
  BY DEF FileMaps
<1>3. Folded(m, ch) \in [D \cup F -> Contents] /\ D \cup F \in SUBSET ToSet(ManifestFiles)
  BY <1>1, <1>2 DEF Folded
<1>. QED BY <1>1, <1>2, <1>3 DEF FileMaps

\* Files of one name are upserted under it, the last of them as it is.
LEMMA UpsertedSound ==
  ASSUME ReloadInv, NEW fs, fs \subseteq ToSet(ManifestFiles), fs \subseteq DOMAIN onDisk,
         \A f \in fs : Loadable(f)
  PROVE  /\ Upserted(entries, fs) \in EntryMaps
         /\ \A n \in DOMAIN Upserted(entries, fs) :
              Upserted(entries, fs)[n].manifest.name = n /\ Upserted(entries, fs)[n].manifest.valid
<1>. DEFINE D == DOMAIN entries \cup {onDisk[f].name : f \in fs}
            E(n) == IF Named(fs, n) # {} THEN NewEntry(LastFile(Named(fs, n))) ELSE entries[n]
<1>1. \A f \in fs : onDisk[f] \in Contents /\ onDisk[f].name \in TypeNames /\ onDisk[f].valid = TRUE
  BY DEF ReloadInv, ReloadTypeOK, FileMaps, Contents, Loadable
<1>2. D \subseteq TypeNames
  BY <1>1 DEF ReloadInv, ReloadTypeOK, EntryMaps
<1>3. ASSUME NEW n \in D
      PROVE  E(n) \in [manifest : Contents, stats : BOOLEAN] /\ E(n).manifest.name = n /\ E(n).manifest.valid
  <2>1. CASE Named(fs, n) # {}
    <3>1. Named(fs, n) \subseteq ToSet(ManifestFiles)
      BY DEF Named
    <3>2. LastFile(Named(fs, n)) \in Named(fs, n)
      BY <2>1, <3>1, FirstAndLast
    <3>. DEFINE g == LastFile(Named(fs, n))
    <3>3. g \in fs /\ onDisk[g].name = n
      BY <3>2 DEF Named
    <3>. HIDE DEF g
    <3>4. NewEntry(g) \in [manifest : Contents, stats : BOOLEAN] /\ NewEntry(g).manifest = onDisk[g]
      BY <1>1, <3>3 DEF NewEntry
    <3>. QED BY <1>1, <2>1, <3>3, <3>4 DEF g
  <2>2. CASE Named(fs, n) = {}
    <3>1. n \in DOMAIN entries
      BY <2>2 DEF Named
    <3>2. entries[n] \in [manifest : Contents, stats : BOOLEAN]
      BY <3>1 DEF ReloadInv, ReloadTypeOK, EntryMaps
    <3>3. entries[n].manifest.name = n /\ entries[n].manifest.valid
      BY <3>1 DEF ReloadInv, ReloadSound, CatalogSound
    <3>. QED BY <2>2, <3>2, <3>3
  <2>. QED BY <2>1, <2>2
<1>4. Upserted(entries, fs) = [n \in D |-> E(n)]
  BY DEF Upserted
<1>. HIDE DEF D, E
<1>5. [n \in D |-> E(n)] \in [D -> [manifest : Contents, stats : BOOLEAN]]
  BY <1>3
<1>. QED BY <1>2, <1>3, <1>4, <1>5 DEF EntryMaps

LEMMA CollectedFiles ==
  CollectFiles \subseteq ToSet(ManifestFiles) /\ CollectFiles \subseteq DOMAIN onDisk
  BY DEF CollectFiles

LEMMA ReloadInitial == ReloadInit => ReloadInv
<1>. SUFFICES ASSUME ReloadInit PROVE ReloadInv
  OBVIOUS
<1>0. EmptyMap \in [{} -> Contents] /\ EmptyMap \in [{} -> [manifest : Contents, stats : BOOLEAN]]
  BY DEF EmptyMap
<1>1. EmptyMap \in FileMaps /\ EmptyMap \in EntryMaps /\ DOMAIN EmptyMap = {}
  BY <1>0 DEF FileMaps, EntryMaps
<1>2. NoScan \in ScanState /\ NoScan.changes = EmptyMap
  BY <1>1 DEF NoScan, ScanState, FileMaps
<1>3. Folded(EmptyMap, EmptyMap) = EmptyMap
  BY <1>1, FoldedNone
<1>. QED BY <1>1, <1>2, <1>3 DEF ReloadInit, ReloadInv, ReloadTypeOK, ReloadSound, ReportsComplete, CatalogSound

LEMMA ScanPreserves == ReloadInv /\ ScanNext => ReloadInv'
<1>. SUFFICES ASSUME ReloadInv, ScanNext PROVE ReloadInv'
  OBVIOUS
<1>0. /\ onDisk \in FileMaps /\ checksums \in FileMaps /\ told \in FileMaps
      /\ scan \in ScanState /\ scanFailed \in BOOLEAN /\ entries \in EntryMaps
      /\ scan.changes \in FileMaps /\ scan.todo \subseteq ToSet(ManifestFiles) /\ scan.on \in BOOLEAN
      /\ scan.listed \subseteq ToSet(ManifestFiles)
      /\ (~scan.on => scan.changes = EmptyMap)
      /\ (scanFailed \/ Folded(told, scan.changes) = checksums)
      /\ CatalogSound
  BY DEF ReloadInv, ReloadTypeOK, ReloadSound, ReportsComplete, ScanState, FileMaps
<1>00. EmptyMap \in FileMaps /\ DOMAIN EmptyMap = {}
  BY DEF EmptyMap, FileMaps
<1>000. NoScan \in ScanState /\ NoScan.changes = EmptyMap
  BY <1>00 DEF NoScan, ScanState, FileMaps
<1>1. CASE ScanBegins
  <2>1. scan' \in ScanState /\ scan'.on = TRUE /\ scan'.changes = EmptyMap
    BY <1>00, <1>1, CollectedFiles DEF ScanBegins, ScanState, FileMaps
  <2>2. scan.changes = EmptyMap
    BY <1>0, <1>1 DEF ScanBegins
  <2>. QED
    BY <1>0, <1>1, <2>1, <2>2 DEF ScanBegins, fileVars, catalogVars, ReloadInv, ReloadTypeOK, ReloadSound,
       ReportsComplete, CatalogSound
<1>2. CASE ScanFile
  <2>. DEFINE f == FirstFile(scan.todo)
  <2>1. f \in ToSet(ManifestFiles) /\ f \in DOMAIN onDisk /\ scan.on
    BY <1>0, <1>2, FirstAndLast DEF ScanFile
  <2>2. onDisk[f] \in Contents
    BY <1>0, <2>1 DEF FileMaps
  <2>. HIDE DEF f
  <2>3. UNCHANGED <<onDisk, entries, told, scanFailed>>
    BY <1>2 DEF ScanFile, fileVars, catalogVars
  <2>4. CASE f \in DOMAIN checksums /\ checksums[f] = onDisk[f]
    <3>1. scan' = [scan EXCEPT !.todo = scan.todo \ {f}] /\ checksums' = checksums
      BY <1>2, <2>4 DEF ScanFile, f
    <3>2. scan' \in ScanState /\ scan'.on = scan.on /\ scan'.changes = scan.changes
      BY <1>0, <3>1 DEF ScanState
    <3>. QED BY <1>0, <2>1, <2>3, <3>1, <3>2 DEF ReloadInv, ReloadTypeOK, ReloadSound, ReportsComplete, CatalogSound
  <2>5. CASE ~(f \in DOMAIN checksums /\ checksums[f] = onDisk[f])
    <3>1. /\ scan' = [scan EXCEPT !.todo = scan.todo \ {f}, !.changes = Put(scan.changes, f, onDisk[f])]
          /\ checksums' = Put(checksums, f, onDisk[f])
      BY <1>2, <2>5 DEF ScanFile, f
    <3>2. Put(scan.changes, f, onDisk[f]) \in FileMaps /\ checksums' \in FileMaps
      BY <1>0, <2>1, <2>2, <3>1, PutFile
    <3>3. scan' \in ScanState /\ scan'.on = scan.on /\ scan'.changes = Put(scan.changes, f, onDisk[f])
      BY <1>0, <3>1, <3>2 DEF ScanState, FileMaps
    <3>4. Folded(told, scan'.changes) = Put(Folded(told, scan.changes), f, onDisk[f])
      BY <1>0, <3>3, FoldedPut
    <3>5. scanFailed \/ Folded(told, scan'.changes) = checksums'
      BY <1>0, <3>1, <3>4
    <3>. QED
      BY <1>0, <2>1, <2>3, <3>2, <3>3, <3>5 DEF ReloadInv, ReloadTypeOK, ReloadSound, ReportsComplete, CatalogSound
  <2>. QED BY <2>4, <2>5
<1>3. CASE ScanFails
  <2>. QED
    BY <1>0, <1>000, <1>3 DEF ScanFails, fileVars, catalogVars, ReloadInv, ReloadTypeOK, ReloadSound,
       ReportsComplete, CatalogSound
<1>4. CASE ScanEnds
  <2>. DEFINE removed == DOMAIN checksums \ scan.listed
              known == Folded(told, scan.changes)
  <2>1. /\ checksums' = [g \in DOMAIN checksums \ removed |-> checksums[g]]
        /\ told' = [g \in (DOMAIN told \cup DOMAIN scan.changes) \ removed |-> known[g]]
        /\ scan' = NoScan /\ UNCHANGED <<onDisk, entries, scanFailed>>
    BY <1>4 DEF ScanEnds, Without, fileVars, catalogVars
  <2>2. known \in FileMaps /\ DOMAIN known = DOMAIN told \cup DOMAIN scan.changes
    BY <1>0, FoldedFiles
  <2>3. scanFailed \/ known = checksums
    BY <1>0
  <2>. HIDE DEF removed, known
  <2>4. told' \in FileMaps /\ checksums' \in FileMaps
    <3>1. PICK D \in SUBSET ToSet(ManifestFiles) : known \in [D -> Contents]
      BY <2>2 DEF FileMaps
    <3>2. PICK F \in SUBSET ToSet(ManifestFiles) : checksums \in [F -> Contents]
      BY <1>0 DEF FileMaps
    <3>3. told' \in [D \ removed -> Contents] /\ checksums' \in [F \ removed -> Contents]
      BY <2>1, <2>2, <3>1, <3>2
    <3>4. D \ removed \in SUBSET ToSet(ManifestFiles) /\ F \ removed \in SUBSET ToSet(ManifestFiles)
      OBVIOUS
    <3>. QED BY <3>3, <3>4 DEF FileMaps
  <2>5. scanFailed \/ told' = checksums'
    BY <2>1, <2>2, <2>3
  <2>6. Folded(told', EmptyMap) = told'
    BY <2>4, FoldedNone
  <2>. QED
    BY <1>0, <1>000, <2>1, <2>4, <2>5, <2>6 DEF ReloadInv, ReloadTypeOK, ReloadSound, ReportsComplete, CatalogSound
<1>. QED BY <1>1, <1>2, <1>3, <1>4 DEF ScanNext

LEMMA CatalogPreserves == ReloadInv /\ CatalogNext => ReloadInv'
<1>. SUFFICES ASSUME ReloadInv, CatalogNext PROVE ReloadInv'
  OBVIOUS
<1>0. UNCHANGED <<onDisk, checksums, scan, told, scanFailed>>
  BY DEF CatalogNext, LoadStrict, LoadDirectory, ReloadType, UpdateStats, RemoveType, AddTemplate, MergeExported,
         fileVars, scanVars
<1>00. /\ entries \in EntryMaps
       /\ \A n \in DOMAIN entries : /\ n \in TypeNames /\ entries[n] \in [manifest : Contents, stats : BOOLEAN]
                                    /\ entries[n].manifest.name = n /\ entries[n].manifest.valid
  BY DEF ReloadInv, ReloadTypeOK, ReloadSound, CatalogSound, EntryMaps
<1>. SUFFICES /\ entries' \in EntryMaps
              /\ \A n \in DOMAIN entries' : entries'[n].manifest.name = n /\ entries'[n].manifest.valid
  BY <1>0 DEF ReloadInv, ReloadTypeOK, ReloadSound, ReportsComplete, CatalogSound
<1>1. CASE LoadStrict
  BY <1>1, CollectedFiles, UpsertedSound DEF LoadStrict
<1>2. CASE LoadDirectory
  <2>1. /\ Valid(CollectFiles) \subseteq ToSet(ManifestFiles) /\ Valid(CollectFiles) \subseteq DOMAIN onDisk
        /\ \A f \in Valid(CollectFiles) : Loadable(f)
    BY CollectedFiles DEF Valid
  <2>. QED BY <1>2, <2>1, UpsertedSound DEF LoadDirectory
<1>3. ASSUME NEW n \in TypeNames, NEW e \in [manifest : Contents, stats : BOOLEAN],
             e.manifest.name = n, e.manifest.valid, entries' = Put(entries, n, e)
      PROVE  /\ entries' \in EntryMaps
             /\ \A k \in DOMAIN entries' : entries'[k].manifest.name = k /\ entries'[k].manifest.valid
  <2>1. entries' \in EntryMaps
    BY <1>00, <1>3, PutEntry
  <2>2. DOMAIN entries' = DOMAIN entries \cup {n}
        /\ \A k \in DOMAIN entries' : entries'[k] = IF k = n THEN e ELSE entries[k]
    BY <1>3 DEF Put
  <2>. QED BY <1>00, <1>3, <2>1, <2>2
<1>4. ASSUME NEW n \in TypeNames, ReloadType(n)
      PROVE  /\ entries' \in EntryMaps
             /\ \A k \in DOMAIN entries' : entries'[k].manifest.name = k /\ entries'[k].manifest.valid
  <2>. DEFINE named == {f \in Named(CollectFiles, n) : Loadable(f)}
              g == FirstFile(named)
  <2>1. named # {} /\ entries' = Put(entries, n, NewEntry(g))
    BY <1>4 DEF ReloadType
  <2>2. named \subseteq ToSet(ManifestFiles) /\ named \subseteq DOMAIN onDisk
        /\ \A f \in named : onDisk[f].name = n /\ onDisk[f].valid
    BY CollectedFiles DEF Named, Loadable
  <2>. HIDE DEF named
  <2>3. g \in named
    BY <2>1, <2>2, FirstAndLast
  <2>. HIDE DEF g
  <2>4. onDisk[g] \in Contents
    BY <2>2, <2>3 DEF ReloadInv, ReloadTypeOK, FileMaps
  <2>5. NewEntry(g) \in [manifest : Contents, stats : BOOLEAN] /\ NewEntry(g).manifest = onDisk[g]
    BY <2>4 DEF NewEntry
  <2>. QED BY <1>3, <2>1, <2>2, <2>3, <2>5
<1>5. ASSUME NEW n \in TypeNames, UpdateStats(n)
      PROVE  /\ entries' \in EntryMaps
             /\ \A k \in DOMAIN entries' : entries'[k].manifest.name = k /\ entries'[k].manifest.valid
  <2>1. n \in DOMAIN entries /\ entries' = [entries EXCEPT ![n] = [entries[n] EXCEPT !.stats = TRUE]]
    BY <1>5 DEF UpdateStats
  <2>. DEFINE e == [entries[n] EXCEPT !.stats = TRUE]
  <2>2. e \in [manifest : Contents, stats : BOOLEAN] /\ e.manifest = entries[n].manifest
    BY <1>00, <2>1
  <2>. HIDE DEF e
  <2>3. DOMAIN entries' = DOMAIN entries /\ \A k \in DOMAIN entries : entries'[k] = IF k = n THEN e ELSE entries[k]
    BY <2>1 DEF e
  <2>4. entries' = [k \in DOMAIN entries |-> IF k = n THEN e ELSE entries[k]]
    BY <1>00, <2>1 DEF e, EntryMaps
  <2>5. entries' \in EntryMaps
    BY <1>00, <2>2, <2>4 DEF EntryMaps
  <2>. QED BY <1>00, <2>1, <2>2, <2>3, <2>5
<1>6. ASSUME NEW n \in TypeNames, RemoveType(n)
      PROVE  /\ entries' \in EntryMaps
             /\ \A k \in DOMAIN entries' : entries'[k].manifest.name = k /\ entries'[k].manifest.valid
  BY <1>00, <1>6 DEF RemoveType, Drop, EntryMaps
<1>7. ASSUME NEW n \in TypeNames, AddTemplate(n)
      PROVE  entries' = entries
  BY <1>7 DEF AddTemplate
<1>8. ASSUME NEW n \in TypeNames, MergeExported(n)
      PROVE  /\ entries' \in EntryMaps
             /\ \A k \in DOMAIN entries' : entries'[k].manifest.name = k /\ entries'[k].manifest.valid
  <2>. DEFINE c == [name |-> n, valid |-> TRUE]
              e == [manifest |-> c, stats |-> TRUE]
  <2>1. c \in Contents /\ c.name = n /\ c.valid
    BY DEF Contents
  <2>. HIDE DEF c
  <2>2. e \in [manifest : Contents, stats : BOOLEAN] /\ e.manifest = c
    BY <2>1
  <2>3. entries' = Put(entries, n, e)
    BY <1>8 DEF MergeExported, c
  <2>. HIDE DEF e
  <2>. QED BY <1>3, <2>1, <2>2, <2>3
<1>. QED BY <1>00, <1>1, <1>2, <1>4, <1>5, <1>6, <1>7, <1>8 DEF CatalogNext

LEMMA FilesPreserve == ReloadInv /\ FileNext => ReloadInv'
<1>. SUFFICES ASSUME ReloadInv, FileNext PROVE ReloadInv'
  OBVIOUS
<1>1. UNCHANGED <<checksums, scan, told, scanFailed, entries>>
  BY DEF FileNext, EditFile, scanVars, catalogVars
<1>2. onDisk' \in FileMaps
  <2>1. onDisk \in FileMaps
    BY DEF ReloadInv, ReloadTypeOK
  <2>2. PICK f \in ToSet(ManifestFiles) :
          \/ \E c \in Contents : onDisk' = Put(onDisk, f, c)
          \/ onDisk' = Drop(onDisk, f)
    BY DEF FileNext, EditFile
  <2>. QED BY <2>1, <2>2, PutFile, DropFile
<1>. QED BY <1>1, <1>2 DEF ReloadInv, ReloadTypeOK, ReloadSound, ReportsComplete, CatalogSound

(***************************************************************************)
(* For every list of files and however they are edited while a scan runs:  *)
(* as long as no scan failed, a caller who applies what ChangeDetector     *)
(* returns knows the files as the detector does, and through whichever     *)
(* loader a type came, the catalog keeps it under the name of a valid      *)
(* manifest.                                                               *)
(***************************************************************************)
THEOREM ReloadsStaySound == ReloadSpec => []ReloadSound
<1>1. ReloadInv /\ UNCHANGED reloadVars => ReloadInv'
  BY DEF reloadVars, ReloadInv, ReloadTypeOK, ReloadSound, ReportsComplete, CatalogSound
<1>2. ReloadInv => ReloadSound
  BY DEF ReloadInv
<1>. QED BY <1>1, <1>2, ReloadInitial, ScanPreserves, CatalogPreserves, FilesPreserve, PTL DEF ReloadSpec

(***************************************************************************)
(* The applier: what it holds in memory tells of everything the state file *)
(* tells of and that still exists.                                         *)
(***************************************************************************)
ResourceNames == UNION {DOMAIN t : t \in Topologies}
ResourceConfigs == (UNION {{t[n].config : n \in DOMAIN t} : t \in Topologies}) \cup {NoConfig}
Resources == [provider : {"agent_pool"}, config : ResourceConfigs, pid : Nat, preventDestroy : {FALSE}]
ResourceMaps == UNION {[D -> Resources] : D \in SUBSET ResourceNames}
ChangeActions == {"Create", "Update", "Replace", "Destroy", "NoOp"}
PlanChanges == [name : ResourceNames, action : ChangeActions, after : ResourceConfigs]
ProgressEntries ==
  [name : ResourceNames, action : ChangeActions,
   status : {"Succeeded", "Failed", "Skipped", "Undone", "Kept"}]
ApplierStates ==
  [phase : {"idle", "locked", "change", "recreate", "record", "rollback", "done", "crashed"},
   mem : ResourceMaps, desired : Topologies \cup {NoTopology}, dryRun : BOOLEAN,
   autoRollback : BOOLEAN, todo : Seq(PlanChanges), pid : Nat, progress : Seq(ProgressEntries)]

PidsOf(m) == {m[n].pid : n \in DOMAIN m}

\* A state as it is kept: finitely many resources, with ids that were handed out.
StateKept(m, count) ==
  /\ m \in ResourceMaps /\ IsFiniteSet(DOMAIN m)
  /\ \A n \in DOMAIN m : m[n].pid <= count

\* Where a change is: what it is about to drop from the state is deleted.
ChangeInv(st, existing) ==
  /\ st.phase # "record" => st.pid = 0
  /\ st.phase \in {"recreate", "record"} => st.todo # <<>>
  /\ st.phase = "recreate" => Head(st.todo).action = "Replace"
  /\ st.phase = "record" => Head(st.todo).action # "NoOp"
  /\ st.phase = "record" /\ Head(st.todo).action \in {"Update", "Destroy"} => st.pid = 0
  /\ /\ \/ st.phase = "recreate"
        \/ st.phase = "record" /\ Head(st.todo).action \in {"Destroy", "Replace"}
     /\ Head(st.todo).name \in DOMAIN st.mem
     => st.mem[Head(st.todo).name].pid \notin existing

\* Every name has one change, and what is to be created is not there.
NamesInv(st) ==
  /\ \A i, j \in DOMAIN st.todo : st.todo[i].name = st.todo[j].name => i = j
  /\ \A i \in DOMAIN st.todo, k \in DOMAIN st.progress : st.todo[i].name # st.progress[k].name
  /\ \A i \in DOMAIN st.todo : st.todo[i].action = "Create" => st.todo[i].name \notin DOMAIN st.mem

\* What the progress says was not created is not in the state.
ProgressInv(st, lost1) ==
  \A k \in DOMAIN st.progress :
    /\ st.progress[k].action = "Create"
    /\ st.progress[k].status \in {"Skipped", "Undone"} \/ (st.progress[k].status = "Failed" /\ lost1 = 0)
    => st.progress[k].name \notin DOMAIN st.mem

RolledBack(st) ==
  st.phase = "done" /\ st.autoRollback /\ ~st.dryRun /\ Failures(st.progress) # {} =>
    \A k \in DOMAIN st.progress : ~Undoes(st, st.progress[k])

ApplierInv(st, saved1, existing, count, lost1) ==
  /\ StateKept(st.mem, count) /\ st.pid <= count
  /\ PidsOf(saved1) \cap existing \subseteq PidsOf(st.mem)
  /\ st.phase = "locked" => st.todo = <<>> /\ st.progress = <<>>
  /\ ChangeInv(st, existing) /\ NamesInv(st) /\ ProgressInv(st, lost1) /\ RolledBack(st)

Active(st) == st.phase \notin {"idle", "crashed"}

OneApplier ==
  /\ \A a, b \in Appliers : applier[a].phase # "idle" /\ applier[b].phase # "idle" => a = b
  /\ (\E a \in Appliers : applier[a].phase # "idle") => lockFile = TRUE

ProvisionTypeOK ==
  /\ pidCount \in Nat /\ unsaved \in Nat /\ live \subseteq 1..pidCount
  /\ StateKept(disk, pidCount)
  /\ applier \in [Appliers -> ApplierStates]

ProvisionInv ==
  /\ ProvisionTypeOK /\ OneApplier
  /\ \A a \in Appliers :
       IF Active(applier[a]) THEN ApplierInv(applier[a], disk, live, pidCount, unsaved)
       ELSE applier[a].pid = 0
  /\ ProgressPersisted

LEMMA EmptyState == StateKept(EmptyMap, 0) /\ DOMAIN EmptyMap = {}
<1>1. DOMAIN EmptyMap = {} /\ EmptyMap \in [{} -> Resources]
  BY DEF EmptyMap
<1>2. EmptyMap \in ResourceMaps
  BY <1>1 DEF ResourceMaps
<1>. QED BY <1>1, <1>2, FS_EmptySet DEF StateKept

LEMMA IdleTyped ==
  /\ IdleApplier \in ApplierStates /\ IdleApplier.pid = 0 /\ IdleApplier.phase = "idle"
  /\ IdleApplier.todo = <<>> /\ IdleApplier.progress = <<>>
<1>1. EmptyMap \in ResourceMaps
  BY EmptyState DEF StateKept
<1>2. <<>> \in Seq(PlanChanges) /\ <<>> \in Seq(ProgressEntries)
  OBVIOUS
<1>. QED BY <1>1, <1>2 DEF ApplierStates, IdleApplier, NoTopology

\* A change of one name keeps a state a state.
HandedOut(r, count) == r.pid \in Nat /\ r.pid <= count

LEMMA StatePut ==
  ASSUME NEW m, NEW count \in Nat, StateKept(m, count), NEW n \in ResourceNames,
         NEW r \in Resources, HandedOut(r, count)
  PROVE  StateKept(Put(m, n, r), count) /\ DOMAIN Put(m, n, r) = DOMAIN m \cup {n}
<1>1. PICK D \in SUBSET ResourceNames : m \in [D -> Resources]
  BY DEF StateKept, ResourceMaps
<1>2. IsFiniteSet(D) /\ DOMAIN m = D
  BY <1>1 DEF StateKept
<1>3. IsFiniteSet(D \cup {n}) /\ D \cup {n} \in SUBSET ResourceNames
  BY <1>2, FS_AddElement
<1>4. Put(m, n, r) \in [D \cup {n} -> Resources]
  BY <1>1 DEF Put
<1>5. Put(m, n, r) \in ResourceMaps
  BY <1>3, <1>4 DEF ResourceMaps
<1>. QED BY <1>1, <1>2, <1>3, <1>5 DEF StateKept, Put, HandedOut

LEMMA StateDrop ==
  ASSUME NEW m, NEW count \in Nat, StateKept(m, count), NEW n
  PROVE  /\ StateKept(Drop(m, n), count) /\ DOMAIN Drop(m, n) = DOMAIN m \ {n}
         /\ \A x \in DOMAIN m \ {n} : Drop(m, n)[x] = m[x]
<1>1. PICK D \in SUBSET ResourceNames : m \in [D -> Resources]
  BY DEF StateKept, ResourceMaps
<1>2. IsFiniteSet(D) /\ DOMAIN m = D
  BY <1>1 DEF StateKept
<1>3. IsFiniteSet(D \ {n}) /\ D \ {n} \in SUBSET ResourceNames
  BY <1>2, FS_RemoveElement
<1>4. Drop(m, n) \in [D \ {n} -> Resources]
  BY <1>1 DEF Drop
<1>5. Drop(m, n) \in ResourceMaps
  BY <1>3, <1>4 DEF ResourceMaps
<1>. QED BY <1>1, <1>2, <1>3, <1>5 DEF StateKept, Drop

\* While one applier works all others are idle.
LEMMA OthersIdle ==
  ASSUME ProvisionInv, NEW a \in Appliers, applier[a].phase # "idle", NEW b \in Appliers, b # a
  PROVE  applier[b].phase = "idle" /\ applier[b].pid = 0
BY DEF ProvisionInv, OneApplier, Active

\* A step of the applier that holds the lock.
LEMMA ApplierStep ==
  ASSUME ProvisionInv, NEW a \in Appliers, applier[a].phase # "idle",
         NEW s \in ApplierStates, s.phase # "idle", Becomes(a, s), lockFile' = lockFile,
         pidCount' \in Nat, unsaved' \in Nat, live' \subseteq 1..pidCount', StateKept(disk', pidCount'),
         IF Active(s) THEN ApplierInv(s, disk', live', pidCount', unsaved') ELSE s.pid = 0,
         ProgressPersisted'
  PROVE  ProvisionInv'
<1>1. applier' \in [Appliers -> ApplierStates] /\ applier'[a] = s
      /\ \A b \in Appliers : b # a => applier'[b] = applier[b]
  BY DEF ProvisionInv, ProvisionTypeOK, Becomes
<1>2. \A b \in Appliers : b # a => applier'[b].phase = "idle" /\ applier'[b].pid = 0
  BY <1>1, OthersIdle
<1>3. OneApplier'
  BY <1>1, <1>2 DEF ProvisionInv, OneApplier
<1>4. \A b \in Appliers :
        IF Active(applier'[b]) THEN ApplierInv(applier'[b], disk', live', pidCount', unsaved')
        ELSE applier'[b].pid = 0
  BY <1>1, <1>2 DEF Active
<1>5. ProvisionTypeOK'
  BY <1>1 DEF ProvisionTypeOK
<1>. QED BY <1>3, <1>4, <1>5 DEF ProvisionInv

\* What is live and not told of: nothing new, if what was told of still is.
LEMMA NothingLost ==
  ASSUME ProvisionInv, NEW a \in Appliers, applier[a].phase # "idle", NEW s \in ApplierStates,
         Becomes(a, s), unsaved' \in Nat, unsaved' >= unsaved, live' \subseteq Nat,
         \A x \in live' : \/ x \in live /\ (x = applier[a].pid => x \in SavedPids' \cup {s.pid})
                             /\ (x \in SavedPids => x \in SavedPids' \cup {s.pid})
                          \/ x = s.pid
  PROVE  ProgressPersisted'
<1>1. applier'[a] = s /\ \A b \in Appliers : b # a => applier'[b] = applier[b]
  BY DEF ProvisionInv, ProvisionTypeOK, Becomes
<1>2. s.pid \in BeingCreated'
  BY <1>1 DEF BeingCreated
<1>3. \A x \in BeingCreated : x = applier[a].pid \/ x \in BeingCreated'
  BY <1>1 DEF BeingCreated
<1>4. live' \ (SavedPids' \cup BeingCreated') \subseteq live \ (SavedPids \cup BeingCreated)
  BY <1>2, <1>3
<1>5. IsFiniteSet(live \ (SavedPids \cup BeingCreated))
  <2>1. pidCount \in Nat /\ live \subseteq 1..pidCount
    BY DEF ProvisionInv, ProvisionTypeOK
  <2>2. IsFiniteSet(1..pidCount)
    BY <2>1, FS_Interval
  <2>. QED BY <2>1, <2>2, FS_Subset
<1>6. /\ Cardinality(live' \ (SavedPids' \cup BeingCreated')) \in Nat
      /\ Cardinality(live \ (SavedPids \cup BeingCreated)) \in Nat
      /\ Cardinality(live' \ (SavedPids' \cup BeingCreated'))
           <= Cardinality(live \ (SavedPids \cup BeingCreated))
  BY <1>4, <1>5, FS_Subset, FS_CardinalityType
<1>7. unsaved \in Nat /\ Cardinality(live \ (SavedPids \cup BeingCreated)) <= unsaved
  BY DEF ProvisionInv, ProvisionTypeOK, ProgressPersisted
<1>. QED BY <1>6, <1>7 DEF ProgressPersisted

\* One more, if a failure kept the new one from being told of.
LEMMA OneLost ==
  ASSUME ProvisionInv, NEW a \in Appliers, applier[a].phase # "idle", NEW s \in ApplierStates,
         Becomes(a, s), unsaved' = unsaved + 1, live' \subseteq live, disk' = disk
  PROVE  ProgressPersisted'
<1>1. applier'[a] = s /\ \A b \in Appliers : b # a => applier'[b] = applier[b]
  BY DEF ProvisionInv, ProvisionTypeOK, Becomes
<1>. DEFINE before == live \ (SavedPids \cup BeingCreated)
            after == live' \ (SavedPids' \cup BeingCreated')
            one == applier[a].pid
<1>2. \A x \in BeingCreated : x = one \/ x \in BeingCreated'
  BY <1>1 DEF BeingCreated
<1>3. SavedPids' = SavedPids
  BY DEF SavedPids
<1>4. after \subseteq before \cup {one}
  BY <1>2, <1>3
<1>5. IsFiniteSet(before)
  <2>1. pidCount \in Nat /\ live \subseteq 1..pidCount
    BY DEF ProvisionInv, ProvisionTypeOK
  <2>2. IsFiniteSet(1..pidCount)
    BY <2>1, FS_Interval
  <2>. QED BY <2>1, <2>2, FS_Subset
<1>6. unsaved \in Nat /\ Cardinality(before) <= unsaved
  BY DEF ProvisionInv, ProvisionTypeOK, ProgressPersisted
<1>7. ProgressPersisted' <=> Cardinality(after) <= unsaved + 1
  BY DEF ProgressPersisted
<1>. HIDE DEF before, after, one
<1>8. /\ IsFiniteSet(before \cup {one}) /\ Cardinality(before) \in Nat
      /\ Cardinality(before \cup {one}) \in Nat
      /\ Cardinality(before \cup {one}) <= Cardinality(before) + 1
  <2>1. IsFiniteSet(before \cup {one})
        /\ Cardinality(before \cup {one}) = IF one \in before THEN Cardinality(before) ELSE Cardinality(before) + 1
    BY <1>5, FS_AddElement
  <2>2. Cardinality(before) \in Nat
    BY <1>5, FS_CardinalityType
  <2>. QED BY <2>1, <2>2
<1>9. Cardinality(after) \in Nat /\ Cardinality(after) <= Cardinality(before \cup {one})
  BY <1>4, <1>8, FS_Subset, FS_CardinalityType
<1>. QED BY <1>6, <1>7, <1>8, <1>9

LEMMA ProvisionStarts == ProvisionInit => ProvisionInv
<1>. SUFFICES ASSUME ProvisionInit PROVE ProvisionInv
  OBVIOUS
<1>1. applier = [a \in Appliers |-> IdleApplier] /\ disk = EmptyMap /\ live = {}
      /\ pidCount = 0 /\ unsaved = 0
  BY DEF ProvisionInit
<1>2. ProvisionTypeOK
  BY <1>1, EmptyState, IdleTyped DEF ProvisionTypeOK
<1>3. ProgressPersisted
  <2>1. live \ (SavedPids \cup BeingCreated) = {}
    BY <1>1
  <2>. QED BY <1>1, <2>1, FS_EmptySet DEF ProgressPersisted
<1>4. OneApplier
  BY <1>1, IdleTyped DEF OneApplier
<1>5. \A a \in Appliers : ~Active(applier[a]) /\ applier[a].pid = 0
  BY <1>1, IdleTyped DEF Active
<1>. QED BY <1>2, <1>3, <1>4, <1>5 DEF ProvisionInv

\* Locking takes the state file as it is; nobody else is at work.
LEMMA LockKeeps ==
  ASSUME ProvisionInv, NEW a \in Appliers, Lock(a)
  PROVE  ProvisionInv'
<1>. DEFINE s == [IdleApplier EXCEPT !.phase = "locked", !.mem = disk]
<1>1. \A b \in Appliers : applier[b].phase = "idle" /\ applier[b].pid = 0
  BY DEF Lock, ProvisionInv, OneApplier, Active
<1>2. /\ s \in ApplierStates /\ s.phase = "locked" /\ s.mem = disk /\ s.pid = 0
      /\ s.todo = <<>> /\ s.progress = <<>>
  <2>1. disk \in ResourceMaps
    BY DEF ProvisionInv, ProvisionTypeOK, StateKept
  <2>. QED BY <2>1, IdleTyped DEF ApplierStates
<1>. HIDE DEF s
<1>3. applier' = [applier EXCEPT ![a] = s] /\ applier \in [Appliers -> ApplierStates]
      /\ UNCHANGED <<disk, live, pidCount, unsaved>> /\ lockFile' = TRUE
  BY DEF Lock, Becomes, s, ProvisionInv, ProvisionTypeOK
<1>4. ApplierInv(s, disk, live, pidCount, unsaved)
  BY <1>2 DEF ApplierInv, ChangeInv, NamesInv, ProgressInv, RolledBack, ProvisionInv, ProvisionTypeOK
<1>5. ProgressPersisted'
  <2>1. BeingCreated' = BeingCreated /\ SavedPids' = SavedPids
    BY <1>1, <1>2, <1>3 DEF BeingCreated, SavedPids
  <2>. QED BY <1>3, <2>1 DEF ProgressPersisted, ProvisionInv
<1>6. OneApplier'
  BY <1>1, <1>3 DEF OneApplier
<1>7. ProvisionTypeOK'
  BY <1>2, <1>3 DEF ProvisionTypeOK, ProvisionInv
<1>8. \A b \in Appliers :
        IF Active(applier'[b]) THEN ApplierInv(applier'[b], disk', live', pidCount', unsaved')
        ELSE applier'[b].pid = 0
  BY <1>1, <1>2, <1>3, <1>4 DEF Active
<1>. QED BY <1>5, <1>6, <1>7, <1>8 DEF ProvisionInv

\* The lock is given back, by the applier or, after a crash, by an operator.
LEMMA UnlockKeeps ==
  ASSUME ProvisionInv, NEW a \in Appliers, Unlock(a) \/ OperatorRecovers(a)
  PROVE  ProvisionInv'
<1>1. /\ applier[a].phase \in {"done", "crashed"} /\ applier[a].pid = 0
      /\ Becomes(a, IdleApplier) /\ UNCHANGED <<disk, live, pidCount, unsaved>>
  BY DEF Unlock, OperatorRecovers, ProvisionInv, Active, ApplierInv, ChangeInv
<1>2. applier' \in [Appliers -> ApplierStates] /\ applier'[a] = IdleApplier
      /\ \A b \in Appliers : b # a => applier'[b] = applier[b]
  BY <1>1, IdleTyped DEF ProvisionInv, ProvisionTypeOK, Becomes
<1>3. \A b \in Appliers : applier'[b].phase = "idle" /\ applier'[b].pid = 0
  BY <1>1, <1>2, OthersIdle, IdleTyped
<1>4. ProgressPersisted'
  <2>1. BeingCreated' = BeingCreated /\ SavedPids' = SavedPids
    <3>1. \A b \in Appliers : applier'[b].pid = applier[b].pid
      BY <1>1, <1>2, <1>3
    <3>. QED BY <1>1, <3>1 DEF BeingCreated, SavedPids
  <2>. QED BY <1>1, <2>1 DEF ProgressPersisted, ProvisionInv
<1>5. ProvisionTypeOK'
  BY <1>1, <1>2 DEF ProvisionTypeOK, ProvisionInv
<1>6. OneApplier' /\ \A b \in Appliers : ~Active(applier'[b])
  BY <1>3 DEF OneApplier, Active
<1>. QED BY <1>3, <1>4, <1>5, <1>6 DEF ProvisionInv

\* A crash forgets the state in memory and what was being created.
LEMMA CrashKeeps ==
  ASSUME ProvisionInv, NEW a \in Appliers, Crash(a)
  PROVE  ProvisionInv'
<1>. DEFINE s == [IdleApplier EXCEPT !.phase = "crashed"]
<1>1. s \in ApplierStates /\ s.phase = "crashed" /\ s.pid = 0
  BY IdleTyped DEF ApplierStates
<1>2. Becomes(a, s) /\ unsaved' = unsaved + 1 /\ UNCHANGED <<disk, lockFile, live, pidCount>>
      /\ applier[a].phase # "idle"
  BY DEF Crash
<1>. HIDE DEF s
<1>3. ProgressPersisted'
  BY <1>1, <1>2, OneLost
<1>4. /\ pidCount' \in Nat /\ unsaved' \in Nat /\ live' \subseteq 1..pidCount' /\ StateKept(disk', pidCount')
  BY <1>2 DEF ProvisionInv, ProvisionTypeOK
<1>. QED BY <1>1, <1>2, <1>3, <1>4, ApplierStep DEF Active

\* One change per name, a create only of what is not there.
LEMMA OneChange ==
  ASSUME NEW m, NEW count, StateKept(m, count), NEW t \in Topologies,
         NEW n \in DOMAIN t \cup {x \in DOMAIN m : ~m[x].preventDestroy}
  PROVE  LET c == PlannedChange(m, t, n)
         IN c \in PlanChanges /\ c.name = n /\ (c.action = "Create" => n \notin DOMAIN m)
<1>1. PICK D \in SUBSET ResourceNames : m \in [D -> Resources]
  BY DEF StateKept, ResourceMaps
<1>2. n \in ResourceNames
  BY <1>1 DEF ResourceNames
<1>3. NoConfig \in ResourceConfigs /\ (n \in DOMAIN t => t[n].config \in ResourceConfigs)
  <2>1. n \in DOMAIN t => t[n].config \in {t[x].config : x \in DOMAIN t}
    OBVIOUS
  <2>2. {t[x].config : x \in DOMAIN t} \in {{u[x].config : x \in DOMAIN u} : u \in Topologies}
    OBVIOUS
  <2>3. \A Y, X, z : X \in Y /\ z \in X => z \in UNION Y
    OBVIOUS
  <2>4. n \in DOMAIN t => t[n].config \in UNION {{u[x].config : x \in DOMAIN u} : u \in Topologies}
    BY <2>1, <2>2, <2>3
  <2>. QED BY <2>4 DEF ResourceConfigs
<1>. QED BY <1>2, <1>3 DEF PlannedChange, Change, PlanChanges, ChangeActions

\* The changes apply goes through.
LEMMA PlanTyped ==
  ASSUME NEW m, NEW count, StateKept(m, count), NEW t \in Topologies,
         NEW plan \in Sorted(Planned(m, t), t), NEW s \in Mutating(plan)
  PROVE  /\ s \in Seq(PlanChanges)
         /\ \A i, j \in DOMAIN s : s[i].name = s[j].name => i = j
         /\ \A i \in DOMAIN s : s[i].action = "Create" => s[i].name \notin DOMAIN m
<1>. DEFINE N == DOMAIN t \cup {x \in DOMAIN m : ~m[x].preventDestroy}
            P == Planned(m, t)
            C == {c \in ToSet(plan) : c.action # "NoOp"}
<1>1. IsFiniteSet(N)
  <2>1. IsFiniteSet(DOMAIN m) /\ {x \in DOMAIN m : ~m[x].preventDestroy} \subseteq DOMAIN m
    BY DEF StateKept
  <2>2. IsFiniteSet({x \in DOMAIN m : ~m[x].preventDestroy})
    BY <2>1, FS_Subset
  <2>3. IsFiniteSet(DOMAIN t)
    BY ProvisionAssumption
  <2>. QED BY <2>2, <2>3, FS_Union
<1>2. P = {PlannedChange(m, t, n) : n \in N}
  BY DEF Planned
<1>3. \A n \in N : LET c == PlannedChange(m, t, n)
                   IN c \in PlanChanges /\ c.name = n /\ (c.action = "Create" => n \notin DOMAIN m)
  BY OneChange
<1>. HIDE DEF N
<1>4. IsFiniteSet(P)
  <2>1. [n \in N |-> PlannedChange(m, t, n)] \in Surjection(N, P)
    BY <1>2 DEF Surjection
  <2>. QED BY <1>1, <2>1, FS_Surjection
<1>5. plan \in [1..Cardinality(P) -> P]
  BY DEF Sorted, SetToSeqs
<1>. HIDE DEF P
<1>6. C \subseteq P
  BY <1>5 DEF ToSet
<1>7. IsFiniteSet(C) /\ Cardinality(C) \in Nat
  BY <1>4, <1>6, FS_Subset, FS_CardinalityType
<1>8. s \in [1..Cardinality(C) -> C] /\ \A i, j \in 1..Cardinality(C) : i # j => s[i] # s[j]
  BY DEF Mutating, SetToSeqs
<1>. HIDE DEF C
<1>9. \A c \in C : c \in PlanChanges /\ (c.action = "Create" => c.name \notin DOMAIN m)
                   /\ c = PlannedChange(m, t, c.name)
  BY <1>2, <1>3, <1>6
<1>10. s \in Seq(PlanChanges) /\ DOMAIN s = 1..Cardinality(C) /\ \A i \in DOMAIN s : s[i] \in C
  BY <1>7, <1>8, <1>9
<1>11. \A i, j \in DOMAIN s : s[i].name = s[j].name => i = j
  <2>1. \A i, j \in DOMAIN s : s[i].name = s[j].name => s[i] = s[j]
    BY <1>9, <1>10
  <2>. QED BY <1>8, <1>10, <2>1
<1>. QED BY <1>9, <1>10, <1>11

LEMMA PlanKeeps ==
  ASSUME ProvisionInv, NEW a \in Appliers, NEW t \in Topologies, NEW dry \in BOOLEAN,
         NEW rollback \in BOOLEAN, PlanAndApply(a, t, dry, rollback)
  PROVE  ProvisionInv'
<1>. DEFINE st == applier[a]
<1>1. /\ st \in ApplierStates /\ st.phase = "locked" /\ st.pid = 0 /\ st.todo = <<>> /\ st.progress = <<>>
      /\ StateKept(st.mem, pidCount) /\ PidsOf(disk) \cap live \subseteq PidsOf(st.mem)
      /\ UNCHANGED <<disk, lockFile, live, pidCount, unsaved>>
  BY DEF PlanAndApply, ProvisionInv, ProvisionTypeOK, Active, ApplierInv, ChangeInv
<1>2. /\ pidCount \in Nat /\ unsaved \in Nat /\ live \subseteq 1..pidCount /\ StateKept(disk, pidCount)
  BY DEF ProvisionInv, ProvisionTypeOK
<1>3. ASSUME NEW s \in ApplierStates, Becomes(a, s), s.phase # "idle", s.pid = 0, Active(s),
             ApplierInv(s, disk, live, pidCount, unsaved)
      PROVE  ProvisionInv'
  <2>1. SavedPids' = SavedPids
    BY <1>1 DEF SavedPids
  <2>2. ProgressPersisted'
    BY <1>1, <1>2, <1>3, <2>1, NothingLost
  <2>. QED BY <1>1, <1>2, <1>3, <2>2, ApplierStep
<1>4. CASE Becomes(a, [st EXCEPT !.phase = "done"])
  <2>. DEFINE s == [st EXCEPT !.phase = "done"]
  <2>1. /\ s \in ApplierStates /\ s.phase = "done" /\ s.pid = 0 /\ s.todo = <<>> /\ s.progress = <<>>
        /\ s.mem = st.mem
    BY <1>1 DEF ApplierStates
  <2>2. ApplierInv(s, disk, live, pidCount, unsaved)
    <3>. HIDE DEF s, st
    <3>. QED BY <1>1, <1>2, <2>1 DEF ApplierInv, ChangeInv, NamesInv, ProgressInv, RolledBack
  <2>. HIDE DEF s
  <2>. QED BY <1>3, <1>4, <2>1, <2>2 DEF s, Active
<1>5. CASE \E plan \in Sorted(Planned(st.mem, t), t) : \E x \in Mutating(plan) :
            Becomes(a, [st EXCEPT !.phase = "change", !.desired = t, !.dryRun = dry,
                                  !.autoRollback = rollback, !.todo = x])
  <2>0. PICK plan \in Sorted(Planned(st.mem, t), t) : \E x \in Mutating(plan) :
            Becomes(a, [st EXCEPT !.phase = "change", !.desired = t, !.dryRun = dry,
                                  !.autoRollback = rollback, !.todo = x])
    BY <1>5
  <2>1. PICK x \in Mutating(plan) :
            Becomes(a, [st EXCEPT !.phase = "change", !.desired = t, !.dryRun = dry,
                                  !.autoRollback = rollback, !.todo = x])
    BY <2>0
  <2>2. /\ x \in Seq(PlanChanges)
        /\ \A i, j \in DOMAIN x : x[i].name = x[j].name => i = j
        /\ \A i \in DOMAIN x : x[i].action = "Create" => x[i].name \notin DOMAIN st.mem
    BY <1>1, PlanTyped
  <2>. DEFINE s == [st EXCEPT !.phase = "change", !.desired = t, !.dryRun = dry,
                              !.autoRollback = rollback, !.todo = x]
  <2>3. /\ s \in ApplierStates /\ s.phase = "change" /\ s.pid = 0 /\ s.todo = x /\ s.progress = <<>>
        /\ s.mem = st.mem
    BY <1>1, <2>2 DEF ApplierStates
  <2>4. ApplierInv(s, disk, live, pidCount, unsaved)
    <3>. HIDE DEF s, st
    <3>. QED BY <1>1, <1>2, <2>2, <2>3 DEF ApplierInv, ChangeInv, NamesInv, ProgressInv, RolledBack
  <2>. HIDE DEF s
  <2>. QED BY <1>3, <2>1, <2>3, <2>4 DEF s, Active
<1>. QED BY <1>4, <1>5 DEF PlanAndApply

\* What is saved and in memory when a change is over, and what its entry says.
ChangeOver(st, saved1, existing, count, lost1, st2, saved2, lost2, status) ==
  /\ ApplierInv(st, saved1, existing, count, lost1) /\ st.todo # <<>>
  /\ st2.todo = st.todo /\ st2.progress = st.progress
  /\ StateKept(st2.mem, count) /\ DOMAIN st2.mem \subseteq DOMAIN st.mem \cup {Head(st.todo).name}
  /\ PidsOf(saved2) \cap existing \subseteq PidsOf(st2.mem)
  /\ lost2 >= lost1 /\ status \in {"Succeeded", "Failed", "Skipped"}
  /\ /\ Head(st.todo).action = "Create"
     /\ status = "Skipped" \/ (status = "Failed" /\ lost2 = 0)
     => Head(st.todo).name \notin DOMAIN st2.mem

\* It leaves the list, and its entry is true.
LEMMA ReportKeeps ==
  ASSUME NEW st \in ApplierStates, NEW saved1, NEW existing, NEW count \in Nat, NEW lost1 \in Nat,
         NEW st2 \in ApplierStates, NEW saved2, NEW lost2 \in Nat, NEW status,
         ChangeOver(st, saved1, existing, count, lost1, st2, saved2, lost2, status)
  PROVE  /\ Reported(st2, status) \in ApplierStates
         /\ Reported(st2, status).phase = "change" /\ Reported(st2, status).pid = 0
         /\ ApplierInv(Reported(st2, status), saved2, existing, count, lost2)
<1>. DEFINE r == Reported(st2, status)
            e == Entry(Head(st.todo), status)
<1>. USE DEF ChangeOver
<1>1. /\ st.todo \in Seq(PlanChanges) /\ Head(st.todo) \in PlanChanges /\ Head(st.todo) = st.todo[1]
      /\ Tail(st.todo) \in Seq(PlanChanges) /\ 1 \in DOMAIN st.todo
      /\ Len(st.todo) \in Nat /\ DOMAIN Tail(st.todo) = 1..(Len(st.todo) - 1)
      /\ DOMAIN st.todo = 1..Len(st.todo)
      /\ \A i \in DOMAIN Tail(st.todo) : Tail(st.todo)[i] = st.todo[i + 1] /\ i + 1 \in DOMAIN st.todo
  <2>1. st.todo \in Seq(PlanChanges)
    BY DEF ApplierStates
  <2>. QED BY <2>1
<1>2. e \in ProgressEntries /\ e.name = st.todo[1].name /\ e.action = st.todo[1].action /\ e.status = status
  BY <1>1 DEF Entry, ProgressEntries, PlanChanges
<1>3. /\ st.progress \in Seq(ProgressEntries) /\ Append(st.progress, e) \in Seq(ProgressEntries)
      /\ DOMAIN Append(st.progress, e) = DOMAIN st.progress \cup {Len(st.progress) + 1}
      /\ \A k \in DOMAIN st.progress : Append(st.progress, e)[k] = st.progress[k]
      /\ Append(st.progress, e)[Len(st.progress) + 1] = e
  <2>1. st.progress \in Seq(ProgressEntries)
    BY DEF ApplierStates
  <2>. HIDE DEF e
  <2>. QED BY <1>2, <2>1
<1>4. /\ r \in ApplierStates /\ r.phase = "change" /\ r.pid = 0 /\ r.mem = st2.mem
      /\ r.todo = Tail(st.todo) /\ r.progress = Append(st.progress, e)
  BY <1>1, <1>3 DEF Reported, ApplierStates
<1>. HIDE DEF r, e
<1>5. /\ \A i, j \in DOMAIN st.todo : st.todo[i].name = st.todo[j].name => i = j
      /\ \A i \in DOMAIN st.todo, k \in DOMAIN st.progress : st.todo[i].name # st.progress[k].name
      /\ \A i \in DOMAIN st.todo : st.todo[i].action = "Create" => st.todo[i].name \notin DOMAIN st.mem
  BY DEF ApplierInv, NamesInv
<1>6. NamesInv(r)
  <2>1. ASSUME NEW i \in DOMAIN r.todo, NEW j \in DOMAIN r.todo, r.todo[i].name = r.todo[j].name
        PROVE  i = j
    <3>1. i \in Nat /\ j \in Nat /\ i + 1 \in DOMAIN st.todo /\ j + 1 \in DOMAIN st.todo
          /\ st.todo[i + 1].name = st.todo[j + 1].name
      BY <1>1, <1>4, <2>1
    <3>2. i + 1 = j + 1
      BY <1>5, <3>1
    <3>. QED BY <3>1, <3>2
  <2>2. ASSUME NEW i \in DOMAIN r.todo
        PROVE  r.todo[i].name # st.todo[1].name
    <3>1. i \in Nat \ {0} /\ i + 1 \in DOMAIN st.todo /\ r.todo[i] = st.todo[i + 1] /\ 1 \in DOMAIN st.todo
      BY <1>1, <1>4
    <3>2. i + 1 # 1
      BY <3>1
    <3>. QED BY <1>5, <3>1, <3>2
  <2>3. \A i \in DOMAIN r.todo, k \in DOMAIN r.progress : r.todo[i].name # r.progress[k].name
    BY <1>1, <1>2, <1>3, <1>4, <1>5, <2>2
  <2>4. \A i \in DOMAIN r.todo : r.todo[i].action = "Create" => r.todo[i].name \notin DOMAIN r.mem
    BY <1>1, <1>4, <1>5, <2>2
  <2>. QED BY <2>1, <2>3, <2>4 DEF NamesInv
<1>7. ProgressInv(r, lost2)
  <2>1. ProgressInv(st, lost1)
    BY DEF ApplierInv
  <2>2. ASSUME NEW k \in DOMAIN st.progress, st.progress[k].action = "Create",
               st.progress[k].status \in {"Skipped", "Undone"} \/ (st.progress[k].status = "Failed" /\ lost2 = 0)
        PROVE  st.progress[k].name \notin DOMAIN st2.mem
    <3>1. st.progress[k].name \notin DOMAIN st.mem
      BY <2>1, <2>2 DEF ProgressInv
    <3>2. st.progress[k].name # Head(st.todo).name
      BY <1>1, <1>5
    <3>. QED BY <3>1, <3>2
  <2>3. e.action = "Create" /\ (e.status \in {"Skipped", "Undone"} \/ (e.status = "Failed" /\ lost2 = 0))
        => e.name \notin DOMAIN st2.mem
    BY <1>1, <1>2
  <2>. QED BY <1>3, <1>4, <2>2, <2>3 DEF ProgressInv
<1>8. ChangeInv(r, existing) /\ RolledBack(r)
  BY <1>4 DEF ChangeInv, RolledBack
<1>9. ApplierInv(r, saved2, existing, count, lost2)
  BY <1>4, <1>6, <1>7, <1>8 DEF ApplierInv
<1>. QED BY <1>4, <1>9 DEF r

\* What an applier at work knows.
LEMMA AtWork ==
  ASSUME ProvisionInv, NEW a \in Appliers, applier[a].phase \notin {"idle", "crashed"}
  PROVE  /\ applier[a] \in ApplierStates /\ ApplierInv(applier[a], disk, live, pidCount, unsaved)
         /\ pidCount \in Nat /\ unsaved \in Nat /\ live \subseteq 1..pidCount /\ live \subseteq Nat
         /\ StateKept(disk, pidCount) /\ StateKept(applier[a].mem, pidCount)
         /\ PidsOf(disk) = SavedPids /\ 0 \notin live
         /\ PidsOf(disk) \cap live \subseteq PidsOf(applier[a].mem)
BY DEF ProvisionInv, ProvisionTypeOK, Active, ApplierInv, PidsOf, SavedPids

\* A change that is skipped, refused or failed by its provider.
LEMMA NotDoneKeeps ==
  ASSUME ProvisionInv, NEW a \in Appliers, applier[a].phase \in {"change", "recreate"},
         applier[a].todo # <<>>, NEW status \in {"Failed", "Skipped"},
         Becomes(a, Reported(applier[a], status)), UNCHANGED <<disk, lockFile, live, pidCount, unsaved>>
  PROVE  ProvisionInv'
<1>. DEFINE st == applier[a]
            r == Reported(st, status)
<1>1. /\ st \in ApplierStates /\ ApplierInv(st, disk, live, pidCount, unsaved)
      /\ pidCount \in Nat /\ unsaved \in Nat /\ live \subseteq 1..pidCount /\ live \subseteq Nat
      /\ StateKept(disk, pidCount) /\ StateKept(st.mem, pidCount) /\ 0 \notin live
      /\ PidsOf(disk) \cap live \subseteq PidsOf(st.mem)
  BY AtWork
<1>2. st.pid = 0 /\ (Head(st.todo).action = "Create" => Head(st.todo).name \notin DOMAIN st.mem)
  <2>1. st.pid = 0
    BY <1>1 DEF ApplierInv, ChangeInv
  <2>2. Head(st.todo) = st.todo[1] /\ 1 \in DOMAIN st.todo
    BY <1>1 DEF ApplierStates
  <2>. QED BY <1>1, <2>1, <2>2 DEF ApplierInv, NamesInv
<1>3. r \in ApplierStates /\ r.phase = "change" /\ r.pid = 0 /\ ApplierInv(r, disk, live, pidCount, unsaved)
  <2>. HIDE DEF st, r
  <2>1. unsaved >= unsaved /\ DOMAIN st.mem \subseteq DOMAIN st.mem \cup {Head(st.todo).name} /\ st.todo # <<>>
    BY <1>1 DEF st
  <2>2. ChangeOver(st, disk, live, pidCount, unsaved, st, disk, unsaved, status)
    BY <1>1, <1>2, <2>1 DEF ChangeOver
  <2>3. /\ Reported(st, status) \in ApplierStates
        /\ Reported(st, status).phase = "change" /\ Reported(st, status).pid = 0
        /\ ApplierInv(Reported(st, status), disk, live, pidCount, unsaved)
    BY <1>1, <2>2, ReportKeeps
  <2>. QED BY <2>3 DEF r
<1>. HIDE DEF r
<1>4. ProgressPersisted'
  <2>1. SavedPids' = SavedPids
    BY DEF SavedPids
  <2>2. Becomes(a, r) /\ unsaved' \in Nat /\ unsaved' >= unsaved /\ live' \subseteq Nat /\ 0 \notin live'
        /\ live' = live /\ st.phase # "idle"
    BY <1>1 DEF r
  <2>. QED BY <1>2, <1>3, <2>1, <2>2, NothingLost
<1>. QED BY <1>1, <1>3, <1>4, ApplierStep DEF r, Active

LEMMA SkipsKeeps ==
  ASSUME ProvisionInv, NEW a \in Appliers, Skips(a)
  PROVE  ProvisionInv'
BY NotDoneKeeps DEF Skips, Attempts

LEMMA ProviderFailsKeeps ==
  ASSUME ProvisionInv, NEW a \in Appliers, ProviderFails(a)
  PROVE  ProvisionInv'
<1>1. applier[a].phase \in {"change", "recreate"} /\ applier[a].todo # <<>>
  BY DEF ProviderFails, Starts, Attempts, ProvisionInv, Active, ApplierInv, ChangeInv
<1>. QED BY <1>1, NotDoneKeeps DEF ProviderFails

\* A change goes on to its next step with the state as it was.
LEMMA GoesOn ==
  ASSUME ProvisionInv, NEW a \in Appliers, applier[a].phase \in {"change", "recreate"},
         NEW s \in ApplierStates, Becomes(a, s), s.phase \in {"recreate", "record"},
         s.mem = applier[a].mem, s.todo = applier[a].todo, s.progress = applier[a].progress,
         lockFile' = lockFile, disk' = disk, unsaved' = unsaved,
         pidCount' \in Nat, pidCount' >= pidCount, live' \subseteq 1..pidCount', s.pid <= pidCount',
         live' \subseteq live \cup {s.pid}, s.pid = 0 \/ s.pid > pidCount, ChangeInv(s, live')
  PROVE  ProvisionInv'
<1>. DEFINE st == applier[a]
<1>1. /\ st \in ApplierStates /\ ApplierInv(st, disk, live, pidCount, unsaved)
      /\ pidCount \in Nat /\ unsaved \in Nat /\ live \subseteq 1..pidCount /\ live \subseteq Nat
      /\ StateKept(disk, pidCount) /\ StateKept(st.mem, pidCount) /\ 0 \notin live
      /\ PidsOf(disk) \cap live \subseteq PidsOf(st.mem) /\ PidsOf(disk) = SavedPids
  BY AtWork
<1>2. st.pid = 0
  BY <1>1 DEF ApplierInv, ChangeInv
<1>3. ASSUME NEW m, StateKept(m, pidCount)
      PROVE  StateKept(m, pidCount') /\ \A x \in PidsOf(m) : x \in Nat /\ x <= pidCount
  <2>1. PICK D \in SUBSET ResourceNames : m \in [D -> Resources]
    BY <1>3 DEF StateKept, ResourceMaps
  <2>2. \A n \in DOMAIN m : m[n].pid \in Nat /\ m[n].pid <= pidCount
    BY <1>3, <2>1 DEF StateKept, Resources
  <2>. QED BY <1>1, <1>3, <2>2 DEF StateKept, PidsOf
<1>4. StateKept(disk', pidCount') /\ StateKept(s.mem, pidCount')
  BY <1>1, <1>3
<1>5. PidsOf(disk') \cap live' \subseteq PidsOf(s.mem)
  <2>1. \A x \in PidsOf(disk) : x \in Nat /\ x <= pidCount
    BY <1>1, <1>3
  <2>2. ASSUME NEW x \in PidsOf(disk'), x \in live' PROVE x \in PidsOf(s.mem)
    <3>1. x \in PidsOf(disk) /\ x \in Nat /\ x <= pidCount
      BY <2>1, <2>2
    <3>2. x # s.pid
      <4>1. s.pid \in Nat /\ 0 \notin live'
        BY DEF ApplierStates
      <4>. QED BY <1>1, <2>2, <3>1, <4>1
    <3>. QED BY <1>1, <2>2, <3>1, <3>2
  <2>. QED BY <2>2
<1>6. NamesInv(s) /\ ProgressInv(s, unsaved') /\ RolledBack(s)
  BY <1>1 DEF ApplierInv, NamesInv, ProgressInv, RolledBack
<1>7. ApplierInv(s, disk', live', pidCount', unsaved')
  BY <1>4, <1>5, <1>6 DEF ApplierInv
<1>8. ProgressPersisted'
  <2>1. SavedPids' = SavedPids
    BY DEF SavedPids
  <2>2. unsaved' \in Nat /\ unsaved' >= unsaved /\ live' \subseteq Nat /\ st.phase # "idle"
    BY <1>1
  <2>3. \A x \in live' : x \in live \/ x = s.pid
    OBVIOUS
  <2>. QED BY <1>1, <1>2, <2>1, <2>2, <2>3, NothingLost
<1>. QED BY <1>1, <1>4, <1>7, <1>8, ApplierStep DEF Active

LEMMA CreatedKeeps ==
  ASSUME ProvisionInv, NEW a \in Appliers, applier[a].phase \in {"change", "recreate"},
         applier[a].todo # <<>>, Head(applier[a].todo).action \in {"Create", "Replace"},
         applier[a].phase = "recreate" \/ Head(applier[a].todo).action = "Create", Created(a, applier[a])
  PROVE  ProvisionInv'
<1>. DEFINE st == applier[a]
            s == [st EXCEPT !.phase = "record", !.pid = pidCount + 1]
<1>1. /\ st \in ApplierStates /\ ApplierInv(st, disk, live, pidCount, unsaved)
      /\ pidCount \in Nat /\ live \subseteq 1..pidCount /\ StateKept(st.mem, pidCount)
  BY AtWork
<1>2. /\ s \in ApplierStates /\ s.phase = "record" /\ s.pid = pidCount + 1 /\ s.mem = st.mem
      /\ s.todo = st.todo /\ s.progress = st.progress
  <2>1. pidCount + 1 \in Nat
    BY <1>1
  <2>. HIDE DEF st
  <2>. QED BY <1>1, <2>1 DEF ApplierStates
<1>3. /\ Becomes(a, s) /\ pidCount' = pidCount + 1 /\ live' = live \cup {pidCount + 1}
      /\ UNCHANGED <<disk, lockFile, unsaved>>
  BY DEF Created
<1>. HIDE DEF s
<1>4. ChangeInv(s, live')
  <2>1. ASSUME Head(st.todo).action # "Create", Head(st.todo).name \in DOMAIN st.mem
        PROVE  st.mem[Head(st.todo).name].pid \notin live'
    <3>1. st.mem[Head(st.todo).name].pid \notin live
      BY <1>1, <2>1 DEF ApplierInv, ChangeInv
    <3>2. PICK D \in SUBSET ResourceNames : st.mem \in [D -> Resources]
      BY <1>1 DEF StateKept, ResourceMaps
    <3>3. st.mem[Head(st.todo).name].pid \in Nat /\ st.mem[Head(st.todo).name].pid <= pidCount
      BY <1>1, <2>1, <3>2 DEF StateKept, Resources
    <3>. QED BY <1>1, <1>3, <3>1, <3>3
  <2>. QED BY <1>2, <2>1 DEF ChangeInv
<1>5. /\ pidCount' \in Nat /\ pidCount' >= pidCount /\ live' \subseteq 1..pidCount' /\ s.pid <= pidCount'
      /\ live' \subseteq live \cup {s.pid} /\ s.pid > pidCount
      /\ disk' = disk /\ lockFile' = lockFile /\ unsaved' = unsaved
  <2>1. pidCount' \in Nat /\ pidCount' >= pidCount /\ s.pid = pidCount' /\ pidCount' > pidCount
    BY <1>1, <1>2, <1>3
  <2>2. s.pid <= pidCount' /\ s.pid > pidCount
    BY <2>1
  <2>3. 1..pidCount \subseteq 1..pidCount' /\ pidCount + 1 \in 1..pidCount'
    BY <1>1, <1>3
  <2>4. live' \subseteq 1..pidCount' /\ live' \subseteq live \cup {s.pid}
    BY <1>1, <1>2, <1>3, <2>3, Zenon
  <2>5. disk' = disk /\ lockFile' = lockFile /\ unsaved' = unsaved
    BY <1>3
  <2>. QED BY <2>1, <2>2, <2>4, <2>5, Zenon
<1>. QED BY <1>2, <1>3, <1>4, <1>5, GoesOn

LEMMA StartKeeps ==
  ASSUME ProvisionInv, NEW a \in Appliers,
         CreateChange(a) \/ UpdateChange(a) \/ DeleteChange(a) \/ Recreate(a)
  PROVE  ProvisionInv'
<1>. DEFINE st == applier[a]
<1>0. st.phase \in {"change", "recreate"} /\ st.todo # <<>>
  BY DEF CreateChange, UpdateChange, DeleteChange, Recreate, Starts, Attempts, ProvisionInv, Active,
     ApplierInv, ChangeInv
<1>1. /\ st \in ApplierStates /\ ApplierInv(st, disk, live, pidCount, unsaved)
      /\ pidCount \in Nat /\ unsaved \in Nat /\ live \subseteq 1..pidCount /\ StateKept(st.mem, pidCount)
  BY <1>0, AtWork
<1>2. st.pid = 0
  BY <1>0, <1>1 DEF ApplierInv, ChangeInv
<1>3. CASE CreateChange(a)
  <2>1. CASE Created(a, st)
    BY <1>0, <1>3, <2>1, CreatedKeeps DEF CreateChange, Starts, Attempts
  <2>2. CASE Becomes(a, Reported(st, "Failed")) /\ UNCHANGED <<disk, lockFile, live, pidCount, mishaps, unsaved>>
    BY <1>0, <2>2, NotDoneKeeps
  <2>. QED BY <1>3, <2>1, <2>2 DEF CreateChange
<1>4. CASE Recreate(a)
  BY <1>0, <1>1, <1>4, CreatedKeeps DEF Recreate, ApplierInv, ChangeInv
<1>5. CASE UpdateChange(a)
  <2>. DEFINE s == [st EXCEPT !.phase = "record"]
  <2>1. /\ s \in ApplierStates /\ s.phase = "record" /\ s.pid = 0 /\ s.mem = st.mem
        /\ s.todo = st.todo /\ s.progress = st.progress
    BY <1>1, <1>2 DEF ApplierStates
  <2>2. Becomes(a, s) /\ UNCHANGED <<disk, lockFile, live, pidCount, unsaved>> /\ Head(st.todo).action = "Update"
    BY <1>5 DEF UpdateChange, Starts
  <2>. HIDE DEF s
  <2>3. ChangeInv(s, live')
    BY <1>0, <2>1, <2>2 DEF ChangeInv
  <2>. QED BY <1>0, <1>1, <2>1, <2>2, <2>3, GoesOn
<1>6. CASE DeleteChange(a)
  <2>. DEFINE p == IF Head(st.todo).action = "Destroy" THEN "record" ELSE "recreate"
              s == [st EXCEPT !.phase = p]
  <2>1. /\ s \in ApplierStates /\ s.phase = p /\ s.pid = 0 /\ s.mem = st.mem
        /\ s.todo = st.todo /\ s.progress = st.progress
    BY <1>1, <1>2 DEF ApplierStates
  <2>2. /\ Becomes(a, s) /\ UNCHANGED <<disk, lockFile, pidCount, unsaved>>
        /\ live' = live \ {st.mem[Head(st.todo).name].pid} /\ Head(st.todo).action \in {"Destroy", "Replace"}
    BY <1>6 DEF DeleteChange, Starts
  <2>. HIDE DEF s
  <2>3. ChangeInv(s, live')
    BY <1>0, <2>1, <2>2 DEF ChangeInv
  <2>4. /\ pidCount' \in Nat /\ pidCount' >= pidCount /\ live' \subseteq 1..pidCount' /\ s.pid <= pidCount'
        /\ live' \subseteq live \cup {s.pid} /\ disk' = disk /\ lockFile' = lockFile /\ unsaved' = unsaved
    <3>. HIDE DEF st, p
    <3>1. pidCount' = pidCount /\ disk' = disk /\ lockFile' = lockFile /\ unsaved' = unsaved /\ live' \subseteq live
      BY <2>2
    <3>2. s.pid = 0 /\ 0 <= pidCount /\ pidCount >= pidCount
      BY <1>1, <2>1
    <3>. QED BY <1>1, <3>1, <3>2
  <2>5. s.phase \in {"recreate", "record"}
    BY <2>1
  <2>. HIDE DEF p
  <2>. QED BY <1>0, <2>1, <2>2, <2>3, <2>4, <2>5, GoesOn
<1>. QED BY <1>3, <1>4, <1>5, <1>6

\* What a change leaves in the state: it drops nothing that still exists, and
\* has in it what was created.
LEMMA AppliedState ==
  ASSUME ProvisionInv, NEW a \in Appliers, applier[a].phase = "record"
  PROVE  LET st == applier[a]
             m == Applied(st)
         IN /\ StateKept(m, pidCount) /\ DOMAIN m \subseteq DOMAIN st.mem \cup {Head(st.todo).name}
            /\ \A x \in live : x \in PidsOf(st.mem) \/ x = st.pid => x \in PidsOf(m)
<1>. DEFINE st == applier[a]
            c == Head(st.todo)
            m == Applied(st)
<1>1. /\ st \in ApplierStates /\ ApplierInv(st, disk, live, pidCount, unsaved)
      /\ pidCount \in Nat /\ live \subseteq 1..pidCount /\ StateKept(st.mem, pidCount) /\ 0 \notin live
  BY AtWork
<1>2. /\ st.todo # <<>> /\ c.action # "NoOp" /\ st.pid \in Nat /\ st.pid <= pidCount
      /\ c.action \in {"Update", "Destroy"} => st.pid = 0
      /\ c.action \in {"Destroy", "Replace"} /\ c.name \in DOMAIN st.mem => st.mem[c.name].pid \notin live
  BY <1>1 DEF ApplierInv, ChangeInv, ApplierStates
<1>3. c \in PlanChanges /\ c = st.todo[1] /\ 1 \in DOMAIN st.todo
  BY <1>1, <1>2 DEF ApplierStates
<1>4. c.action = "Create" => c.name \notin DOMAIN st.mem
  BY <1>1, <1>3 DEF ApplierInv, NamesInv
<1>5. /\ c.action \in {"Create", "Replace", "Update", "Destroy"}
      /\ c.name \in ResourceNames /\ c.after \in ResourceConfigs
  BY <1>2, <1>3 DEF PlanChanges, ChangeActions
<1>6. PICK D \in SUBSET ResourceNames : st.mem \in [D -> Resources]
  BY <1>1 DEF StateKept, ResourceMaps
<1>7. m = CASE c.action \in {"Create", "Replace"} ->
                 Put(st.mem, c.name, Recorded(ProviderOf(st, c.name), c.after, st.pid))
            [] c.action = "Update" -> [st.mem EXCEPT ![c.name].config = c.after]
            [] c.action = "Destroy" -> Drop(st.mem, c.name)
  BY DEF Applied
<1>. HIDE DEF m, c, st
<1>8. CASE c.action \in {"Create", "Replace"}
  <2>. DEFINE r == Recorded(ProviderOf(st, c.name), c.after, st.pid)
  <2>1. r \in Resources /\ r.pid = st.pid
    <3>1. ProviderOf(st, c.name) = "agent_pool"
      BY <1>6 DEF ProviderOf, Resources
    <3>. QED BY <1>2, <1>5, <3>1 DEF Recorded, Resources
  <2>2. m = Put(st.mem, c.name, r)
    BY <1>7, <1>8
  <2>. HIDE DEF r
  <2>3. /\ StateKept(m, pidCount) /\ DOMAIN m = DOMAIN st.mem \cup {c.name} /\ m[c.name] = r
        /\ \A x \in DOMAIN st.mem \ {c.name} : m[x] = st.mem[x]
    <3>1. HandedOut(r, pidCount)
      BY <1>2, <2>1 DEF HandedOut
    <3>0. \A mem : \A n \in ResourceNames : \A q \in Resources :
            StateKept(mem, pidCount) /\ HandedOut(q, pidCount) =>
              StateKept(Put(mem, n, q), pidCount) /\ DOMAIN Put(mem, n, q) = DOMAIN mem \cup {n}
      BY <1>1, StatePut
    <3>2. StateKept(Put(st.mem, c.name, r), pidCount) /\ DOMAIN Put(st.mem, c.name, r) = DOMAIN st.mem \cup {c.name}
      BY <1>1, <1>5, <2>1, <3>1, <3>0, Zenon
    <3>3. m = [x \in DOMAIN st.mem \cup {c.name} |-> IF x = c.name THEN r ELSE st.mem[x]]
      BY <2>2 DEF Put
    <3>. QED BY <2>2, <3>2, <3>3
  <2>4. ASSUME NEW x \in live, x \in PidsOf(st.mem) \/ x = st.pid
        PROVE  x \in PidsOf(m)
    <3>1. CASE x = st.pid
      BY <2>1, <2>3, <3>1 DEF PidsOf
    <3>2. CASE x \in PidsOf(st.mem)
      <4>1. PICK n \in DOMAIN st.mem : st.mem[n].pid = x
        BY <3>2 DEF PidsOf
      <4>2. n # c.name
        BY <1>2, <1>4, <1>8, <4>1
      <4>. QED BY <2>3, <4>1, <4>2 DEF PidsOf
    <3>. QED BY <2>4, <3>1, <3>2
  <2>. QED BY <2>3, <2>4 DEF m, c, st
<1>9. CASE c.action = "Update"
  <2>1. m = [st.mem EXCEPT ![c.name].config = c.after]
    BY <1>7, <1>9
  <2>2. m \in [D -> Resources] /\ \A n \in D : m[n].pid = st.mem[n].pid
    BY <1>5, <1>6, <2>1 DEF Resources
  <2>3. StateKept(m, pidCount) /\ DOMAIN m = DOMAIN st.mem /\ PidsOf(m) = PidsOf(st.mem)
    BY <1>1, <1>6, <2>2 DEF StateKept, ResourceMaps, PidsOf
  <2>. QED BY <1>1, <1>2, <1>9, <2>3 DEF m, c, st
<1>10. CASE c.action = "Destroy"
  <2>1. m = Drop(st.mem, c.name)
    BY <1>7, <1>10
  <2>2. /\ StateKept(m, pidCount) /\ DOMAIN m = DOMAIN st.mem \ {c.name}
        /\ \A x \in DOMAIN st.mem \ {c.name} : m[x] = st.mem[x]
    <3>2. /\ StateKept(Drop(st.mem, c.name), pidCount) /\ DOMAIN Drop(st.mem, c.name) = DOMAIN st.mem \ {c.name}
          /\ \A x \in DOMAIN st.mem \ {c.name} : Drop(st.mem, c.name)[x] = st.mem[x]
      BY <1>1, StateDrop
    <3>. QED BY <2>1, <3>2
  <2>3. ASSUME NEW x \in live, x \in PidsOf(st.mem) \/ x = st.pid
        PROVE  x \in PidsOf(m)
    <3>1. x \in PidsOf(st.mem)
      BY <1>1, <1>2, <1>10, <2>3
    <3>2. PICK n \in DOMAIN st.mem : st.mem[n].pid = x
      BY <3>1 DEF PidsOf
    <3>3. n # c.name
      BY <1>2, <1>10, <3>2
    <3>. QED BY <2>2, <3>2, <3>3 DEF PidsOf
  <2>. QED BY <2>2, <2>3 DEF m, c, st
<1>. QED BY <1>5, <1>8, <1>9, <1>10

\* The change is in memory and saved, or the save failed.
LEMMA RecordKeeps ==
  ASSUME ProvisionInv, NEW a \in Appliers, RecordChange(a) \/ SaveFails(a)
  PROVE  ProvisionInv'
<1>. DEFINE st == applier[a]
            m == Applied(st)
            st2 == [st EXCEPT !.mem = m]
<1>0. st.phase = "record" /\ UNCHANGED <<lockFile, live, pidCount>>
  BY DEF RecordChange, SaveFails
<1>1. /\ st \in ApplierStates /\ ApplierInv(st, disk, live, pidCount, unsaved)
      /\ pidCount \in Nat /\ unsaved \in Nat /\ live \subseteq 1..pidCount /\ live \subseteq Nat
      /\ StateKept(disk, pidCount) /\ StateKept(st.mem, pidCount) /\ 0 \notin live
      /\ PidsOf(disk) \cap live \subseteq PidsOf(st.mem) /\ PidsOf(disk) = SavedPids
  BY <1>0, AtWork
<1>2. /\ StateKept(m, pidCount) /\ DOMAIN m \subseteq DOMAIN st.mem \cup {Head(st.todo).name}
      /\ \A x \in live : x \in PidsOf(st.mem) \/ x = st.pid => x \in PidsOf(m)
  BY <1>0, AppliedState
<1>3. st.todo # <<>>
  BY <1>0, <1>1 DEF ApplierInv, ChangeInv
<1>4. (RecordChange(a) => disk' = m /\ unsaved' = unsaved /\ Becomes(a, Reported(st2, "Succeeded")))
      /\ (SaveFails(a) => disk' = disk /\ unsaved' = unsaved + 1 /\ Becomes(a, Reported(st2, "Failed")))
  BY DEF RecordChange, SaveFails, SavedNow
<1>. HIDE DEF m, st
<1>5. st2 \in ApplierStates /\ st2.mem = m /\ st2.todo = st.todo /\ st2.progress = st.progress
  <2>1. m \in ResourceMaps
    BY <1>2 DEF StateKept
  <2>. QED BY <1>1, <2>1 DEF ApplierStates
<1>. HIDE DEF st2
<1>6. CASE RecordChange(a)
  <2>. DEFINE r == Reported(st2, "Succeeded")
  <2>1. disk' = m /\ unsaved' = unsaved /\ Becomes(a, r)
    BY <1>4, <1>6
  <2>2. ChangeOver(st, disk, live, pidCount, unsaved, st2, m, unsaved, "Succeeded")
    <3>1. unsaved >= unsaved
      BY <1>1
    <3>2. PidsOf(m) \cap live \subseteq PidsOf(m)
      OBVIOUS
    <3>. QED BY <1>1, <1>2, <1>3, <1>5, <3>1, <3>2 DEF ChangeOver
  <2>3. r \in ApplierStates /\ r.phase = "change" /\ r.pid = 0 /\ ApplierInv(r, m, live, pidCount, unsaved)
    BY <1>1, <1>5, <2>2, ReportKeeps
  <2>. HIDE DEF r
  <2>4. SavedPids' = PidsOf(m)
    BY <2>1 DEF SavedPids, PidsOf
  <2>5. ProgressPersisted'
    <3>1. /\ unsaved' \in Nat /\ unsaved' >= unsaved /\ live' \subseteq Nat /\ applier[a].phase # "idle"
          /\ live' = live
      BY <1>0, <1>1, <2>1 DEF st
    <3>2. \A x \in live : (x = applier[a].pid => x \in SavedPids') /\ (x \in SavedPids => x \in SavedPids')
      BY <1>1, <1>2, <2>4 DEF st
    <3>. QED BY <2>1, <2>3, <3>1, <3>2, NothingLost
  <2>6. /\ pidCount' \in Nat /\ unsaved' \in Nat /\ live' \subseteq 1..pidCount' /\ StateKept(disk', pidCount')
        /\ ApplierInv(r, disk', live', pidCount', unsaved') /\ lockFile' = lockFile
        /\ applier[a].phase # "idle"
    BY <1>0, <1>1, <1>2, <2>1, <2>3 DEF st
  <2>. QED BY <2>1, <2>3, <2>5, <2>6, ApplierStep DEF Active
<1>7. CASE SaveFails(a)
  <2>. DEFINE r == Reported(st2, "Failed")
  <2>1. disk' = disk /\ unsaved' = unsaved + 1 /\ Becomes(a, r)
    BY <1>4, <1>7
  <2>2. ChangeOver(st, disk, live, pidCount, unsaved, st2, disk, unsaved + 1, "Failed")
    <3>1. unsaved + 1 >= unsaved /\ unsaved + 1 # 0
      BY <1>1
    <3>2. PidsOf(disk) \cap live \subseteq PidsOf(m)
      BY <1>1, <1>2
    <3>. QED BY <1>1, <1>2, <1>3, <1>5, <3>1, <3>2 DEF ChangeOver
  <2>3. unsaved + 1 \in Nat
    BY <1>1
  <2>4. r \in ApplierStates /\ r.phase = "change" /\ r.pid = 0
        /\ ApplierInv(r, disk, live, pidCount, unsaved + 1)
    BY <1>1, <1>5, <2>2, <2>3, ReportKeeps
  <2>. HIDE DEF r
  <2>5. /\ pidCount' \in Nat /\ unsaved' \in Nat /\ live' \subseteq 1..pidCount' /\ StateKept(disk', pidCount')
        /\ ApplierInv(r, disk', live', pidCount', unsaved') /\ lockFile' = lockFile /\ live' \subseteq live
        /\ applier[a].phase # "idle"
    BY <1>0, <1>1, <2>1, <2>3, <2>4 DEF st
  <2>6. ProgressPersisted'
    BY <2>1, <2>4, <2>5, OneLost
  <2>. QED BY <2>1, <2>4, <2>5, <2>6, ApplierStep DEF Active
<1>. QED BY <1>6, <1>7

\* Steps after the last change: memory, or less of it, and fewer resources.
LEMMA UndoKeeps ==
  ASSUME ProvisionInv, NEW a \in Appliers, applier[a].phase \in {"change", "rollback"}, applier[a].pid = 0,
         NEW s \in ApplierStates, Becomes(a, s), s.phase \in {"rollback", "done"}, s.pid = 0,
         s.todo = applier[a].todo, StateKept(s.mem, pidCount), DOMAIN s.mem \subseteq DOMAIN applier[a].mem,
         lockFile' = lockFile, pidCount' = pidCount, live' \subseteq live,
         PidsOf(applier[a].mem) \cap live' \subseteq PidsOf(s.mem),
         \/ disk' = disk /\ unsaved' \in {unsaved, unsaved + 1}
         \/ disk' = s.mem /\ unsaved' = unsaved,
         DOMAIN s.progress = DOMAIN applier[a].progress,
         \A k \in DOMAIN s.progress : s.progress[k].name = applier[a].progress[k].name,
         ProgressInv(s, unsaved'), RolledBack(s)
  PROVE  ProvisionInv'
<1>. DEFINE st == applier[a]
<1>1. /\ st \in ApplierStates /\ ApplierInv(st, disk, live, pidCount, unsaved)
      /\ pidCount \in Nat /\ unsaved \in Nat /\ live \subseteq 1..pidCount /\ live \subseteq Nat
      /\ StateKept(disk, pidCount) /\ StateKept(st.mem, pidCount) /\ 0 \notin live
      /\ PidsOf(disk) \cap live \subseteq PidsOf(st.mem) /\ PidsOf(disk) = SavedPids
  BY AtWork
<1>2. /\ unsaved' \in Nat /\ unsaved' >= unsaved /\ live' \subseteq 1..pidCount' /\ live' \subseteq Nat
      /\ StateKept(disk', pidCount') /\ st.phase # "idle" /\ pidCount' \in Nat
  BY <1>1
<1>3. PidsOf(disk') \cap live' \subseteq PidsOf(s.mem)
  BY <1>1
<1>4. NamesInv(s)
  BY <1>1 DEF ApplierInv, NamesInv
<1>5. ChangeInv(s, live')
  BY DEF ChangeInv
<1>6. ApplierInv(s, disk', live', pidCount', unsaved')
  BY <1>1, <1>3, <1>4, <1>5 DEF ApplierInv
<1>7. ProgressPersisted'
  <2>1. SavedPids' = PidsOf(disk')
    BY DEF SavedPids, PidsOf
  <2>2. \A x \in live' : x \in live /\ (x \in SavedPids => x \in SavedPids') /\ x # st.pid
    BY <1>1, <1>3, <2>1
  <2>. QED BY <1>2, <2>2, NothingLost
<1>. QED BY <1>2, <1>6, <1>7, ApplierStep DEF Active

\* An entry of the progress gets another status.
LEMMA EntryMarked ==
  ASSUME NEW st \in ApplierStates, NEW i \in DOMAIN st.progress, NEW x \in {"Undone", "Kept"}
  PROVE  LET s == [st EXCEPT !.progress[i].status = x]
         IN /\ s \in ApplierStates /\ s.phase = st.phase /\ s.pid = st.pid /\ s.mem = st.mem /\ s.todo = st.todo
            /\ DOMAIN s.progress = DOMAIN st.progress
            /\ \A k \in DOMAIN s.progress :
                 /\ s.progress[k].name = st.progress[k].name /\ s.progress[k].action = st.progress[k].action
                 /\ s.progress[k].status = IF k = i THEN x ELSE st.progress[k].status
<1>. DEFINE p == [st.progress EXCEPT ![i].status = x]
            s == [st EXCEPT !.progress[i].status = x]
<1>1. st.progress \in Seq(ProgressEntries)
  BY DEF ApplierStates
<1>2. p \in Seq(ProgressEntries) /\ DOMAIN p = DOMAIN st.progress
      /\ \A k \in DOMAIN p :
           /\ p[k].name = st.progress[k].name /\ p[k].action = st.progress[k].action
           /\ p[k].status = IF k = i THEN x ELSE st.progress[k].status
  <2>1. \A k \in DOMAIN st.progress : st.progress[k] \in ProgressEntries
    BY <1>1
  <2>2. [st.progress[i] EXCEPT !.status = x] \in ProgressEntries
    BY <2>1 DEF ProgressEntries
  <2>3. p = [k \in DOMAIN st.progress |-> IF k = i THEN [st.progress[i] EXCEPT !.status = x] ELSE st.progress[k]]
    BY <1>1
  <2>4. p \in Seq(ProgressEntries) /\ DOMAIN p = DOMAIN st.progress
    BY <1>1, <2>1, <2>2, <2>3
  <2>. QED BY <2>1, <2>2, <2>3, <2>4 DEF ProgressEntries
<1>3. s = [st EXCEPT !.progress = p]
  BY DEF ApplierStates
<1>. HIDE DEF p
<1>4. s \in ApplierStates /\ s.phase = st.phase /\ s.pid = st.pid /\ s.mem = st.mem /\ s.todo = st.todo
      /\ s.progress = p
  BY <1>2, <1>3 DEF ApplierStates
<1>. HIDE DEF s
<1>5. /\ DOMAIN s.progress = DOMAIN st.progress
      /\ \A k \in DOMAIN s.progress :
           /\ s.progress[k].name = st.progress[k].name /\ s.progress[k].action = st.progress[k].action
           /\ s.progress[k].status = IF k = i THEN x ELSE st.progress[k].status
  BY <1>2, <1>4
<1>. QED BY <1>4, <1>5 DEF s

LEMMA EndsKeep ==
  ASSUME ProvisionInv, NEW a \in Appliers, ChangesEnd(a) \/ RollbackEnds(a)
  PROVE  ProvisionInv'
<1>. DEFINE st == applier[a]
<1>1. st.phase \in {"change", "rollback"} /\ UNCHANGED <<disk, lockFile, live, pidCount, unsaved>>
  BY DEF ChangesEnd, RollbackEnds
<1>2. /\ st \in ApplierStates /\ ApplierInv(st, disk, live, pidCount, unsaved)
      /\ StateKept(st.mem, pidCount) /\ ProgressInv(st, unsaved) /\ st.pid = 0
  BY <1>1, AtWork DEF ApplierInv, ChangeInv
<1>3. PICK p \in {"rollback", "done"} :
        /\ Becomes(a, [st EXCEPT !.phase = p])
        /\ \/ p = "rollback"
           \/ ~(Failures(st.progress) # {} /\ st.autoRollback /\ ~st.dryRun)
           \/ \A e \in ToSet(st.progress) : ~Undoes(st, e)
  BY DEF ChangesEnd, RollbackEnds
<1>. DEFINE s == [st EXCEPT !.phase = p]
<1>4. /\ s \in ApplierStates /\ s.phase = p /\ s.pid = 0 /\ s.mem = st.mem /\ s.todo = st.todo
      /\ s.progress = st.progress /\ s.autoRollback = st.autoRollback /\ s.dryRun = st.dryRun
  BY <1>2 DEF ApplierStates
<1>5. Becomes(a, s)
  BY <1>3
<1>. HIDE DEF s
<1>6. RolledBack(s)
  BY <1>3, <1>4 DEF RolledBack, Undoes, ToSet
<1>7. ProgressInv(s, unsaved')
  BY <1>1, <1>2, <1>4 DEF ProgressInv
<1>8. /\ lockFile' = lockFile /\ pidCount' = pidCount /\ live' \subseteq live
      /\ PidsOf(st.mem) \cap live' \subseteq PidsOf(s.mem) /\ disk' = disk /\ unsaved' \in {unsaved, unsaved + 1}
  BY <1>1, <1>4
<1>. QED BY <1>1, <1>2, <1>4, <1>5, <1>6, <1>7, <1>8, UndoKeeps

LEMMA RollbackKeeps ==
  ASSUME ProvisionInv, NEW a \in Appliers, NEW i \in DOMAIN applier[a].progress,
         NEW saves \in BOOLEAN, Rollback(a, i, saves)
  PROVE  ProvisionInv'
<1>. DEFINE st == applier[a]
            u == Undone(st, i)
            n == st.progress[i].name
            m == Drop(st.mem, n)
            s == [u EXCEPT !.mem = m]
<1>1. st.phase = "rollback"
  BY DEF Rollback, NextUndone
<1>2. /\ st \in ApplierStates /\ ApplierInv(st, disk, live, pidCount, unsaved) /\ unsaved \in Nat
      /\ pidCount \in Nat /\ StateKept(st.mem, pidCount) /\ ProgressInv(st, unsaved) /\ st.pid = 0
  BY <1>1, AtWork DEF ApplierInv, ChangeInv
<1>3. /\ u \in ApplierStates /\ u.phase = st.phase /\ u.pid = st.pid /\ u.mem = st.mem /\ u.todo = st.todo
      /\ DOMAIN u.progress = DOMAIN st.progress
      /\ \A k \in DOMAIN u.progress :
           /\ u.progress[k].name = st.progress[k].name /\ u.progress[k].action = st.progress[k].action
           /\ u.progress[k].status = IF k = i THEN "Undone" ELSE st.progress[k].status
  BY <1>2, EntryMarked DEF Undone
<1>4. /\ Becomes(a, s) /\ lockFile' = lockFile /\ pidCount' = pidCount /\ live' = live \ {st.mem[n].pid}
      /\ \/ disk' = m /\ unsaved' = unsaved
         \/ disk' = disk /\ unsaved' = unsaved + 1
  BY DEF Rollback
<1>5. /\ StateKept(m, pidCount) /\ DOMAIN m = DOMAIN st.mem \ {n}
      /\ \A x \in DOMAIN st.mem \ {n} : m[x] = st.mem[x]
  BY <1>2, StateDrop
<1>. HIDE DEF u, m
<1>6. s \in ApplierStates /\ s.phase = "rollback" /\ s.pid = 0 /\ s.mem = m /\ s.todo = st.todo
      /\ s.progress = u.progress
  <2>1. m \in ResourceMaps
    BY <1>5 DEF StateKept
  <2>. QED BY <1>1, <1>2, <1>3, <2>1 DEF ApplierStates
<1>. HIDE DEF s
<1>7. PidsOf(st.mem) \cap live' \subseteq PidsOf(s.mem)
  <2>1. ASSUME NEW x \in PidsOf(st.mem), x \in live' PROVE x \in PidsOf(m)
    <3>1. PICK y \in DOMAIN st.mem : st.mem[y].pid = x
      BY DEF PidsOf
    <3>2. y # n
      BY <1>4, <2>1, <3>1
    <3>. QED BY <1>5, <3>1, <3>2 DEF PidsOf
  <2>. QED BY <1>6, <2>1
<1>8. ProgressInv(s, unsaved')
  <2>1. unsaved' = 0 => unsaved = 0
    BY <1>2, <1>4
  <2>. QED BY <1>2, <1>3, <1>5, <1>6, <2>1 DEF ProgressInv
<1>9. RolledBack(s)
  BY <1>6 DEF RolledBack
<1>10. /\ DOMAIN s.progress = DOMAIN st.progress /\ DOMAIN s.mem \subseteq DOMAIN st.mem
       /\ \A k \in DOMAIN s.progress : s.progress[k].name = st.progress[k].name
       /\ live' \subseteq live /\ StateKept(s.mem, pidCount)
       /\ \/ disk' = disk /\ unsaved' \in {unsaved, unsaved + 1}
          \/ disk' = s.mem /\ unsaved' = unsaved
  BY <1>3, <1>4, <1>5, <1>6
<1>. QED BY <1>1, <1>2, <1>4, <1>6, <1>7, <1>8, <1>9, <1>10, UndoKeeps

LEMMA RollbackFailsKeeps ==
  ASSUME ProvisionInv, NEW a \in Appliers, NEW i \in DOMAIN applier[a].progress, RollbackFails(a, i)
  PROVE  ProvisionInv'
<1>. DEFINE st == applier[a]
            s == [st EXCEPT !.progress[i].status = "Kept"]
<1>1. st.phase = "rollback" /\ Becomes(a, s) /\ UNCHANGED <<disk, lockFile, live, pidCount, unsaved>>
  BY DEF RollbackFails, NextUndone
<1>2. /\ st \in ApplierStates /\ ApplierInv(st, disk, live, pidCount, unsaved)
      /\ StateKept(st.mem, pidCount) /\ ProgressInv(st, unsaved) /\ st.pid = 0
  BY <1>1, AtWork DEF ApplierInv, ChangeInv
<1>3. /\ s \in ApplierStates /\ s.phase = st.phase /\ s.pid = st.pid /\ s.mem = st.mem /\ s.todo = st.todo
      /\ DOMAIN s.progress = DOMAIN st.progress
      /\ \A k \in DOMAIN s.progress :
           /\ s.progress[k].name = st.progress[k].name /\ s.progress[k].action = st.progress[k].action
           /\ s.progress[k].status = IF k = i THEN "Kept" ELSE st.progress[k].status
  BY <1>2, EntryMarked
<1>. HIDE DEF s
<1>4. ProgressInv(s, unsaved') /\ RolledBack(s)
  BY <1>1, <1>2, <1>3 DEF ProgressInv, RolledBack
<1>5. /\ lockFile' = lockFile /\ pidCount' = pidCount /\ live' \subseteq live
      /\ PidsOf(st.mem) \cap live' \subseteq PidsOf(s.mem) /\ disk' = disk /\ unsaved' \in {unsaved, unsaved + 1}
      /\ DOMAIN s.mem \subseteq DOMAIN st.mem
  BY <1>1, <1>3
<1>. QED BY <1>1, <1>2, <1>3, <1>4, <1>5, UndoKeeps

LEMMA ProvisionStep == ProvisionInv /\ [ProvisionNext]_provisionVars => ProvisionInv'
<1>. SUFFICES ASSUME ProvisionInv, [ProvisionNext]_provisionVars PROVE ProvisionInv'
  OBVIOUS
<1>1. CASE UNCHANGED provisionVars
  BY <1>1 DEF provisionVars, ProvisionInv, ProvisionTypeOK, OneApplier, ProgressPersisted, SavedPids, BeingCreated
<1>2. ASSUME NEW a \in Appliers, Lock(a) \/ Unlock(a) \/ Crash(a) \/ OperatorRecovers(a)
      PROVE  ProvisionInv'
  BY <1>2, LockKeeps, UnlockKeeps, CrashKeeps
<1>3. ASSUME NEW a \in Appliers,
             \E t \in Topologies, dry, rollback \in BOOLEAN : PlanAndApply(a, t, dry, rollback)
      PROVE  ProvisionInv'
  BY <1>3, PlanKeeps
<1>4. ASSUME NEW a \in Appliers,
             \/ Skips(a) \/ CreateChange(a) \/ UpdateChange(a) \/ DeleteChange(a) \/ Recreate(a)
             \/ ProviderFails(a) \/ RecordChange(a) \/ SaveFails(a) \/ ChangesEnd(a) \/ RollbackEnds(a)
      PROVE  ProvisionInv'
  BY <1>4, SkipsKeeps, StartKeeps, ProviderFailsKeeps, RecordKeeps, EndsKeep
<1>5. ASSUME NEW a \in Appliers, NEW i \in DOMAIN applier[a].progress,
             Rollback(a, i, TRUE) \/ Rollback(a, i, FALSE) \/ RollbackFails(a, i)
      PROVE  ProvisionInv'
  BY <1>5, RollbackKeeps, RollbackFailsKeeps
<1>. QED BY <1>1, <1>2, <1>3, <1>4, <1>5 DEF ProvisionNext

\* An apply that rolled back has left none of its creates in the state.
LEMMA UndoneFollows == ProvisionInv => ApplyRecoverable
<1>. SUFFICES ASSUME ProvisionInv PROVE ApplyRecoverable
  OBVIOUS
<1>1. ASSUME NEW a \in Appliers,
             applier[a].phase = "done", applier[a].autoRollback, ~applier[a].dryRun,
             Failures(applier[a].progress) # {}, unsaved = 0,
             NEW k \in DOMAIN applier[a].progress, applier[a].progress[k].action = "Create",
             applier[a].progress[k].name \in DOMAIN applier[a].mem
      PROVE  applier[a].progress[k].status = "Kept"
  <2>1. applier[a] \in ApplierStates /\ ProgressInv(applier[a], unsaved) /\ RolledBack(applier[a])
    BY <1>1, AtWork DEF ApplierInv
  <2>2. applier[a].progress[k] \in ProgressEntries
    BY <2>1 DEF ApplierStates
  <2>3. applier[a].progress[k].status \in {"Succeeded", "Failed", "Skipped", "Undone", "Kept"}
    BY <2>2 DEF ProgressEntries
  <2>4. applier[a].progress[k].status # "Succeeded"
    BY <1>1, <2>1 DEF RolledBack, Undoes
  <2>. QED BY <1>1, <2>1, <2>3, <2>4 DEF ProgressInv
<1>2. FailedApplyUndone
  BY <1>1 DEF FailedApplyUndone, ToSet
<1>. QED BY <1>2 DEF ProvisionInv, ApplyRecoverable

(***************************************************************************)
(* For every topology and any number of processes that share the state     *)
(* file, wherever a crash, a provider or a save fails: of all that         *)
(* Applier::apply created, no more is live and missing from the saved      *)
(* state than there were crashes and failed saves, beside the one being    *)
(* created, and a rollback leaves none of the creates of a failed apply.   *)
(***************************************************************************)
THEOREM AppliesStayRecoverable == ProvisionSpec => []ApplyRecoverable
<1>1. ProvisionInit => ProvisionInv
  BY ProvisionStarts
<1>2. ProvisionInv /\ [ProvisionNext]_provisionVars => ProvisionInv'
  BY ProvisionStep
<1>3. ProvisionInv => ApplyRecoverable
  BY UndoneFollows
<1>. QED BY <1>1, <1>2, <1>3, PTL DEF ProvisionSpec

-----------------------------------------------------------------------------
(***************************************************************************)
(* The memory tiers. A memory that was not forgotten, expired or merged    *)
(* away is in the store, and every copy of it a task holds was distilled   *)
(* from what the stored one was distilled from.                            *)
(***************************************************************************)
MemoryRecord ==
  [id : Nat, kind : {d.kind : d \in Drafts} \cup {"Semantic"}, importance : Nat,
   content : {d.content : d \in Drafts}, from : Nat, tier : {"Hot", "Warm", "Cold"}, access : Nat]

JobRecord ==
  [op : {"idle", "recall", "compact", "distill", "merge", "reinforce"}, todo : SUBSET MemoryRecord,
   copy : MemoryRecord \cup {NoCopy}, step : {"none", "check", "insert", "delete"},
   other : MemoryRecord \cup {NoCopy} \cup [id : {0}, left : SUBSET MemoryRecord]]

GoneMemories == forgotten \cup expired \cup mergedAway
LivingMemories == (1..memCount) \ GoneMemories

\* A copy a task holds of a memory that lives.
CopyOK(m) == m.id \in 1..memCount /\ (m.id \in LivingMemories => m.from = stored[m.id].from)

JobOK(p, j) ==
  /\ j \in JobRecord
  /\ \A m \in j.todo : CopyOK(m)
  /\ j.copy # NoCopy => CopyOK(j.copy)
  /\ j.step # "none" => j.copy # NoCopy /\ j.op # "distill"
  /\ j.op = "distill" => p \in Consolidators /\ j.other \in [id : {0}, left : SUBSET MemoryRecord]
  /\ j.op = "distill" /\ j.copy # NoCopy => \A i \in LivingMemories : stored[i].from # j.copy.id
  /\ j.op = "merge" /\ j.step # "none" => j.other \in MemoryRecord
  /\ j.step = "delete" => j.op = "merge" /\ \E e \in absorbed : e[2] = j.other.id

StoredOK ==
  /\ memCount \in Nat
  /\ DOMAIN stored \subseteq 1..memCount /\ LivingMemories \subseteq DOMAIN stored
  /\ stored = [i \in DOMAIN stored |-> stored[i]]
  /\ \A i \in DOMAIN stored : stored[i] \in MemoryRecord /\ stored[i].id = i

TiersInv ==
  /\ StoredOK /\ TiersSound
  /\ job = [p \in MemTasks |-> job[p]]
  /\ \A p \in MemTasks : JobOK(p, job[p])

\* What every step keeps of the memories that still live after it.
Evolves ==
  /\ memCount' \in Nat /\ memCount' >= memCount
  /\ \A i \in LivingMemories' : i \in 1..memCount => i \in LivingMemories /\ stored'[i].from = stored[i].from
  /\ absorbed \subseteq absorbed'

\* A task at rest keeps what it knows.
LEMMA JobStays ==
  ASSUME StoredOK, Evolves, NEW p, NEW j, JobOK(p, j),
         j.op = "distill" /\ j.copy # NoCopy =>
           \A i \in LivingMemories' : i \notin 1..memCount => stored'[i].from # j.copy.id
  PROVE  JobOK(p, j)'
<1>1. memCount \in Nat /\ memCount' \in Nat /\ 1..memCount \subseteq 1..memCount'
  BY DEF StoredOK, Evolves
<1>2. \A m : CopyOK(m) => CopyOK(m)'
  BY <1>1 DEF CopyOK, Evolves
<1>3. j.op = "distill" /\ j.copy # NoCopy => \A i \in LivingMemories' : stored'[i].from # j.copy.id
  BY DEF JobOK, Evolves
<1>4. j.step = "delete" => \E e \in absorbed' : e[2] = j.other.id
  BY DEF JobOK, Evolves
<1>. QED BY <1>2, <1>3, <1>4 DEF JobOK

\* A step of one task: it is left with a job that is right, the others stay.
LEMMA JobMoves ==
  ASSUME TiersInv, Evolves, NEW p \in MemTasks, NEW j, Works(p, j), JobOK(p, j)',
         \A q \in MemTasks \ {p} : job[q].op = "distill" /\ job[q].copy # NoCopy =>
           \A i \in LivingMemories' : i \notin 1..memCount => stored'[i].from # job[q].copy.id
  PROVE  job' = [q \in MemTasks |-> job'[q]] /\ \A q \in MemTasks : JobOK(q, job[q])'
<1>1. job' = [q \in MemTasks |-> IF q = p THEN j ELSE job[q]]
  BY DEF Works, TiersInv
<1>2. ASSUME NEW q \in MemTasks, q # p PROVE JobOK(q, job[q])'
  <2>1. JobOK(q, job[q]) /\ job'[q] = job[q]
    BY <1>1, <1>2 DEF TiersInv
  <2>2. PICK k : k = job[q]
    OBVIOUS
  <2>3. JobOK(q, k)'
    BY <1>2, <2>1, <2>2, JobStays DEF TiersInv
  <2>. QED BY <2>1, <2>2, <2>3
<1>3. JobOK(p, job[p])'
  BY <1>1
<1>. QED BY <1>1, <1>2, <1>3

\* A step that leaves the store and its history alone keeps everything said of them.
LEMMA StoreStays ==
  ASSUME TiersInv, UNCHANGED <<stored, memCount, expired, forgotten, absorbed, mergedAway>>
  PROVE  /\ Evolves /\ StoredOK' /\ TiersSound' /\ LivingMemories' = LivingMemories
         /\ \A i \in LivingMemories' : i \in 1..memCount
         /\ \A m : CopyOK(m)' <=> CopyOK(m)
         /\ \A p, j : JobOK(p, j)' <=> JobOK(p, j)
<1>1. LivingMemories' = LivingMemories
  BY DEF LivingMemories, GoneMemories
<1>2. \A m : CopyOK(m)' <=> CopyOK(m)
  BY <1>1 DEF CopyOK
<1>. QED BY <1>1, <1>2 DEF TiersInv, Evolves, StoredOK, JobOK, TiersSound, MergedWereAbsorbed, DistilledOnce, LivingMemories

\* A task reads: whatever it takes from the store is a right copy.
LEMMA ReadsAreCopies ==
  ASSUME TiersInv, NEW ids, ids \subseteq DOMAIN stored
  PROVE  /\ Copies(ids) \subseteq MemoryRecord
         /\ \A m \in Copies(ids) : CopyOK(m)
  BY DEF TiersInv, StoredOK, Copies, CopyOK

LEMMA NoJobRight ==
  ASSUME NEW p
  PROVE  NoJob \in JobRecord /\ JobOK(p, NoJob)
<1>1. NoJob \in JobRecord
  BY DEF NoJob, JobRecord
<1>. QED BY <1>1 DEF NoJob, JobOK, NoCopy

\* A step of one task that touches its own job only.
LEMMA QuietStep ==
  ASSUME TiersInv, UNCHANGED <<stored, memCount, expired, forgotten, absorbed, mergedAway>>,
         NEW p \in MemTasks, NEW j, Works(p, j), JobOK(p, j)
  PROVE  TiersInv'
<1>1. /\ Evolves /\ StoredOK' /\ TiersSound' /\ JobOK(p, j)'
      /\ \A i \in LivingMemories' : i \in 1..memCount
  BY StoreStays
<1>2. job' = [q \in MemTasks |-> job'[q]] /\ \A q \in MemTasks : JobOK(q, job[q])'
  BY <1>1, JobMoves
<1>. QED BY <1>1, <1>2 DEF TiersInv

\* What the copies of a task are once it changed their count, tier or importance.
LEMMA CopiesChange ==
  ASSUME NEW m \in MemoryRecord, CopyOK(m), NEW n \in MemoryRecord, NEW long \in BOOLEAN
  PROVE  /\ Promoted(Accessed(m)) \in MemoryRecord /\ CopyOK(Promoted(Accessed(m)))
         /\ Demoted(m, long) \in MemoryRecord /\ CopyOK(Demoted(m, long))
         /\ LET boosted == [m EXCEPT !.importance = IF @ < TopImportance THEN @ + 1 ELSE @]
            IN boosted \in MemoryRecord /\ CopyOK(boosted)
         /\ LET merged ==
                  [m EXCEPT !.access = IF @ + n.access > MaxAccess THEN MaxAccess ELSE @ + n.access,
                            !.importance = IF n.importance > @ THEN n.importance ELSE @]
            IN merged \in MemoryRecord /\ CopyOK(merged)
<1>1. Accessed(m) \in MemoryRecord /\ Accessed(m).id = m.id /\ Accessed(m).from = m.from
  BY MemoryAssumption DEF Accessed, MemoryRecord
<1>2. \A k \in MemoryRecord : /\ Promoted(k) \in MemoryRecord /\ Promoted(k).id = k.id
                             /\ Promoted(k).from = k.from
  BY DEF Promoted, CheckPromotion, MemoryRecord
<1>3. /\ Demoted(m, long) \in MemoryRecord /\ Demoted(m, long).id = m.id
      /\ Demoted(m, long).from = m.from
  <2>. DEFINE i == IF long /\ m.importance > 0 THEN m.importance - 1 ELSE m.importance
              t == CheckDemotion(m, long)
  <2>1. i \in Nat
    BY DEF MemoryRecord
  <2>2. t \in {"Hot", "Warm", "Cold"}
    BY Zenon DEF CheckDemotion, MemoryRecord
  <2>3. Demoted(m, long) = [m EXCEPT !.importance = i, !.tier = t]
    BY DEF Demoted
  <2>. HIDE DEF i, t
  <2>. QED BY <2>1, <2>2, <2>3 DEF MemoryRecord
<1>. DEFINE boosted == [m EXCEPT !.importance = IF @ < TopImportance THEN @ + 1 ELSE @]
            merged ==
              [m EXCEPT !.access = IF @ + n.access > MaxAccess THEN MaxAccess ELSE @ + n.access,
                        !.importance = IF n.importance > @ THEN n.importance ELSE @]
<1>4. boosted \in MemoryRecord /\ boosted.id = m.id /\ boosted.from = m.from
  BY DEF MemoryRecord, TopImportance
<1>5. merged \in MemoryRecord /\ merged.id = m.id /\ merged.from = m.from
  <2>. DEFINE a == IF m.access + n.access > MaxAccess THEN MaxAccess ELSE m.access + n.access
              i == IF n.importance > m.importance THEN n.importance ELSE m.importance
  <2>1. a \in Nat /\ i \in Nat
    BY MemoryAssumption DEF MemoryRecord
  <2>2. merged = [m EXCEPT !.access = a, !.importance = i]
    OBVIOUS
  <2>. HIDE DEF a, i, merged
  <2>. QED BY <2>1, <2>2 DEF MemoryRecord
<1>6. \A k : k.id = m.id /\ k.from = m.from => CopyOK(k)
  BY DEF CopyOK
<1>7. /\ Promoted(Accessed(m)) \in MemoryRecord /\ Promoted(Accessed(m)).id = m.id
      /\ Promoted(Accessed(m)).from = m.from
  BY <1>1, <1>2
<1>. HIDE DEF boosted, merged
<1>8. CopyOK(Promoted(Accessed(m))) /\ CopyOK(Demoted(m, long)) /\ CopyOK(boosted) /\ CopyOK(merged)
  BY <1>3, <1>4, <1>5, <1>6, <1>7
<1>. QED BY <1>3, <1>4, <1>5, <1>7, <1>8 DEF boosted, merged

\* The tasks that read, and those that end.
LEMMA ReadsKeepTiers ==
  ASSUME TiersInv, NEW p \in MemTasks,
         \/ \E ids \in SUBSET DOMAIN stored : Recall(p, ids)
         \/ CompactBegins(p)
         \/ ConsolidateBegins(p) /\ p \in Consolidators
         \/ MergeEnds(p)
         \/ JobEnds(p)
  PROVE  TiersInv'
<1>1. ASSUME NEW op \in {"recall", "compact", "reinforce"}, NEW ids \in SUBSET DOMAIN stored,
             NEW some \in SUBSET Copies(ids)
      PROVE  JobOK(p, [NoJob EXCEPT !.op = op, !.todo = some])
  <2>1. some \subseteq MemoryRecord /\ \A m \in some : CopyOK(m)
    BY ReadsAreCopies
  <2>. QED BY <2>1 DEF NoJob, JobOK, JobRecord
<1>2. CASE \E ids \in SUBSET DOMAIN stored : Recall(p, ids)
  <2>1. PICK ids \in SUBSET DOMAIN stored : Recall(p, ids)
    BY <1>2
  <2>2. JobOK(p, [NoJob EXCEPT !.op = "recall", !.todo = Copies(ids \ expired)])
    BY <1>1
  <2>. QED BY <2>1, <2>2, QuietStep DEF Recall
<1>3. CASE CompactBegins(p)
  <2>1. JobOK(p, [NoJob EXCEPT !.op = "compact", !.todo = Copies(DOMAIN stored)])
    BY <1>1
  <2>. QED BY <1>3, <2>1, QuietStep DEF CompactBegins
<1>4. CASE ConsolidateBegins(p) /\ p \in Consolidators
  <2>. DEFINE read == Copies(DOMAIN stored \ expired)
              j == [NoJob EXCEPT !.op = "distill", !.todo = read, !.other = [id |-> 0, left |-> read]]
  <2>1. read \subseteq MemoryRecord /\ \A m \in read : CopyOK(m)
    BY ReadsAreCopies
  <2>2. JobOK(p, j)
    BY <1>4, <2>1 DEF NoJob, JobOK, JobRecord
  <2>. HIDE DEF j
  <2>3. Works(p, j) /\ UNCHANGED <<stored, memCount, expired, forgotten, absorbed, mergedAway>>
    BY <1>4 DEF ConsolidateBegins, j
  <2>. QED BY <2>2, <2>3, QuietStep
<1>5. CASE MergeEnds(p)
  <2>. DEFINE ids == {m.id : m \in job[p].todo} \cap DOMAIN stored
              total == FoldSet(LAMBDA m, n : n + m.access, 0, Copies(ids))
              some == {m \in Copies(ids) : m.access > 1 /\ m.access * Cardinality(Copies(ids)) > total}
  <2>. HIDE DEF ids, total
  <2>1. JobOK(p, [NoJob EXCEPT !.op = "reinforce", !.todo = some])
    <3>1. ids \in SUBSET DOMAIN stored /\ some \in SUBSET Copies(ids)
      BY DEF ids
    <3>. HIDE DEF some
    <3>. QED BY <1>1, <3>1
  <2>2. Works(p, [NoJob EXCEPT !.op = "reinforce", !.todo = some])
    BY <1>5 DEF MergeEnds, ids, total
  <2>. QED BY <1>5, <2>1, <2>2, QuietStep DEF MergeEnds
<1>6. CASE JobEnds(p)
  BY <1>6, NoJobRight, QuietStep DEF JobEnds
<1>. QED BY <1>2, <1>3, <1>4, <1>5, <1>6

\* A task takes up the next of its copies, changed, and is about to write it.
LEMMA NextKeepsTiers ==
  ASSUME TiersInv, NEW p \in MemTasks, NEW m \in job[p].todo, NEW c \in MemoryRecord, CopyOK(c),
         job[p].op \in {"recall", "compact", "reinforce"},
         Works(p, [job[p] EXCEPT !.todo = @ \ {m}, !.copy = c, !.step = "check"]),
         UNCHANGED <<stored, memCount, expired, forgotten, absorbed, mergedAway>>
  PROVE  TiersInv'
<1>1. PICK j : j = job[p]
  OBVIOUS
<1>2. JobOK(p, j)
  BY <1>1 DEF TiersInv
<1>3. c # NoCopy
  <2>1. c.id # NoCopy.id
    BY DEF CopyOK, NoCopy, TiersInv, StoredOK
  <2>. QED BY <2>1
<1>4. JobOK(p, [j EXCEPT !.todo = @ \ {m}, !.copy = c, !.step = "check"])
  <2>1. [j EXCEPT !.todo = @ \ {m}, !.copy = c, !.step = "check"] \in JobRecord
    BY <1>2 DEF JobOK, JobRecord
  <2>. QED BY <1>1, <1>2, <1>3, <2>1 DEF JobOK, JobRecord
<1>. QED BY <1>1, <1>4, QuietStep

LEMMA WorkersKeepTiers ==
  ASSUME TiersInv, NEW p \in MemTasks, NEW m \in job[p].todo, NEW long \in BOOLEAN,
         \/ NextRecalled(p, m)
         \/ NextCompacted(p, m, long) /\ m.id \notin expired
         \/ NextReinforced(p, m)
  PROVE  TiersInv'
<1>1. m \in MemoryRecord /\ CopyOK(m)
  BY DEF TiersInv, JobOK, JobRecord
<1>2. CASE NextRecalled(p, m)
  <2>1. Promoted(Accessed(m)) \in MemoryRecord /\ CopyOK(Promoted(Accessed(m)))
    BY <1>1, CopiesChange
  <2>. QED BY <1>2, <2>1, NextKeepsTiers DEF NextRecalled
<1>3. CASE NextCompacted(p, m, long) /\ m.id \notin expired
  <2>1. Demoted(m, long) \in MemoryRecord /\ CopyOK(Demoted(m, long))
    BY <1>1, CopiesChange
  <2>. QED BY <1>3, <2>1, NextKeepsTiers DEF NextCompacted
<1>4. CASE NextReinforced(p, m)
  <2>. DEFINE c == [m EXCEPT !.importance = IF @ < TopImportance THEN @ + 1 ELSE @]
  <2>1. c \in MemoryRecord /\ CopyOK(c)
    BY <1>1, CopiesChange
  <2>. HIDE DEF c
  <2>2. Works(p, [job[p] EXCEPT !.todo = @ \ {m}, !.copy = c, !.step = "check"])
    BY <1>4 DEF NextReinforced, c, Works
  <2>3. job[p].op = "reinforce" /\ UNCHANGED <<stored, memCount, expired, forgotten, absorbed, mergedAway>>
    BY <1>4 DEF NextReinforced
  <2>. QED BY <2>1, <2>2, <2>3, NextKeepsTiers
<1>. QED BY <1>2, <1>3, <1>4

LEMMA ChecksKeepTiers ==
  ASSUME TiersInv, NEW p \in MemTasks, UpdateChecks(p)
  PROVE  TiersInv'
<1>1. PICK j : j = job[p]
  OBVIOUS
<1>2. JobOK(p, j) /\ j.step = "check"
  BY <1>1 DEF TiersInv, UpdateChecks
<1>3. JobOK(p, [j EXCEPT !.step = "insert"])
  <2>1. [j EXCEPT !.step = "insert"] \in JobRecord
    BY <1>2 DEF JobOK, JobRecord
  <2>. QED BY <1>2, <2>1 DEF JobOK, JobRecord
<1>4. JobOK(p, AfterFailure(j))
  <2>1. JobOK(p, [j EXCEPT !.copy = NoCopy, !.step = "none"])
    <3>1. [j EXCEPT !.copy = NoCopy, !.step = "none"] \in JobRecord
      BY <1>2 DEF JobOK, JobRecord
    <3>. QED BY <1>2, <3>1 DEF JobOK, JobRecord
  <2>. QED BY <2>1, NoJobRight DEF AfterFailure
<1>5. \/ Works(p, [j EXCEPT !.step = "insert"])
      \/ Works(p, AfterFailure(j))
  BY <1>1 DEF UpdateChecks
<1>6. UNCHANGED <<stored, memCount, expired, forgotten, absorbed, mergedAway>>
  BY DEF UpdateChecks
<1>. QED BY <1>3, <1>4, <1>5, <1>6, QuietStep

\* The consolidator looks for what to distill, and then for what to merge.
LEMMA LooksKeepTiers ==
  ASSUME TiersInv, NEW p \in MemTasks, NEW m \in job[p].todo, DistillLooks(p, m)
  PROVE  TiersInv'
<1>1. PICK j : j = job[p]
  OBVIOUS
<1>2. /\ JobOK(p, j) /\ j.op = "distill" /\ m \in MemoryRecord /\ CopyOK(m) /\ j.step = "none"
      /\ j.other \in [id : {0}, left : SUBSET MemoryRecord]
  BY <1>1 DEF TiersInv, DistillLooks, JobOK, JobRecord
<1>. DEFINE c == IF Distillable(m) THEN m ELSE NoCopy
            k == [j EXCEPT !.other.left = @ \ {m}, !.copy = c]
<1>3. c # NoCopy => CopyOK(c) /\ \A i \in LivingMemories : stored[i].from # c.id
  <2>1. \A i \in LivingMemories : i \in DOMAIN stored
    BY DEF TiersInv, StoredOK
  <2>. QED BY <1>2, <2>1 DEF Distillable
<1>4. c \in MemoryRecord \cup {NoCopy}
  BY <1>2
<1>5. Works(p, k)
  BY <1>1 DEF DistillLooks
<1>. HIDE DEF c
<1>6. k \in JobRecord /\ k.other \in [id : {0}, left : SUBSET MemoryRecord]
  BY <1>2, <1>4 DEF JobOK, JobRecord
<1>7. JobOK(p, k)
  <2>1. /\ k.op = j.op /\ k.todo = j.todo /\ k.copy = c /\ k.step = j.step
    BY <1>2, <1>4 DEF JobOK, JobRecord
  <2>. HIDE DEF k
  <2>. QED BY <1>2, <1>3, <1>6, <2>1 DEF JobOK
<1>. HIDE DEF k
<1>. QED BY <1>5, <1>7, QuietStep DEF DistillLooks

LEMMA MergesKeepTiers ==
  ASSUME TiersInv, NEW p \in MemTasks,
         \/ DistillEnds(p)
         \/ \E m, n \in job[p].todo : MergeReads(p, m, n)
  PROVE  TiersInv'
<1>1. PICK j : j = job[p]
  OBVIOUS
<1>2. JobOK(p, j)
  BY <1>1 DEF TiersInv
<1>3. CASE DistillEnds(p)
  <2>. DEFINE k == [j EXCEPT !.op = "merge", !.other = NoCopy]
  <2>1. k \in JobRecord
    BY <1>2 DEF JobOK, JobRecord
  <2>2. JobOK(p, k)
    BY <1>1, <1>2, <1>3, <2>1 DEF JobOK, JobRecord, DistillEnds
  <2>. HIDE DEF k
  <2>3. Works(p, k) /\ UNCHANGED <<stored, memCount, expired, forgotten, absorbed, mergedAway>>
    BY <1>1, <1>3 DEF DistillEnds, k
  <2>. QED BY <2>2, <2>3, QuietStep
<1>4. CASE \E m, n \in job[p].todo : MergeReads(p, m, n)
  <2>1. PICK m \in job[p].todo, n \in job[p].todo : MergeReads(p, m, n)
    BY <1>4
  <2>. DEFINE keeper == stored[m.id]
              c == [keeper EXCEPT !.access = IF @ + n.access > MaxAccess THEN MaxAccess ELSE @ + n.access,
                                  !.importance = IF n.importance > @ THEN n.importance ELSE @]
              k == [j EXCEPT !.other = n, !.step = "check", !.copy = c]
  <2>2. Works(p, k) /\ UNCHANGED <<stored, memCount, expired, forgotten, absorbed, mergedAway>>
    BY <1>1, <2>1 DEF MergeReads
  <2>3. j.op = "merge" /\ m.id \in DOMAIN stored /\ n \in MemoryRecord /\ CopyOK(n)
    BY <1>1, <1>2, <2>1 DEF MergeReads, JobOK, JobRecord
  <2>4. keeper \in MemoryRecord /\ CopyOK(keeper)
    BY <2>3, ReadsAreCopies DEF TiersInv, StoredOK, Copies
  <2>. HIDE DEF keeper
  <2>5. c \in MemoryRecord /\ CopyOK(c)
    BY <2>3, <2>4, CopiesChange
  <2>. HIDE DEF c
  <2>6. c # NoCopy
    <3>1. c.id # NoCopy.id
      BY <2>5 DEF CopyOK, NoCopy, TiersInv, StoredOK
    <3>. QED BY <3>1
  <2>7. k \in JobRecord /\ k.op = "merge" /\ k.other = n /\ k.copy = c /\ k.step = "check" /\ k.todo = j.todo
    BY <1>2, <2>3, <2>5 DEF JobOK, JobRecord
  <2>. HIDE DEF k
  <2>8. JobOK(p, k)
    BY <1>2, <2>3, <2>5, <2>6, <2>7 DEF JobOK
  <2>. QED BY <2>2, <2>8, QuietStep
<1>. QED BY <1>3, <1>4

\* A memory is dropped that no longer counts, or one more no longer counts.
LEMMA GoneGrows ==
  ASSUME TiersInv, NEW i, i \in GoneMemories', stored' \in {stored, Drop(stored, i)},
         UNCHANGED memCount, GoneMemories \subseteq GoneMemories', absorbed \subseteq absorbed'
  PROVE  Evolves /\ StoredOK' /\ DistilledOnce' /\ \A k \in LivingMemories' : k \in 1..memCount
<1>1. LivingMemories' \subseteq LivingMemories /\ i \notin LivingMemories'
  BY DEF LivingMemories
<1>2. \A k \in DOMAIN stored' : k \in DOMAIN stored /\ stored'[k] = stored[k]
  BY DEF Drop
<1>3. \A k \in LivingMemories' : k \in DOMAIN stored'
  BY <1>1 DEF Drop, TiersInv, StoredOK
<1>4. stored' = [k \in DOMAIN stored' |-> stored'[k]]
  BY DEF Drop, TiersInv, StoredOK
<1>5. StoredOK'
  BY <1>2, <1>3, <1>4 DEF TiersInv, StoredOK
<1>6. Evolves
  BY <1>1, <1>2, <1>3 DEF Evolves, TiersInv, StoredOK
<1>7. DistilledOnce'
  BY <1>2 DEF DistilledOnce, TiersInv, TiersSound, GoneMemories
<1>. QED BY <1>5, <1>6, <1>7 DEF LivingMemories

LEMMA LossesKeepTiers ==
  ASSUME TiersInv,
         \/ \E i \in DOMAIN stored : Expires(i) \/ Forget(i)
         \/ \E p \in MemTasks : \E m \in job[p].todo, long \in BOOLEAN :
              NextCompacted(p, m, long) /\ m.id \in expired
         \/ \E p \in MemTasks : MergeDeletes(p)
  PROVE  TiersInv'
<1>1. CASE \E i \in DOMAIN stored : Expires(i) \/ Forget(i)
  <2>1. PICK i \in DOMAIN stored : Expires(i) \/ Forget(i)
    BY <1>1
  <2>2. Evolves /\ StoredOK' /\ DistilledOnce' /\ \A k \in LivingMemories' : k \in 1..memCount
    BY <2>1, GoneGrows DEF Expires, Forget, GoneMemories
  <2>3. MergedWereAbsorbed' /\ job' = job
    BY <2>1 DEF Expires, Forget, MergedWereAbsorbed, TiersInv, TiersSound
  <2>4. ASSUME NEW q \in MemTasks PROVE JobOK(q, job[q])'
    <3>1. PICK k : k = job[q]
      OBVIOUS
    <3>2. JobOK(q, k)'
      BY <2>2, <3>1, JobStays DEF TiersInv
    <3>. QED BY <2>3, <3>1, <3>2
  <2>. QED BY <2>2, <2>3, <2>4 DEF TiersInv, TiersSound
<1>2. CASE \E p \in MemTasks : \E m \in job[p].todo, long \in BOOLEAN :
             NextCompacted(p, m, long) /\ m.id \in expired
  <2>1. PICK p \in MemTasks : \E m \in job[p].todo, long \in BOOLEAN :
             NextCompacted(p, m, long) /\ m.id \in expired
    BY <1>2
  <2>2. PICK m \in job[p].todo, long \in BOOLEAN : NextCompacted(p, m, long) /\ m.id \in expired
    BY <2>1
  <2>3. Evolves /\ StoredOK' /\ DistilledOnce' /\ \A k \in LivingMemories' : k \in 1..memCount
    BY <2>2, GoneGrows DEF NextCompacted, GoneMemories
  <2>4. PICK j : j = job[p]
    OBVIOUS
  <2>. DEFINE k == [j EXCEPT !.todo = @ \ {m}]
  <2>5. Works(p, k) /\ MergedWereAbsorbed'
    BY <2>2, <2>4 DEF NextCompacted, MergedWereAbsorbed, TiersInv, TiersSound
  <2>6. JobOK(p, k)
    <3>1. JobOK(p, j)
      BY <2>4 DEF TiersInv
    <3>2. k \in JobRecord
      BY <3>1 DEF JobOK, JobRecord
    <3>. QED BY <3>1, <3>2 DEF JobOK, JobRecord
  <2>. HIDE DEF k
  <2>7. JobOK(p, k)'
    BY <2>3, <2>6, JobStays DEF TiersInv
  <2>8. job' = [q \in MemTasks |-> job'[q]] /\ \A q \in MemTasks : JobOK(q, job[q])'
    BY <2>3, <2>5, <2>7, JobMoves
  <2>. QED BY <2>3, <2>5, <2>8 DEF TiersInv, TiersSound
<1>3. CASE \E p \in MemTasks : MergeDeletes(p)
  <2>1. PICK p \in MemTasks : MergeDeletes(p)
    BY <1>3
  <2>2. PICK j : j = job[p]
    OBVIOUS
  <2>3. JobOK(p, j) /\ j.op = "merge" /\ j.step = "delete"
    BY <2>1, <2>2 DEF TiersInv, MergeDeletes
  <2>4. Evolves /\ StoredOK' /\ DistilledOnce' /\ \A k \in LivingMemories' : k \in 1..memCount
    BY <2>1, <2>2, GoneGrows DEF MergeDeletes, GoneMemories
  <2>. DEFINE k == [j EXCEPT !.todo = @ \ {j.other}, !.other = NoCopy, !.copy = NoCopy, !.step = "none"]
  <2>5. Works(p, k)
    BY <2>1, <2>2 DEF MergeDeletes
  <2>6. MergedWereAbsorbed'
    BY <2>1, <2>2, <2>3 DEF MergeDeletes, MergedWereAbsorbed, TiersInv, TiersSound, JobOK
  <2>7. JobOK(p, k)
    <3>1. /\ k \in JobRecord /\ k.op = "merge" /\ k.todo \subseteq j.todo /\ k.copy = NoCopy
          /\ k.step = "none"
      BY <2>3 DEF JobOK, JobRecord
    <3>. HIDE DEF k
    <3>. QED BY <2>3, <3>1 DEF JobOK
  <2>. HIDE DEF k
  <2>8. k.op = "distill" => FALSE
    BY <2>3 DEF k, JobOK, JobRecord
  <2>9. JobOK(p, k)'
    BY <2>4, <2>7, <2>8, JobStays DEF TiersInv
  <2>10. job' = [q \in MemTasks |-> job'[q]] /\ \A q \in MemTasks : JobOK(q, job[q])'
    BY <2>4, <2>5, <2>9, JobMoves
  <2>. QED BY <2>4, <2>6, <2>10 DEF TiersInv, TiersSound
<1>. QED BY <1>1, <1>2, <1>3

\* A task writes its copy back.
LEMMA InsertsKeepTiers ==
  ASSUME TiersInv, NEW p \in MemTasks, UpdateInserts(p)
  PROVE  TiersInv'
<1>1. PICK j : j = job[p]
  OBVIOUS
<1>2. /\ JobOK(p, j) /\ j.step = "insert" /\ j.copy \in MemoryRecord /\ CopyOK(j.copy)
      /\ j.op # "distill"
  BY <1>1 DEF TiersInv, UpdateInserts, JobOK, JobRecord
<1>. DEFINE c == j.copy
<1>3. /\ stored' = Put(stored, c.id, c) /\ absorbed \subseteq absorbed'
      /\ UNCHANGED <<memCount, expired, forgotten, mergedAway>>
  BY <1>1 DEF UpdateInserts
<1>4. LivingMemories' = LivingMemories /\ GoneMemories' = GoneMemories
  BY <1>3 DEF LivingMemories, GoneMemories
<1>5. StoredOK'
  <2>1. c \in MemoryRecord /\ c.id \in 1..memCount
    BY <1>2 DEF CopyOK
  <2>. HIDE DEF c
  <2>2. /\ DOMAIN stored' = DOMAIN stored \cup {c.id}
        /\ \A i \in DOMAIN stored' : stored'[i] = IF i = c.id THEN c ELSE stored[i]
        /\ stored' = [i \in DOMAIN stored' |-> stored'[i]]
    BY <1>3 DEF Put
  <2>. QED BY <1>3, <1>4, <2>1, <2>2 DEF StoredOK, TiersInv
<1>6. \A i \in LivingMemories : i \in DOMAIN stored /\ stored'[i].from = stored[i].from
  <2>1. \A i \in LivingMemories : i \in DOMAIN stored
    BY DEF TiersInv, StoredOK
  <2>2. \A i \in DOMAIN stored : stored'[i] = IF i = c.id THEN c ELSE stored[i]
    BY <1>3 DEF Put
  <2>. QED BY <1>2, <2>1, <2>2 DEF CopyOK
<1>7. Evolves /\ \A k \in LivingMemories' : k \in 1..memCount
  BY <1>3, <1>4, <1>6 DEF Evolves, TiersInv, StoredOK, LivingMemories
<1>8. TiersSound'
  <2>1. MergedWereAbsorbed'
    BY <1>3 DEF TiersInv, TiersSound, MergedWereAbsorbed
  <2>2. \A i \in DOMAIN stored' \ GoneMemories' : i \in LivingMemories
    BY <1>4, <1>5 DEF StoredOK, LivingMemories
  <2>3. \A i \in LivingMemories : i \in DOMAIN stored \ GoneMemories
    BY <1>6 DEF LivingMemories
  <2>4. DistilledOnce'
    BY <1>6, <2>2, <2>3 DEF DistilledOnce, TiersInv, TiersSound, GoneMemories
  <2>. QED BY <2>1, <2>4 DEF TiersSound
<1>9. PICK k : Works(p, k) /\ JobOK(p, k)'
  <2>1. JobOK(p, j)'
    BY <1>2, <1>7, JobStays DEF TiersInv
  <2>2. CASE j.op = "merge"
    <3>. DEFINE k == [j EXCEPT !.step = "delete"]
    <3>1. Works(p, k) /\ absorbed' = absorbed \cup {<<j.copy.id, j.other.id>>}
      BY <1>1, <2>2 DEF UpdateInserts
    <3>2. \E e \in absorbed' : e[2] = j.other.id
      <4>1. PICK i, o : i = j.copy.id /\ o = j.other.id
        OBVIOUS
      <4>2. <<i, o>> \in absorbed' /\ <<i, o>>[2] = o
        BY <3>1, <4>1
      <4>. QED BY <4>1, <4>2, Zenon
    <3>3. /\ k \in JobRecord /\ k.op = j.op /\ k.todo = j.todo /\ k.copy = j.copy
          /\ k.other = j.other /\ k.step = "delete"
      BY <1>2 DEF JobOK, JobRecord
    <3>4. j.copy # NoCopy /\ j.other \in MemoryRecord
      BY <1>2, <2>2 DEF JobOK
    <3>. HIDE DEF k
    <3>5. JobOK(p, k)'
      BY <2>1, <2>2, <3>2, <3>3, <3>4 DEF JobOK
    <3>. QED BY <3>1, <3>5
  <2>3. CASE j.op # "merge"
    <3>. DEFINE k == [j EXCEPT !.copy = NoCopy, !.step = "none"]
    <3>1. Works(p, k)
      BY <1>1, <2>3 DEF UpdateInserts
    <3>2. /\ k \in JobRecord /\ k.op = j.op /\ k.todo = j.todo /\ k.copy = NoCopy
          /\ k.other = j.other /\ k.step = "none"
      BY <1>2 DEF JobOK, JobRecord
    <3>. HIDE DEF k
    <3>3. JobOK(p, k)'
      BY <2>1, <3>2 DEF JobOK
    <3>. QED BY <3>1, <3>3
  <2>. QED BY <2>2, <2>3
<1>10. job' = [q \in MemTasks |-> job'[q]] /\ \A q \in MemTasks : JobOK(q, job[q])'
  BY <1>7, <1>9, JobMoves
<1>. QED BY <1>5, <1>8, <1>10 DEF TiersInv

\* A new memory comes in: nothing in the store was distilled from what it was.
LEMMA NewMemoryKept ==
  ASSUME TiersInv, NEW r \in MemoryRecord, r.id = memCount + 1, memCount' = memCount + 1,
         stored' = Put(stored, memCount + 1, r),
         r.from = 0 \/ \A i \in LivingMemories : stored[i].from # r.from,
         UNCHANGED <<expired, forgotten, absorbed, mergedAway>>
  PROVE  /\ Evolves /\ StoredOK' /\ TiersSound'
         /\ \A i \in LivingMemories' : i \notin 1..memCount => stored'[i].from = r.from
<1>1. PICK n \in Nat : n = memCount
  BY DEF TiersInv, StoredOK
<1>2. /\ DOMAIN stored' = DOMAIN stored \cup {n + 1}
      /\ \A i \in DOMAIN stored' : stored'[i] = IF i = n + 1 THEN r ELSE stored[i]
      /\ stored' = [i \in DOMAIN stored' |-> stored'[i]]
  BY <1>1 DEF Put
<1>3. 1..(n + 1) = (1..n) \cup {n + 1} /\ n + 1 \notin 1..n
  BY <1>1
<1>4. GoneMemories' = GoneMemories
  BY DEF GoneMemories
<1>5. \A i \in LivingMemories' : i \in LivingMemories \/ i = n + 1
  BY <1>1, <1>3, <1>4 DEF LivingMemories
<1>6. DOMAIN stored \subseteq 1..n /\ LivingMemories \subseteq DOMAIN stored
  BY <1>1 DEF TiersInv, StoredOK
<1>7. \A i \in DOMAIN stored : stored'[i] = stored[i]
  BY <1>2, <1>3, <1>6
<1>8. StoredOK'
  <2>1. memCount' \in Nat /\ DOMAIN stored' \subseteq 1..memCount' /\ LivingMemories' \subseteq DOMAIN stored'
    BY <1>1, <1>2, <1>3, <1>5, <1>6
  <2>2. \A i \in DOMAIN stored' : stored'[i] \in MemoryRecord /\ stored'[i].id = i
    BY <1>1, <1>2 DEF TiersInv, StoredOK
  <2>. QED BY <1>2, <2>1, <2>2 DEF StoredOK
<1>9. Evolves
  <2>1. memCount' \in Nat /\ memCount' >= memCount
    BY <1>1
  <2>. QED BY <1>1, <1>3, <1>5, <1>6, <1>7, <2>1 DEF Evolves
<1>10. TiersSound'
  <2>1. MergedWereAbsorbed'
    BY DEF TiersInv, TiersSound, MergedWereAbsorbed
  <2>2. ASSUME NEW i \in DOMAIN stored' \ GoneMemories', NEW j \in DOMAIN stored' \ GoneMemories',
               stored'[i].from # 0, stored'[i].from = stored'[j].from
        PROVE  i = j
    <3>1. \A k \in DOMAIN stored \ GoneMemories : k \in LivingMemories
      BY <1>1, <1>6 DEF LivingMemories
    <3>2. CASE i \in DOMAIN stored /\ j \in DOMAIN stored
      BY <1>4, <1>7, <2>2, <3>2 DEF TiersInv, TiersSound, DistilledOnce, GoneMemories
    <3>3. CASE i = n + 1 \/ j = n + 1
      BY <1>2, <1>4, <1>7, <2>2, <3>1, <3>3
    <3>. QED BY <1>2, <3>2, <3>3
  <2>3. DistilledOnce'
    BY <2>2 DEF DistilledOnce, GoneMemories
  <2>. QED BY <2>1, <2>3 DEF TiersSound
<1>11. \A i \in LivingMemories' : i \notin 1..memCount => stored'[i].from = r.from
  BY <1>1, <1>2, <1>5 DEF LivingMemories
<1>. QED BY <1>8, <1>9, <1>10, <1>11

LEMMA StoresKeepTiers ==
  ASSUME TiersInv, NEW d \in Drafts, StoreMemory(d)
  PROVE  TiersInv'
<1>. DEFINE id == memCount + 1
            r == Memory(id, d.kind, d.importance, d.content, 0, AssignInitialTier(d.kind, d.importance))
<1>1. memCount \in Nat
  BY DEF TiersInv, StoredOK
<1>2. r \in MemoryRecord /\ r.id = id /\ r.from = 0
  <2>1. AssignInitialTier(d.kind, d.importance) \in {"Hot", "Warm", "Cold"}
    BY DEF AssignInitialTier
  <2>2. id \in Nat /\ d.importance \in Nat
    BY <1>1, MemoryAssumption
  <2>. HIDE DEF id
  <2>. QED BY <2>1, <2>2 DEF Memory, MemoryRecord
<1>3. /\ memCount' = id /\ stored' = Put(stored, id, r) /\ job' = job
      /\ UNCHANGED <<expired, forgotten, absorbed, mergedAway>>
  BY DEF StoreMemory
<1>. HIDE DEF r
<1>4. /\ Evolves /\ StoredOK' /\ TiersSound'
      /\ \A i \in LivingMemories' : i \notin 1..memCount => stored'[i].from = r.from
  BY <1>2, <1>3, NewMemoryKept
<1>5. ASSUME NEW q \in MemTasks PROVE JobOK(q, job[q])'
  <2>1. PICK k : k = job[q]
    OBVIOUS
  <2>2. JobOK(q, k)
    BY <2>1 DEF TiersInv
  <2>3. k.copy # NoCopy => k.copy.id # 0
    BY <1>1, <2>2 DEF JobOK, CopyOK
  <2>4. JobOK(q, k)'
    BY <1>2, <1>4, <2>2, <2>3, JobStays DEF TiersInv
  <2>. QED BY <1>3, <2>1, <2>4
<1>. QED BY <1>3, <1>4, <1>5 DEF TiersInv

\* Only one task consolidates: nobody else is about to distill the same memory.
LEMMA DistillsKeepTiers ==
  ASSUME TiersInv, \A p, q \in Consolidators : p = q,
         NEW p \in Consolidators, DistillStores(p)
  PROVE  TiersInv'
<1>1. PICK j : j = job[p]
  OBVIOUS
<1>2. p \in MemTasks
  BY DEF MemTasks
<1>3. /\ JobOK(p, j) /\ j.op = "distill" /\ j.copy \in MemoryRecord /\ j.step = "none"
      /\ CopyOK(j.copy) /\ \A i \in LivingMemories : stored[i].from # j.copy.id
  BY <1>1, <1>2 DEF TiersInv, DistillStores, JobOK, JobRecord
<1>. DEFINE id == memCount + 1
            r == Memory(id, "Semantic", j.copy.importance, j.copy.content, j.copy.id, "Warm")
            k == [j EXCEPT !.copy = NoCopy]
<1>4. r \in MemoryRecord /\ r.id = id /\ r.from = j.copy.id
  <2>1. id \in Nat
    BY DEF TiersInv, StoredOK
  <2>. HIDE DEF id
  <2>. QED BY <1>3, <2>1 DEF Memory, MemoryRecord
<1>5. /\ memCount' = id /\ stored' = Put(stored, id, r) /\ Works(p, k)
      /\ UNCHANGED <<expired, forgotten, absorbed, mergedAway>>
  BY <1>1 DEF DistillStores
<1>. HIDE DEF r
<1>6. /\ Evolves /\ StoredOK' /\ TiersSound'
      /\ \A i \in LivingMemories' : i \notin 1..memCount => stored'[i].from = r.from
  BY <1>3, <1>4, <1>5, NewMemoryKept
<1>7. k \in JobRecord /\ k.op = j.op /\ k.todo = j.todo /\ k.copy = NoCopy /\ k.step = "none" /\ k.other = j.other
  BY <1>3 DEF JobOK, JobRecord
<1>. HIDE DEF k
<1>8. JobOK(p, k)
  BY <1>3, <1>7 DEF JobOK
<1>9. JobOK(p, k)'
  BY <1>6, <1>7, <1>8, JobStays DEF TiersInv
<1>10. \A q \in MemTasks \ {p} : job[q].op # "distill"
  BY DEF TiersInv, JobOK
<1>11. job' = [q \in MemTasks |-> job'[q]] /\ \A q \in MemTasks : JobOK(q, job[q])'
  BY <1>2, <1>5, <1>6, <1>9, <1>10, JobMoves
<1>. QED BY <1>6, <1>11 DEF TiersInv

LEMMA TiersInitially == MemoryInit => TiersInv
<1>. SUFFICES ASSUME MemoryInit PROVE TiersInv
  OBVIOUS
<1>1. stored = EmptyMap /\ DOMAIN stored = {} /\ memCount = 0
  BY DEF MemoryInit, EmptyMap
<1>2. StoredOK
  BY <1>1 DEF StoredOK, EmptyMap, LivingMemories
<1>3. TiersSound
  BY <1>1 DEF TiersSound, MergedWereAbsorbed, DistilledOnce, MemoryInit
<1>4. \A p \in MemTasks : JobOK(p, job[p])
  BY NoJobRight DEF MemoryInit
<1>. QED BY <1>2, <1>3, <1>4 DEF TiersInv, MemoryInit

LEMMA TiersStep ==
  ASSUME TiersInv, [MemoryNext]_memoryVars, \A p, q \in Consolidators : p = q
  PROVE  TiersInv'
<1>. USE DEF MemTasks
<1>1. CASE MemoryUse
  <2>1. CASE \E d \in Drafts : StoreMemory(d)
    BY <2>1, StoresKeepTiers
  <2>2. CASE \E i \in DOMAIN stored : Forget(i)
    BY <2>2, LossesKeepTiers
  <2>3. CASE \E p \in MemTasks : UpdateChecks(p) \/ UpdateInserts(p) \/ JobEnds(p)
    BY <2>3, ChecksKeepTiers, InsertsKeepTiers, ReadsKeepTiers
  <2>. QED BY <1>1, <2>1, <2>2, <2>3 DEF MemoryUse
<1>2. CASE RecallNext
  <2>1. PICK p \in Recallers : \/ \E ids \in SUBSET DOMAIN stored : Recall(p, ids)
                               \/ \E m \in job[p].todo : NextRecalled(p, m)
    BY <1>2 DEF RecallNext
  <2>2. p \in MemTasks
    OBVIOUS
  <2>. QED BY <2>1, <2>2, ReadsKeepTiers, WorkersKeepTiers, Zenon
<1>3. CASE CompactNext
  <2>1. CASE \E i \in DOMAIN stored : Expires(i)
    BY <2>1, LossesKeepTiers
  <2>2. CASE \E p \in Compactors :
               CompactBegins(p) \/ \E m \in job[p].todo, long \in BOOLEAN : NextCompacted(p, m, long)
    <3>1. PICK p \in Compactors :
             CompactBegins(p) \/ \E m \in job[p].todo, long \in BOOLEAN : NextCompacted(p, m, long)
      BY <2>2
    <3>2. p \in MemTasks
      OBVIOUS
    <3>3. CASE CompactBegins(p)
      BY <3>2, <3>3, ReadsKeepTiers
    <3>4. CASE \E m \in job[p].todo, long \in BOOLEAN : NextCompacted(p, m, long)
      <4>1. PICK m \in job[p].todo, long \in BOOLEAN : NextCompacted(p, m, long)
        BY <3>4
      <4>2. CASE m.id \in expired
        BY <3>2, <4>1, <4>2, LossesKeepTiers
      <4>3. CASE m.id \notin expired
        BY <3>2, <4>1, <4>3, WorkersKeepTiers
      <4>. QED BY <4>2, <4>3
    <3>. QED BY <3>1, <3>3, <3>4
  <2>. QED BY <1>3, <2>1, <2>2 DEF CompactNext
<1>4. CASE ConsolidateNext
  <2>1. PICK p \in Consolidators :
          \/ ConsolidateBegins(p) \/ DistillStores(p) \/ DistillEnds(p) \/ MergeDeletes(p) \/ MergeEnds(p)
          \/ \E m \in job[p].todo :
               \/ DistillLooks(p, m) \/ NextReinforced(p, m)
               \/ \E n \in job[p].todo : MergeReads(p, m, n)
    BY <1>4 DEF ConsolidateNext
  <2>2. p \in MemTasks
    OBVIOUS
  <2>3. CASE ConsolidateBegins(p) \/ MergeEnds(p)
    BY <2>2, <2>3, ReadsKeepTiers
  <2>4. CASE DistillStores(p)
    BY <2>4, DistillsKeepTiers
  <2>5. CASE DistillEnds(p) \/ \E m, n \in job[p].todo : MergeReads(p, m, n)
    BY <2>2, <2>5, MergesKeepTiers
  <2>6. CASE MergeDeletes(p)
    BY <2>2, <2>6, LossesKeepTiers
  <2>7. CASE \E m \in job[p].todo : DistillLooks(p, m)
    BY <2>2, <2>7, LooksKeepTiers
  <2>8. CASE \E m \in job[p].todo : NextReinforced(p, m)
    BY <2>2, <2>8, WorkersKeepTiers, Zenon
  <2>. QED BY <2>1, <2>3, <2>4, <2>5, <2>6, <2>7, <2>8
<1>5. CASE UNCHANGED memoryVars
  <2>1. UNCHANGED <<stored, memCount, expired, forgotten, absorbed, mergedAway>> /\ job' = job
    BY <1>5 DEF memoryVars
  <2>. QED BY <2>1, StoreStays DEF TiersInv
<1>. QED BY <1>1, <1>2, <1>3, <1>4, <1>5 DEF MemoryNext

-----------------------------------------------------------------------------
(***************************************************************************)
(* The working context. The order of last use, recency, holds every memory *)
(* once; the context's are in it in the same order, and what was evicted   *)
(* comes before all of them.                                               *)
(***************************************************************************)
ContextEntry == [id : ContextIds, kind : {"Working", "Episodic"}]

EachOnce(s) == \A j, k \in DOMAIN s : s[j] = s[k] => j = k
UsedBefore(s, x, y) == \E j, k \in DOMAIN s : j < k /\ s[j] = x /\ s[k] = y
Used(s, x) == \E k \in DOMAIN s : s[k] = x

ContextTyped ==
  /\ context \in Seq(ContextEntry) /\ loading \in Seq(ContextEntry) /\ saving \in Seq(ContextEntry)
  /\ DOMAIN saved \subseteq ContextIds /\ IsFiniteSet(DOMAIN saved)
  /\ \A x \in DOMAIN saved : saved[x] \in {"Working", "Episodic"}
  /\ recency \in Seq(ContextIds) /\ EachOnce(recency)

ContextOrder ==
  /\ Len(context) <= ContextCapacity
  /\ \A j, k \in DOMAIN context : j < k => UsedBefore(recency, context[j].id, context[k].id)
  /\ \A k \in DOMAIN context : Used(recency, context[k].id)
  /\ \A x \in evicted : Used(recency, x)
  /\ \A x \in evicted, y \in Ids(context) : UsedBefore(recency, x, y)

ContextInv == ContextTyped /\ ContextOrder

\* A sequence without the element at k.
LEMMA RemovedAt ==
  ASSUME NEW T, NEW s \in Seq(T), NEW k \in 1..Len(s)
  PROVE  /\ RemoveAt(s, k) \in Seq(T) /\ Len(RemoveAt(s, k)) = Len(s) - 1
         /\ \A i \in 1..(Len(s) - 1) : RemoveAt(s, k)[i] = IF i < k THEN s[i] ELSE s[i + 1]
<1>1. PICK x \in Int, y \in Int, n \in Nat : x = k - 1 /\ y = k + 1 /\ n = Len(s)
  OBVIOUS
<1>2. k \in Nat /\ 1 <= k /\ k <= n /\ DOMAIN s = 1..n /\ \A i \in 1..n : s[i] \in T
  BY <1>1
<1>. DEFINE a == SubSeq(s, 1, x)
            b == SubSeq(s, y, n)
<1>3. a \in Seq(T) /\ Len(a) = k - 1 /\ \A i \in 1..(k - 1) : a[i] = s[i]
  <2>1. \A i \in 1..x : s[i] \in T
    BY <1>1, <1>2
  <2>2. /\ a \in Seq(T) /\ Len(a) = IF 1 <= x THEN x - 1 + 1 ELSE 0
        /\ \A i \in 1..(x - 1 + 1) : a[i] = s[1 + i - 1]
    BY <2>1, SubSeqProperties
  <2>. HIDE DEF a
  <2>3. Len(a) = k - 1
    BY <1>1, <1>2, <2>2
  <2>4. ASSUME NEW i \in 1..(k - 1) PROVE a[i] = s[i]
    <3>1. i \in 1..(x - 1 + 1) /\ 1 + i - 1 = i
      BY <1>1, <1>2
    <3>. QED BY <2>2, <3>1
  <2>. QED BY <2>2, <2>3, <2>4
<1>4. b \in Seq(T) /\ Len(b) = n - k /\ \A i \in 1..(n - k) : b[i] = s[k + i]
  <2>1. \A i \in y..n : s[i] \in T
    BY <1>1, <1>2
  <2>2. /\ b \in Seq(T) /\ Len(b) = IF y <= n THEN n - y + 1 ELSE 0
        /\ \A i \in 1..(n - y + 1) : b[i] = s[y + i - 1]
    BY <2>1, SubSeqProperties
  <2>. HIDE DEF b
  <2>3. Len(b) = n - k
    BY <1>1, <1>2, <2>2
  <2>4. ASSUME NEW i \in 1..(n - k) PROVE b[i] = s[k + i]
    <3>1. i \in 1..(n - y + 1) /\ y + i - 1 = k + i
      BY <1>1, <1>2
    <3>. QED BY <2>2, <3>1
  <2>. QED BY <2>2, <2>3, <2>4
<1>5. RemoveAt(s, k) = a \o b
  BY <1>1 DEF RemoveAt
<1>. HIDE DEF a, b
<1>6. /\ a \o b \in Seq(T) /\ Len(a \o b) = Len(a) + Len(b)
      /\ \A i \in 1..(Len(a) + Len(b)) : (a \o b)[i] = IF i <= Len(a) THEN a[i] ELSE b[i - Len(a)]
  BY <1>3, <1>4, ConcatProperties
<1>7. Len(a \o b) = Len(s) - 1
  BY <1>1, <1>2, <1>3, <1>4, <1>6
<1>8. ASSUME NEW i \in 1..(Len(s) - 1) PROVE (a \o b)[i] = IF i < k THEN s[i] ELSE s[i + 1]
  <2>1. (a \o b)[i] = IF i <= k - 1 THEN a[i] ELSE b[i - (k - 1)]
    BY <1>1, <1>2, <1>3, <1>4, <1>6
  <2>2. CASE i < k
    <3>1. i \in 1..(k - 1)
      BY <1>1, <1>2, <2>2
    <3>. QED BY <1>2, <1>3, <2>1, <2>2, <3>1
  <2>3. CASE ~(i < k)
    <3>1. i - (k - 1) \in 1..(n - k) /\ k + (i - (k - 1)) = i + 1 /\ ~(i <= k - 1)
      BY <1>1, <1>2, <2>3
    <3>. QED BY <1>4, <2>1, <2>3, <3>1
  <2>. QED BY <2>2, <2>3
<1>. QED BY <1>5, <1>6, <1>7, <1>8

\* What WithoutAt leaves: every other element, in the order they were in.
LEMMA WithoutKeepsOrder ==
  ASSUME NEW T, NEW s \in Seq(T), NEW places \in SUBSET DOMAIN s, \A j, k \in places : j = k
  PROVE  LET r == WithoutAt(s, places) IN
         /\ r \in Seq(T) /\ Len(r) <= Len(s)
         /\ \A i \in DOMAIN r : \E j \in DOMAIN s \ places : r[i] = s[j]
         /\ \A i, k \in DOMAIN r : i < k =>
              \E j, l \in DOMAIN s \ places : j < l /\ r[i] = s[j] /\ r[k] = s[l]
         /\ \A j \in DOMAIN s \ places : \E i \in DOMAIN r : r[i] = s[j]
         /\ \A j, l \in DOMAIN s \ places : j < l =>
              \E i, k \in DOMAIN r : i < k /\ r[i] = s[j] /\ r[k] = s[l]
<1>1. CASE places = {}
  BY <1>1 DEF WithoutAt
<1>2. CASE places # {}
  <2>1. PICK p \in places : p = CHOOSE k \in places : TRUE
    BY <1>2
  <2>2. places = {p} /\ WithoutAt(s, places) = RemoveAt(s, p)
    BY <2>1 DEF WithoutAt
  <2>3. PICK n \in Nat : n = Len(s)
    OBVIOUS
  <2>4. DOMAIN s = 1..n /\ p \in 1..n
    BY <2>3
  <2>. DEFINE r == RemoveAt(s, p)
  <2>5. r \in Seq(T) /\ Len(r) = n - 1 /\ \A i \in 1..(n - 1) : r[i] = IF i < p THEN s[i] ELSE s[i + 1]
    BY <2>3, <2>4, RemovedAt
  <2>. HIDE DEF r
  <2>6. DOMAIN r = 1..(n - 1)
    BY <2>5
  <2>. DEFINE old(i) == IF i < p THEN i ELSE i + 1
              new(j) == IF j < p THEN j ELSE j - 1
  <2>7. \A i \in DOMAIN r : old(i) \in DOMAIN s \ places /\ r[i] = s[old(i)]
    BY <2>2, <2>4, <2>5, <2>6
  <2>8. \A j \in DOMAIN s \ places : new(j) \in DOMAIN r /\ r[new(j)] = s[j]
    <3>. SUFFICES ASSUME NEW j \in 1..n, j # p PROVE new(j) \in 1..(n - 1) /\ r[new(j)] = s[j]
      BY <2>2, <2>4, <2>6
    <3>1. new(j) \in 1..(n - 1) /\ (j < p => new(j) = j) /\ (~(j < p) => ~(new(j) < p) /\ new(j) + 1 = j)
      BY <2>4
    <3>. HIDE DEF new
    <3>. QED BY <2>5, <3>1
  <2>9. \A i, k \in DOMAIN r : i < k => old(i) < old(k)
    BY <2>4, <2>6
  <2>10. \A j, l \in DOMAIN s \ places : j < l => new(j) < new(l)
    BY <2>2, <2>4
  <2>11. r \in Seq(T) /\ Len(r) <= Len(s)
    BY <2>3, <2>5
  <2>. HIDE DEF old, new
  <2>12. \A i \in DOMAIN r : \E j \in DOMAIN s \ places : r[i] = s[j]
    BY <2>7
  <2>13. \A j \in DOMAIN s \ places : \E i \in DOMAIN r : r[i] = s[j]
    BY <2>8
  <2>14. \A i, k \in DOMAIN r : i < k =>
           \E j, l \in DOMAIN s \ places : j < l /\ r[i] = s[j] /\ r[k] = s[l]
    BY <2>7, <2>9
  <2>15. \A j, l \in DOMAIN s \ places : j < l =>
           \E i, k \in DOMAIN r : i < k /\ r[i] = s[j] /\ r[k] = s[l]
    BY <2>8, <2>10
  <2>16. r = WithoutAt(s, places)
    BY <2>2 DEF r
  <2>. QED BY <2>11, <2>12, <2>13, <2>14, <2>15, <2>16
<1>. QED BY <1>1, <1>2

\* x is used: it is the last one now, the others are in the order they were in.
LEMMA UseMovesLast ==
  ASSUME recency \in Seq(ContextIds), EachOnce(recency), NEW x \in ContextIds, Uses(x)
  PROVE  /\ recency' \in Seq(ContextIds) /\ EachOnce(recency)' /\ Used(recency', x)
         /\ \A y : Used(recency, y) => Used(recency', y)
         /\ \A y : Used(recency, y) /\ y # x => UsedBefore(recency', y, x)
         /\ \A y, z : UsedBefore(recency, y, z) /\ y # x /\ z # x => UsedBefore(recency', y, z)
<1>. DEFINE places == {k \in DOMAIN recency : recency[k] = x}
            r == WithoutAt(recency, places)
<1>1. places \in SUBSET DOMAIN recency /\ \A j, k \in places : j = k
  BY DEF EachOnce
<1>2. \A k \in DOMAIN recency \ places : recency[k] # x
  OBVIOUS
<1>3. \A k \in DOMAIN recency : recency[k] # x => k \in DOMAIN recency \ places
  OBVIOUS
<1>4. recency' = Append(r, x)
  BY DEF Uses
<1>. HIDE DEF places
<1>5. /\ r \in Seq(ContextIds)
      /\ \A i \in DOMAIN r : \E j \in DOMAIN recency \ places : r[i] = recency[j]
      /\ \A i, k \in DOMAIN r : i < k =>
           \E j, l \in DOMAIN recency \ places : j < l /\ r[i] = recency[j] /\ r[k] = recency[l]
      /\ \A j \in DOMAIN recency \ places : \E i \in DOMAIN r : r[i] = recency[j]
      /\ \A j, l \in DOMAIN recency \ places : j < l =>
           \E i, k \in DOMAIN r : i < k /\ r[i] = recency[j] /\ r[k] = recency[l]
  BY <1>1, WithoutKeepsOrder
<1>. HIDE DEF r
<1>6. PICK n \in Nat : n = Len(r)
  BY <1>5
<1>7. /\ recency' \in Seq(ContextIds) /\ DOMAIN recency' = 1..(n + 1) /\ DOMAIN r = 1..n
      /\ \A i \in 1..n : recency'[i] = r[i]
      /\ recency'[n + 1] = x
  BY <1>4, <1>5, <1>6, AppendProperties
<1>8. ASSUME NEW i \in 1..n PROVE r[i] # x
  <2>1. PICK j \in DOMAIN recency \ places : r[i] = recency[j]
    BY <1>5, <1>7
  <2>. QED BY <1>2, <2>1
<1>9. EachOnce(recency)'
  <2>1. ASSUME NEW i \in 1..n, NEW k \in 1..n, i < k PROVE r[i] # r[k]
    <3>1. PICK j \in DOMAIN recency \ places, l \in DOMAIN recency \ places :
            j < l /\ r[i] = recency[j] /\ r[k] = recency[l]
      <4>1. i \in DOMAIN r /\ k \in DOMAIN r
        BY <1>7
      <4>. QED BY <1>5, <2>1, <4>1
    <3>2. DOMAIN recency \subseteq Nat
      OBVIOUS
    <3>. QED BY <3>1, <3>2 DEF EachOnce
  <2>2. ASSUME NEW i \in 1..(n + 1), NEW k \in 1..(n + 1), i < k PROVE recency'[i] # recency'[k]
    <3>1. i \in 1..n
      BY <2>2
    <3>2. CASE k = n + 1
      BY <1>7, <1>8, <3>1, <3>2
    <3>3. CASE k \in 1..n
      BY <1>7, <2>1, <2>2, <3>1, <3>3
    <3>. QED BY <3>2, <3>3
  <2>3. \A i, k \in 1..(n + 1) : i # k => i < k \/ k < i
    OBVIOUS
  <2>. QED BY <1>7, <2>2, <2>3 DEF EachOnce
<1>10. Used(recency', x)
  <2>1. n + 1 \in 1..(n + 1)
    OBVIOUS
  <2>. QED BY <1>7, <2>1 DEF Used
<1>11. ASSUME NEW y, Used(recency, y), y # x PROVE Used(recency', y) /\ UsedBefore(recency', y, x)
  <2>1. PICK i \in 1..n : r[i] = y
    BY <1>3, <1>5, <1>7, <1>11 DEF Used
  <2>2. i \in 1..(n + 1) /\ n + 1 \in 1..(n + 1) /\ i < n + 1
    OBVIOUS
  <2>. QED BY <1>7, <2>1, <2>2 DEF Used, UsedBefore
<1>12. ASSUME NEW y, NEW z, UsedBefore(recency, y, z), y # x, z # x PROVE UsedBefore(recency', y, z)
  <2>1. PICK j \in DOMAIN recency, l \in DOMAIN recency : j < l /\ recency[j] = y /\ recency[l] = z
    BY <1>12 DEF UsedBefore
  <2>2. PICK i \in 1..n, k \in 1..n : i < k /\ r[i] = y /\ r[k] = z
    BY <1>3, <1>5, <1>7, <1>12, <2>1
  <2>3. i \in 1..(n + 1) /\ k \in 1..(n + 1)
    OBVIOUS
  <2>. QED BY <1>7, <2>2, <2>3 DEF UsedBefore
<1>. QED BY <1>7, <1>9, <1>10, <1>11, <1>12

\* One memory is never before itself, so a context in order holds it once.
LEMMA ContextOnce ==
  ASSUME ContextInv
  PROVE  \A j, k \in DOMAIN context : context[j].id = context[k].id => j = k
<1>1. ASSUME NEW j \in DOMAIN context, NEW k \in DOMAIN context, j < k PROVE context[j].id # context[k].id
  <2>1. PICK i \in DOMAIN recency, l \in DOMAIN recency :
          i < l /\ recency[i] = context[j].id /\ recency[l] = context[k].id
    BY <1>1 DEF ContextInv, ContextOrder, UsedBefore
  <2>2. DOMAIN recency \subseteq Nat
    BY DEF ContextInv, ContextTyped
  <2>. QED BY <2>1, <2>2 DEF ContextInv, ContextTyped, EachOnce
<1>2. \A j, k \in DOMAIN context : j # k => j < k \/ k < j
  BY DEF ContextInv, ContextTyped
<1>. QED BY <1>1, <1>2

\* The context without x: the others, in their order.
LEMMA ApartKeeps ==
  ASSUME ContextInv, NEW x
  PROVE  /\ Apart(context, x) \in Seq(ContextEntry) /\ Len(Apart(context, x)) <= Len(context)
         /\ \A i \in DOMAIN Apart(context, x) : \E j \in DOMAIN context :
              Apart(context, x)[i] = context[j] /\ context[j].id # x
         /\ \A i, k \in DOMAIN Apart(context, x) : i < k => \E j, l \in DOMAIN context :
              j < l /\ Apart(context, x)[i] = context[j] /\ Apart(context, x)[k] = context[l]
<1>. DEFINE places == {k \in DOMAIN context : context[k].id = x}
<1>1. places \in SUBSET DOMAIN context /\ \A j, k \in places : j = k
  BY ContextOnce
<1>2. \A j \in DOMAIN context \ places : context[j].id # x
  OBVIOUS
<1>3. Apart(context, x) = WithoutAt(context, places)
  BY DEF Apart
<1>. HIDE DEF places
<1>4. context \in Seq(ContextEntry)
  BY DEF ContextInv, ContextTyped
<1>. DEFINE r == WithoutAt(context, places)
<1>5. /\ r \in Seq(ContextEntry) /\ Len(r) <= Len(context)
      /\ \A i \in DOMAIN r : \E j \in DOMAIN context \ places : r[i] = context[j]
      /\ \A i, k \in DOMAIN r : i < k =>
           \E j, l \in DOMAIN context \ places : j < l /\ r[i] = context[j] /\ r[k] = context[l]
  BY <1>1, <1>4, WithoutKeepsOrder
<1>. HIDE DEF r
<1>6. \A i \in DOMAIN r : \E j \in DOMAIN context : r[i] = context[j] /\ context[j].id # x
  BY <1>2, <1>5
<1>7. \A i, k \in DOMAIN r : i < k => \E j, l \in DOMAIN context :
        j < l /\ r[i] = context[j] /\ r[k] = context[l]
  BY <1>5
<1>. QED BY <1>3, <1>5, <1>6, <1>7 DEF r

\* add: the memory comes last in both orders, the front goes when there is no room.
LEMMA AddKeeps ==
  ASSUME ContextInv, NEW m \in ContextEntry, Add(m)
  PROVE  context' \in Seq(ContextEntry) /\ recency' \in Seq(ContextIds) /\ EachOnce(recency)' /\ ContextOrder'
<1>. DEFINE a == Apart(context, m.id)
            r == Readded(m)
<1>1. m.id \in ContextIds /\ Uses(m.id)
  BY DEF ContextEntry, Add
<1>2. /\ recency' \in Seq(ContextIds) /\ EachOnce(recency)' /\ Used(recency', m.id)
      /\ \A y : Used(recency, y) => Used(recency', y)
      /\ \A y : Used(recency, y) /\ y # m.id => UsedBefore(recency', y, m.id)
      /\ \A y, z : UsedBefore(recency, y, z) /\ y # m.id /\ z # m.id => UsedBefore(recency', y, z)
  BY <1>1, UseMovesLast DEF ContextInv, ContextTyped
<1>3. /\ a \in Seq(ContextEntry) /\ Len(a) <= Len(context)
      /\ \A i \in DOMAIN a : \E j \in DOMAIN context : a[i] = context[j] /\ context[j].id # m.id
      /\ \A i, k \in DOMAIN a : i < k => \E j, l \in DOMAIN context :
           j < l /\ a[i] = context[j] /\ a[k] = context[l]
  BY ApartKeeps
<1>4. r = Append(a, m)
  BY DEF Readded
<1>. HIDE DEF a
<1>5. PICK n \in Nat : n = Len(a)
  BY <1>3
<1>6. /\ r \in Seq(ContextEntry) /\ Len(r) = n + 1 /\ DOMAIN r = 1..(n + 1) /\ DOMAIN a = 1..n
      /\ r # <<>> /\ r[n + 1] = m /\ \A i \in 1..n : r[i] = a[i]
  BY <1>3, <1>4, <1>5, AppendProperties
<1>7. n <= ContextCapacity /\ ContextCapacity \in Nat \ {0}
  BY <1>3, <1>5, CapacityAssumption DEF ContextInv, ContextTyped, ContextOrder
<1>8. ASSUME NEW i \in 1..n
      PROVE  r[i].id # m.id /\ Used(recency, r[i].id) /\ r[i].id \in Ids(context)
  <2>1. PICK j \in DOMAIN context : a[i] = context[j] /\ context[j].id # m.id
    BY <1>3, <1>6
  <2>. QED BY <1>6, <2>1 DEF ContextInv, ContextOrder, Ids
<1>9. ASSUME NEW i \in 1..(n + 1) PROVE Used(recency', r[i].id)
  <2>1. i \in 1..n \/ i = n + 1
    OBVIOUS
  <2>. QED BY <1>2, <1>6, <1>8, <2>1
<1>10. ASSUME NEW i \in 1..(n + 1), NEW k \in 1..(n + 1), i < k
       PROVE  UsedBefore(recency', r[i].id, r[k].id)
  <2>1. i \in 1..n
    BY <1>10
  <2>2. CASE k = n + 1
    BY <1>2, <1>6, <1>8, <2>1, <2>2
  <2>3. CASE k \in 1..n
    <3>1. PICK j \in DOMAIN context, l \in DOMAIN context : j < l /\ a[i] = context[j] /\ a[k] = context[l]
      <4>1. i \in DOMAIN a /\ k \in DOMAIN a
        BY <1>6, <2>1, <2>3
      <4>. QED BY <1>3, <1>10, <4>1
    <3>2. UsedBefore(recency, r[i].id, r[k].id)
      BY <1>6, <2>1, <2>3, <3>1 DEF ContextInv, ContextOrder
    <3>. QED BY <1>2, <1>8, <2>1, <2>3, <3>2
  <2>. QED BY <2>2, <2>3
<1>11. ASSUME NEW x \in evicted, x # m.id
       PROVE  Used(recency', x) /\ \A i \in 1..(n + 1) : UsedBefore(recency', x, r[i].id)
  <2>1. Used(recency, x) /\ \A y \in Ids(context) : UsedBefore(recency, x, y)
    BY DEF ContextInv, ContextOrder
  <2>2. \A i \in 1..(n + 1) : i \in 1..n \/ i = n + 1
    OBVIOUS
  <2>. QED BY <1>2, <1>6, <1>8, <1>11, <2>1, <2>2
<1>12. CASE ~(n + 1 > ContextCapacity)
  <2>1. context' = r /\ evicted' = evicted \ {m.id}
    BY <1>6, <1>12 DEF Add
  <2>. HIDE DEF r
  <2>2. Len(context') <= ContextCapacity
    BY <1>6, <1>7, <1>12, <2>1
  <2>. QED BY <1>2, <1>6, <1>9, <1>10, <1>11, <2>1, <2>2 DEF ContextOrder, Ids
<1>13. CASE n + 1 > ContextCapacity
  <2>1. context' = Tail(r) /\ evicted' = (evicted \ {m.id}) \cup {r[1].id}
    BY <1>6, <1>13 DEF Add
  <2>. HIDE DEF r
  <2>2. /\ Tail(r) \in Seq(ContextEntry) /\ Len(Tail(r)) = n /\ DOMAIN Tail(r) = 1..n
        /\ \A i \in 1..n : Tail(r)[i] = r[i + 1]
    BY <1>6, HeadTailProperties
  <2>3. \A i \in 1..n : i + 1 \in 1..(n + 1) /\ 1 < i + 1 /\ 1 \in 1..(n + 1)
    OBVIOUS
  <2>4. 1 \in 1..(n + 1)
    OBVIOUS
  <2>5. \A i, k \in 1..n : i < k => i + 1 < k + 1
    OBVIOUS
  <2>6. \A i, k \in DOMAIN context' : i < k => UsedBefore(recency', context'[i].id, context'[k].id)
    BY <1>10, <2>1, <2>2, <2>3, <2>5
  <2>7. \A i \in DOMAIN context' : Used(recency', context'[i].id)
    BY <1>9, <2>1, <2>2, <2>3
  <2>8. \A x \in evicted' : Used(recency', x)
    BY <1>9, <1>11, <2>1, <2>4
  <2>9. ASSUME NEW x \in evicted', NEW i \in DOMAIN context' PROVE UsedBefore(recency', x, context'[i].id)
    <3>1. context'[i] = r[i + 1] /\ i + 1 \in 1..(n + 1) /\ 1 < i + 1
      BY <2>1, <2>2, <2>3
    <3>2. CASE x = r[1].id
      BY <1>10, <2>4, <3>1, <3>2
    <3>3. CASE x \in evicted /\ x # m.id
      BY <1>11, <3>1, <3>3
    <3>. QED BY <2>1, <3>2, <3>3
  <2>10. \A x \in evicted', y \in Ids(context)' : UsedBefore(recency', x, y)
    BY <2>9 DEF Ids
  <2>11. context' \in Seq(ContextEntry) /\ Len(context') <= ContextCapacity
    BY <1>7, <2>1, <2>2
  <2>. QED BY <1>2, <2>6, <2>7, <2>8, <2>10, <2>11 DEF ContextOrder
<1>. QED BY <1>12, <1>13

\* What a recall returns is a sequence of memories in the store.
LEMMA RecallsSaved ==
  ASSUME ContextInv, NEW q \in Queries, NEW found \in Recalled(q)
  PROVE  \E n \in Nat : found \in [1..n -> DOMAIN saved]
<1>. DEFINE S == Matching(q)
            N == Cardinality(S)
<1>1. S \subseteq DOMAIN saved
  BY DEF Matching
<1>2. IsFiniteSet(S)
  BY <1>1, FS_Subset DEF ContextInv, ContextTyped
<1>. HIDE DEF S
<1>3. PICK s \in SetToSeqs(S) : found = SubSeq(s, 1, Min({q.max, Len(s)}))
  BY DEF Recalled, S
<1>4. N \in Nat
  BY <1>2, FS_CardinalityType
<1>. HIDE DEF N
<1>5. s \in [1..N -> S]
  BY <1>3 DEF SetToSeqs, N
<1>6. s \in Seq(S) /\ Len(s) = N
  BY <1>4, <1>5
<1>7. q.max \in Nat
  BY CapacityAssumption
<1>. DEFINE l == Min({q.max, N})
<1>8. l \in Nat /\ l <= N
  <2>1. \E x \in {q.max, N} : \A y \in {q.max, N} : x <= y
    BY <1>4, <1>7
  <2>2. l \in {q.max, N} /\ \A y \in {q.max, N} : l <= y
    BY <2>1 DEF Min
  <2>. QED BY <1>4, <1>7, <2>2
<1>. HIDE DEF l
<1>9. found = SubSeq(s, 1, l)
  BY <1>3, <1>6 DEF l
<1>10. found \in [1..l -> S]
  <2>1. \A i \in 1..l : i \in 1..N
    BY <1>4, <1>8
  <2>2. found = [i \in 1..l |-> s[i]]
    <3>1. PICK x \in Int, y \in Int : x = 1 /\ y = l
      BY <1>8
    <3>2. \A i \in x..y : s[i] \in S
      BY <1>5, <2>1, <3>1
    <3>3. /\ SubSeq(s, x, y) \in Seq(S) /\ Len(SubSeq(s, x, y)) = IF x <= y THEN y - x + 1 ELSE 0
          /\ \A i \in 1..(y - x + 1) : SubSeq(s, x, y)[i] = s[x + i - 1]
      BY <1>6, <3>2, SubSeqProperties
    <3>4. found = SubSeq(s, x, y)
      BY <1>9, <3>1
    <3>5. found \in Seq(S) /\ Len(found) = l
      BY <1>8, <3>1, <3>3, <3>4
    <3>6. \A i \in 1..l : found[i] = s[i]
      <4>1. \A i \in 1..l : i \in 1..(y - x + 1) /\ x + i - 1 = i
        BY <1>8, <3>1
      <4>. QED BY <3>3, <3>4, <4>1
    <3>. QED BY <3>5, <3>6
  <2>. QED BY <1>5, <2>1, <2>2
<1>. QED BY <1>1, <1>8, <1>10

LEMMA ContextStep ==
  ASSUME ContextInv, [ContextNext]_contextVars
  PROVE  ContextInv'
<1>. USE DEF ContextInv
<1>1. ASSUME NEW x \in ContextIds, Observe(x) PROVE ContextInv'
  <2>1. [id |-> x, kind |-> "Working"] \in ContextEntry
    BY DEF ContextEntry
  <2>. QED BY <1>1, <2>1, AddKeeps DEF Observe, ContextTyped
<1>2. ASSUME NEW x \in ContextIds, GetMemory(x) PROVE ContextInv'
  <2>1. PICK k \in DOMAIN context : Add(context[k])
    BY <1>2 DEF GetMemory
  <2>2. context[k] \in ContextEntry
    BY DEF ContextTyped
  <2>3. context' \in Seq(ContextEntry) /\ recency' \in Seq(ContextIds) /\ EachOnce(recency)' /\ ContextOrder'
    BY <2>1, <2>2, AddKeeps
  <2>. QED BY <1>2, <2>3 DEF GetMemory, ContextTyped
<1>3. ASSUME NEW x \in ContextIds, RemoveMemory(x) PROVE ContextInv'
  <2>. DEFINE a == Apart(context, x)
  <2>1. /\ a \in Seq(ContextEntry) /\ Len(a) <= Len(context)
        /\ \A i \in DOMAIN a : \E j \in DOMAIN context : a[i] = context[j]
        /\ \A i, k \in DOMAIN a : i < k => \E j, l \in DOMAIN context :
             j < l /\ a[i] = context[j] /\ a[k] = context[l]
    BY ApartKeeps
  <2>2. context' = a /\ UNCHANGED <<saved, loading, saving, recency, evicted>>
    BY <1>3 DEF RemoveMemory
  <2>. HIDE DEF a
  <2>3. ContextTyped'
    BY <2>1, <2>2 DEF ContextTyped, EachOnce
  <2>4. ContextOrder'
    <3>1. Len(a) <= ContextCapacity
      BY <2>1, CapacityAssumption DEF ContextTyped, ContextOrder
    <3>2. \A i \in DOMAIN a : a[i].id \in Ids(context) /\ Used(recency, a[i].id)
      BY <2>1 DEF ContextOrder, Ids
    <3>3. \A i, k \in DOMAIN a : i < k => UsedBefore(recency, a[i].id, a[k].id)
      BY <2>1 DEF ContextOrder
    <3>4. \A y \in Ids(a) : y \in Ids(context)
      BY <3>2 DEF Ids
    <3>. QED BY <2>2, <3>1, <3>2, <3>3, <3>4 DEF ContextOrder, Ids
  <2>. QED BY <2>3, <2>4
<1>4. CASE ClearContext
  <2>1. context' = <<>> /\ UNCHANGED <<saved, loading, saving, recency, evicted>>
    BY <1>4 DEF ClearContext
  <2>. QED BY <2>1, CapacityAssumption DEF ContextTyped, ContextOrder, EachOnce, Ids
<1>5. ASSUME NEW q \in Queries, LoadContext(q) PROVE ContextInv'
  <2>1. PICK found \in Recalled(q) :
          loading' = [k \in DOMAIN found |-> [id |-> found[k], kind |-> saved[found[k]]]]
    BY <1>5 DEF LoadContext
  <2>2. PICK n \in Nat : found \in [1..n -> DOMAIN saved]
    BY RecallsSaved
  <2>3. \A k \in 1..n : [id |-> found[k], kind |-> saved[found[k]]] \in ContextEntry
    BY <2>2 DEF ContextTyped, ContextEntry
  <2>4. loading' \in Seq(ContextEntry)
    BY <2>1, <2>2, <2>3
  <2>. QED BY <1>5, <2>4 DEF LoadContext, ContextTyped, ContextOrder, EachOnce, Ids
<1>6. CASE LoadNext
  <2>1. Head(loading) \in ContextEntry /\ loading' \in Seq(ContextEntry)
    BY <1>6, HeadTailProperties DEF LoadNext, ContextTyped
  <2>2. context' \in Seq(ContextEntry) /\ recency' \in Seq(ContextIds) /\ EachOnce(recency)' /\ ContextOrder'
    BY <1>6, <2>1, AddKeeps DEF LoadNext
  <2>. QED BY <1>6, <2>1, <2>2 DEF LoadNext, ContextTyped
<1>7. CASE SaveContext
  BY <1>7 DEF SaveContext, ContextTyped, ContextOrder, EachOnce, Ids
<1>8. CASE SaveNext
  <2>1. Head(saving) \in ContextEntry /\ saving' \in Seq(ContextEntry)
    BY <1>8, HeadTailProperties DEF SaveNext, ContextTyped
  <2>2. PICK m : m = Head(saving)
    OBVIOUS
  <2>3. m.id \in ContextIds /\ Upgraded(m.kind) \in {"Working", "Episodic"}
    BY <2>1, <2>2 DEF ContextEntry, Upgraded
  <2>4. saved' = Put(saved, m.id, Upgraded(m.kind)) \/ saved' = saved
    BY <1>8, <2>2 DEF SaveNext
  <2>5. /\ DOMAIN saved' \subseteq ContextIds /\ IsFiniteSet(DOMAIN saved')
        /\ \A x \in DOMAIN saved' : saved'[x] \in {"Working", "Episodic"}
    <3>1. CASE saved' = saved
      BY <3>1 DEF ContextTyped
    <3>2. CASE saved' = Put(saved, m.id, Upgraded(m.kind))
      <4>1. DOMAIN saved' = DOMAIN saved \cup {m.id}
        BY <3>2 DEF Put
      <4>2. IsFiniteSet(DOMAIN saved')
        BY <4>1, FS_AddElement DEF ContextTyped
      <4>3. \A x \in DOMAIN saved' : saved'[x] = IF x = m.id THEN Upgraded(m.kind) ELSE saved[x]
        BY <3>2 DEF Put
      <4>. QED BY <2>3, <4>1, <4>2, <4>3 DEF ContextTyped
    <3>. QED BY <2>4, <3>1, <3>2
  <2>. QED BY <1>8, <2>1, <2>5 DEF SaveNext, ContextTyped, ContextOrder, EachOnce, Ids
<1>9. CASE UNCHANGED contextVars
  BY <1>9 DEF contextVars, ContextTyped, ContextOrder, EachOnce, Ids
<1>. QED BY <1>1, <1>2, <1>3, <1>4, <1>5, <1>6, <1>7, <1>8, <1>9 DEF ContextNext

LEMMA ContextInitially == ContextInit => ContextInv
<1>. SUFFICES ASSUME ContextInit PROVE ContextInv
  OBVIOUS
<1>1. DOMAIN saved \subseteq ContextIds /\ IsFiniteSet(DOMAIN saved) /\ \A x \in DOMAIN saved : saved[x] = "Episodic"
  <2>1. CASE saved = EmptyMap
    BY <2>1, FS_EmptySet DEF EmptyMap
  <2>2. CASE \E x \in ContextIds : saved = Put(EmptyMap, x, "Episodic")
    <3>1. PICK x \in ContextIds : saved = Put(EmptyMap, x, "Episodic")
      BY <2>2
    <3>2. saved = [y \in {x} |-> "Episodic"]
      BY <3>1 DEF Put, EmptyMap
    <3>. QED BY <3>2, FS_Singleton
  <2>. QED BY <2>1, <2>2 DEF ContextInit
<1>. QED BY <1>1, CapacityAssumption DEF ContextInit, ContextInv, ContextTyped, ContextOrder, EachOnce, Ids

\* Where a memory is in an order that holds it once.
LEMMA ContextInvIsSound == ContextInv => LeastRecentEvicted
<1>. SUFFICES ASSUME ContextInv PROVE LeastRecentEvicted
  OBVIOUS
<1>. DEFINE at(x) == CHOOSE k \in DOMAIN recency : recency[k] = x
<1>1. ASSUME NEW x, NEW y, UsedBefore(recency, x, y) PROVE at(x) < at(y)
  <2>1. PICK j \in DOMAIN recency, k \in DOMAIN recency : j < k /\ recency[j] = x /\ recency[k] = y
    BY <1>1 DEF UsedBefore
  <2>2. at(x) = j /\ at(y) = k
    BY <2>1 DEF ContextInv, ContextTyped, EachOnce
  <2>. QED BY <2>1, <2>2
<1>. QED BY <1>1 DEF LeastRecentEvicted, ContextInv, ContextOrder

(***************************************************************************)
(* Where one task at most consolidates, however its steps mix with recalls,*)
(* compactions, forgets and expiries that write stale copies back: no      *)
(* memory is deleted by a merge before its keeper was persisted, no two    *)
(* living memories were distilled from one, and the working context evicts *)
(* what was used longest ago whatever loads and saves are under way.       *)
(***************************************************************************)
THEOREM MemoryStaysSound ==
  ASSUME \A p, q \in Consolidators : p = q
  PROVE  MemorySpec /\ ContextSpec => []MemorySound
<1>1. TiersInv /\ [MemoryNext]_memoryVars => TiersInv'
  BY TiersStep
<1>2. ContextInv /\ [ContextNext]_contextVars => ContextInv'
  BY ContextStep
<1>3. TiersInv /\ ContextInv => MemorySound
  BY ContextInvIsSound DEF TiersInv, MemorySound
<1>. QED BY <1>1, <1>2, <1>3, TiersInitially, ContextInitially, PTL DEF MemorySpec, ContextSpec

-----------------------------------------------------------------------------
(* The log pipeline *)

LEMMA DistinctAppend ==
  ASSUME NEW s \in Seq(Nat), Distinct(s), NEW x \in Nat, x \notin ToSet(s)
  PROVE  /\ Append(s, x) \in Seq(Nat) /\ Distinct(Append(s, x)) /\ ToSet(Append(s, x)) = ToSet(s) \cup {x}
<1>1. PICK n \in Nat : n = Len(s) /\ DOMAIN s = 1..n
  OBVIOUS
<1>. DEFINE r == Append(s, x)
<1>2. r \in Seq(Nat) /\ DOMAIN r = 1..(n + 1) /\ r[n + 1] = x /\ \A i \in 1..n : r[i] = s[i]
  BY <1>1
<1>. HIDE DEF r
<1>3. \A i \in 1..(n + 1) : i \in 1..n \/ i = n + 1
  OBVIOUS
<1>4. n + 1 \in 1..(n + 1) /\ \A i \in 1..n : i \in 1..(n + 1)
  OBVIOUS
<1>5. \A i \in 1..n : s[i] # x
  BY <1>1 DEF ToSet
<1>6. Distinct(r)
  BY <1>1, <1>2, <1>3, <1>5 DEF Distinct
<1>7. ToSet(r) = ToSet(s) \cup {x}
  BY <1>1, <1>2, <1>3, <1>4 DEF ToSet
<1>. QED BY <1>2, <1>6, <1>7 DEF r

LEMMA DistinctTail ==
  ASSUME NEW s \in Seq(Nat), Distinct(s), s # <<>>
  PROVE  /\ Tail(s) \in Seq(Nat) /\ Distinct(Tail(s)) /\ ToSet(Tail(s)) = ToSet(s) \ {Head(s)}
         /\ Head(s) \in ToSet(s) /\ Head(s) \in Nat
<1>1. PICK n \in Nat : n = Len(s) /\ DOMAIN s = 1..n /\ n > 0
  OBVIOUS
<1>. DEFINE r == Tail(s)
<1>2. r \in Seq(Nat) /\ DOMAIN r = 1..(n - 1) /\ Head(s) = s[1] /\ \A i \in 1..(n - 1) : r[i] = s[i + 1]
  BY <1>1
<1>. HIDE DEF r
<1>3. 1 \in 1..n /\ \A i \in 1..(n - 1) : i + 1 \in 1..n /\ i + 1 # 1
  BY <1>1
<1>4. \A i, j \in 1..(n - 1) : i + 1 = j + 1 => i = j
  OBVIOUS
<1>5. Distinct(r)
  <2>1. ASSUME NEW i \in 1..(n - 1), NEW j \in 1..(n - 1), r[i] = r[j] PROVE i = j
    <3>1. s[i + 1] = s[j + 1] /\ i + 1 \in DOMAIN s /\ j + 1 \in DOMAIN s
      BY <1>1, <1>2, <1>3, <2>1
    <3>2. i + 1 = j + 1
      BY <3>1 DEF Distinct
    <3>. QED BY <3>2
  <2>. QED BY <1>2, <2>1 DEF Distinct
<1>6. ASSUME NEW y \in ToSet(r) PROVE y \in ToSet(s) /\ y # s[1]
  <2>1. PICK i \in 1..(n - 1) : y = s[i + 1]
    BY <1>2, <1>6 DEF ToSet
  <2>. QED BY <1>1, <1>3, <2>1 DEF ToSet, Distinct
<1>7. ASSUME NEW y \in ToSet(s), y # s[1] PROVE y \in ToSet(r)
  <2>1. PICK i \in 1..n : y = s[i] /\ i # 1
    BY <1>1, <1>7 DEF ToSet
  <2>2. i - 1 \in 1..(n - 1) /\ (i - 1) + 1 = i
    BY <2>1
  <2>. QED BY <1>2, <2>1, <2>2 DEF ToSet
<1>8. ToSet(r) = ToSet(s) \ {s[1]}
  BY <1>6, <1>7
<1>9. s[1] \in ToSet(s) /\ s[1] \in Nat
  BY <1>1, <1>3 DEF ToSet
<1>. QED BY <1>2, <1>5, <1>8, <1>9 DEF r

(***************************************************************************)
(* An entry is in one place: the buffer, one batch, the file or what was   *)
(* given up, and in a list once.                                           *)
(***************************************************************************)
EntryInv ==
  /\ logged \in Nat /\ buffer \in Seq(Nat) /\ draining \in [Sources -> Seq(Nat)] /\ written \in Seq(Nat)
  /\ Distinct(buffer) /\ Distinct(written) /\ \A s \in Sources : Distinct(draining[s])
  /\ ToSet(buffer) \cap (ToSet(written) \cup lost) = {} /\ ToSet(written) \cap lost = {}
  /\ \A s \in Sources : /\ ToSet(draining[s]) \cap (ToSet(buffer) \cup ToSet(written) \cup lost) = {}
                        /\ \A t \in Sources : s # t => ToSet(draining[s]) \cap ToSet(draining[t]) = {}
  /\ ToSet(written) \cup ToSet(buffer) \cup lost \cup UNION {ToSet(draining[s]) : s \in Sources} = 1..logged

LEMMA EmptyList == <<>> \in Seq(Nat) /\ Distinct(<<>>) /\ ToSet(<<>>) = {}
  BY DEF Distinct, ToSet

LEMMA EntryFirst == LogInit => EntryInv
<1>. SUFFICES ASSUME LogInit PROVE EntryInv
  OBVIOUS
<1>1. /\ logged = 0 /\ buffer = <<>> /\ draining = [s \in Sources |-> <<>>] /\ written = <<>> /\ lost = {}
  BY DEF LogInit
<1>2. 1..0 = {}
  OBVIOUS
<1>. QED BY <1>1, <1>2, EmptyList DEF EntryInv

\* A source takes a batch b: all that is in the buffer, and what it brings.
LEMMA BatchTaken ==
  ASSUME EntryInv, NEW s \in Sources, draining[s] = <<>>, NEW n \in Nat, n = logged \/ n = logged + 1,
         NEW b \in Seq(Nat), Distinct(b), ToSet(b) = ToSet(buffer) \cup (1..n \ 1..logged),
         logged' = n, UNCHANGED <<written, lost>>,
         \/ buffer' = <<>> /\ draining' = [draining EXCEPT ![s] = b]
         \/ buffer' = b /\ draining' = draining
  PROVE  EntryInv'
<1>. DEFINE fresh == 1..n \ 1..logged
            Waits(d) == UNION {ToSet(d[t]) : t \in Sources}
<1>1. /\ buffer \in Seq(Nat) /\ draining \in [Sources -> Seq(Nat)] /\ written \in Seq(Nat) /\ logged \in Nat
      /\ Distinct(written) /\ \A t \in Sources : Distinct(draining[t])
      /\ ToSet(buffer) \cap (ToSet(written) \cup lost) = {} /\ ToSet(written) \cap lost = {}
      /\ \A t \in Sources : ToSet(draining[t]) \cap (ToSet(buffer) \cup ToSet(written) \cup lost) = {}
      /\ \A t, u \in Sources : t # u => ToSet(draining[t]) \cap ToSet(draining[u]) = {}
      /\ ToSet(written) \cup ToSet(buffer) \cup lost \cup Waits(draining) = 1..logged
  BY DEF EntryInv
<1>2. 1..logged \cup fresh = 1..n /\ 1..logged \cap fresh = {}
  BY <1>1
<1>3. \A t \in Sources : ToSet(draining[t]) \subseteq 1..logged
  BY <1>1
<1>4. /\ ToSet(b) = ToSet(buffer) \cup fresh /\ ToSet(b) \cap (ToSet(written) \cup lost) = {}
      /\ \A t \in Sources : ToSet(draining[t]) \cap ToSet(b) = {}
  BY <1>1, <1>2, <1>3
<1>5. ToSet(written) \cup ToSet(b) \cup lost \cup Waits(draining) = 1..n
  BY <1>1, <1>2, <1>4
<1>. HIDE DEF fresh
<1>6. CASE buffer' = b /\ draining' = draining
  BY <1>1, <1>4, <1>5, <1>6 DEF EntryInv
<1>7. CASE buffer' = <<>> /\ draining' = [draining EXCEPT ![s] = b]
  <2>1. /\ draining' \in [Sources -> Seq(Nat)] /\ draining'[s] = b
        /\ \A t \in Sources : t # s => draining'[t] = draining[t]
    BY <1>1, <1>7
  <2>2. Waits(draining') = Waits(draining) \cup ToSet(b)
    <3>1. ToSet(draining[s]) = {}
      BY EmptyList
    <3>2. ASSUME NEW x \in Waits(draining') PROVE x \in Waits(draining) \cup ToSet(b)
      <4>1. PICK t \in Sources : x \in ToSet(draining'[t])
        BY <3>2
      <4>. QED BY <2>1, <4>1
    <3>3. ASSUME NEW x \in Waits(draining) PROVE x \in Waits(draining')
      <4>1. PICK t \in Sources : x \in ToSet(draining[t])
        BY <3>3
      <4>. QED BY <2>1, <3>1, <4>1
    <3>4. ToSet(b) \subseteq Waits(draining')
      BY <2>1
    <3>. QED BY <3>2, <3>3, <3>4
  <2>3. \A t \in Sources : Distinct(draining'[t]) /\ ToSet(draining'[t]) \cap (ToSet(written) \cup lost) = {}
    BY <1>1, <1>4, <2>1
  <2>4. \A t, u \in Sources : t # u => ToSet(draining'[t]) \cap ToSet(draining'[u]) = {}
    BY <1>1, <1>4, <2>1
  <2>5. ToSet(written) \cup {} \cup lost \cup Waits(draining') = 1..n
    BY <1>5, <2>2
  <2>. HIDE DEF Waits
  <2>6. /\ buffer' \in Seq(Nat) /\ Distinct(buffer)' /\ ToSet(buffer)' = {} /\ Distinct(written)'
        /\ ToSet(written)' = ToSet(written) /\ \A t \in Sources : Distinct(draining[t])' /\ ToSet(draining[t])' = ToSet(draining'[t])
    BY <1>1, <1>7, <2>3, EmptyList DEF Distinct, ToSet
  <2>7. UNION {ToSet(draining[t]) : t \in Sources}' = Waits(draining')
    BY DEF Waits, ToSet
  <2>. QED BY <1>1, <2>1, <2>3, <2>4, <2>5, <2>6, <2>7 DEF EntryInv
<1>. QED BY <1>6, <1>7

\* The batch of a source shrinks by what is written or given up.
LEMMA BatchShrinks ==
  ASSUME EntryInv, NEW s \in Sources, NEW b \in Seq(Nat), Distinct(b), NEW gone,
         ToSet(b) = ToSet(draining[s]) \ gone, gone \subseteq ToSet(draining[s]),
         NEW w \in Seq(Nat), Distinct(w), NEW l,
         \/ ToSet(w) = ToSet(written) \cup gone /\ l = lost
         \/ w = written /\ l = lost \cup gone,
         draining' = [draining EXCEPT ![s] = b], written' = w, lost' = l, UNCHANGED <<logged, buffer>>
  PROVE  EntryInv'
<1>. DEFINE Waits(d) == UNION {ToSet(d[t]) : t \in Sources}
<1>1. /\ buffer \in Seq(Nat) /\ draining \in [Sources -> Seq(Nat)] /\ written \in Seq(Nat) /\ logged \in Nat
      /\ Distinct(buffer) /\ \A t \in Sources : Distinct(draining[t])
      /\ ToSet(buffer) \cap (ToSet(written) \cup lost) = {} /\ ToSet(written) \cap lost = {}
      /\ \A t \in Sources : ToSet(draining[t]) \cap (ToSet(buffer) \cup ToSet(written) \cup lost) = {}
      /\ \A t, u \in Sources : t # u => ToSet(draining[t]) \cap ToSet(draining[u]) = {}
      /\ ToSet(written) \cup ToSet(buffer) \cup lost \cup Waits(draining) = 1..logged
  BY DEF EntryInv
<1>2. /\ draining' \in [Sources -> Seq(Nat)] /\ draining'[s] = b
      /\ \A t \in Sources : t # s => draining'[t] = draining[t]
  BY <1>1
<1>3. ToSet(w) \cup l = ToSet(written) \cup lost \cup gone /\ ToSet(w) \cap l = {}
  BY <1>1
<1>4. Waits(draining') \cup gone = Waits(draining)
  <2>1. ASSUME NEW x \in Waits(draining') PROVE x \in Waits(draining)
    <3>1. PICK t \in Sources : x \in ToSet(draining'[t])
      BY <2>1
    <3>. QED BY <1>2, <3>1
  <2>2. ASSUME NEW x \in Waits(draining) PROVE x \in Waits(draining') \cup gone
    <3>1. PICK t \in Sources : x \in ToSet(draining[t])
      BY <2>2
    <3>. QED BY <1>2, <3>1
  <2>. QED BY <2>1, <2>2
<1>5. ToSet(w) \cup ToSet(buffer) \cup l \cup Waits(draining') = 1..logged
  BY <1>1, <1>3, <1>4
<1>6. ToSet(buffer) \cap (ToSet(w) \cup l) = {}
  BY <1>1, <1>3
<1>7. ASSUME NEW t \in Sources
      PROVE  Distinct(draining'[t]) /\ ToSet(draining'[t]) \cap (ToSet(buffer) \cup ToSet(w) \cup l) = {}
  BY <1>1, <1>2, <1>3
<1>8. \A t, u \in Sources : t # u => ToSet(draining'[t]) \cap ToSet(draining'[u]) = {}
  BY <1>1, <1>2
<1>. HIDE DEF Waits
<1>9. /\ Distinct(buffer)' /\ ToSet(buffer)' = ToSet(buffer) /\ Distinct(written)' /\ ToSet(written)' = ToSet(w)
      /\ \A t \in Sources : Distinct(draining[t])' /\ ToSet(draining[t])' = ToSet(draining'[t])
  BY <1>1, <1>7 DEF Distinct, ToSet
<1>10. UNION {ToSet(draining[t]) : t \in Sources}' = Waits(draining')
  BY DEF Waits, ToSet
<1>. QED BY <1>1, <1>2, <1>3, <1>5, <1>6, <1>7, <1>8, <1>9, <1>10 DEF EntryInv

LEMMA SourceKeepsLog ==
  ASSUME EntryInv, NEW s \in Sources,
         Process(s) \/ Flush(s) \/ DeliverFails(s) \/ \E r \in BOOLEAN : Deliver(s, r)
  PROVE  EntryInv'
<1>1. /\ buffer \in Seq(Nat) /\ Distinct(buffer) /\ logged \in Nat /\ ToSet(buffer) \subseteq 1..logged
      /\ draining[s] \in Seq(Nat) /\ Distinct(draining[s]) /\ written \in Seq(Nat) /\ Distinct(written)
      /\ ToSet(draining[s]) \cap ToSet(written) = {} /\ draining \in [Sources -> Seq(Nat)]
  BY DEF EntryInv
<1>2. CASE Process(s)
  <2>1. PICK n \in Nat : n = logged + 1 /\ n \notin ToSet(buffer) /\ 1..n \ 1..logged = {n}
    BY <1>1
  <2>. DEFINE b == Append(buffer, n)
  <2>2. b \in Seq(Nat) /\ Distinct(b) /\ ToSet(b) = ToSet(buffer) \cup {n}
    BY <1>1, <2>1, DistinctAppend
  <2>3. /\ draining[s] = <<>> /\ logged' = n /\ UNCHANGED <<written, lost>>
        /\ \/ buffer' = <<>> /\ draining' = [draining EXCEPT ![s] = b]
           \/ buffer' = b /\ draining' = draining
    BY <1>1, <1>2, <2>1 DEF Process, Taken
  <2>. HIDE DEF b
  <2>. QED BY <2>1, <2>2, <2>3, BatchTaken
<1>3. CASE Flush(s)
  <2>1. /\ draining[s] = <<>> /\ UNCHANGED <<logged, written, lost>>
        /\ buffer' = <<>> /\ draining' = [draining EXCEPT ![s] = buffer]
    BY <1>3 DEF Flush, Taken
  <2>2. ToSet(buffer) = ToSet(buffer) \cup (1..logged \ 1..logged)
    OBVIOUS
  <2>. QED BY <1>1, <2>1, <2>2, BatchTaken
<1>4. CASE DeliverFails(s)
  <2>1. /\ UNCHANGED <<logged, buffer, written>> /\ lost' = lost \cup ToSet(draining[s])
        /\ draining' = [draining EXCEPT ![s] = <<>>]
    BY <1>4 DEF DeliverFails, FileFails
  <2>2. ToSet(<<>>) = ToSet(draining[s]) \ ToSet(draining[s])
    BY EmptyList
  <2>. QED BY <1>1, <2>1, <2>2, EmptyList, BatchShrinks
<1>5. CASE \E r \in BOOLEAN : Deliver(s, r)
  <2>. DEFINE x == Head(draining[s])
              w == Append(written, x)
              b == Tail(draining[s])
  <2>1. /\ draining[s] # <<>> /\ UNCHANGED <<logged, buffer, lost>> /\ written' = w
        /\ draining' = [draining EXCEPT ![s] = b]
    BY <1>1, <1>5 DEF Deliver, FileWrites
  <2>2. /\ b \in Seq(Nat) /\ Distinct(b) /\ ToSet(b) = ToSet(draining[s]) \ {x}
        /\ x \in ToSet(draining[s]) /\ x \in Nat
    BY <1>1, <2>1, DistinctTail
  <2>. HIDE DEF x, b
  <2>3. w \in Seq(Nat) /\ Distinct(w) /\ ToSet(w) = ToSet(written) \cup {x}
    BY <1>1, <2>2, DistinctAppend
  <2>. HIDE DEF w
  <2>4. {x} \subseteq ToSet(draining[s])
    BY <2>2
  <2>. QED BY <2>1, <2>2, <2>3, <2>4, BatchShrinks
<1>. QED BY <1>2, <1>3, <1>4, <1>5

LEMMA EntryStep == EntryInv /\ [WriteNext \/ SweepNext]_logVars => EntryInv'
<1>. SUFFICES ASSUME EntryInv, [WriteNext \/ SweepNext]_logVars PROVE EntryInv'
  OBVIOUS
<1>1. CASE \E s \in Sources : Process(s) \/ Flush(s) \/ DeliverFails(s) \/ \E r \in BOOLEAN : Deliver(s, r)
  BY <1>1, SourceKeepsLog
<1>2. CASE CloseWriter \/ SweepNext \/ UNCHANGED logVars
  <2>1. UNCHANGED <<logged, buffer, draining, written, lost>>
    BY <1>2 DEF CloseWriter, SweepNext, SweepBegins, SweepFile, logVars
  <2>2. /\ ToSet(buffer)' = ToSet(buffer) /\ ToSet(written)' = ToSet(written)
        /\ Distinct(buffer)' = Distinct(buffer) /\ Distinct(written)' = Distinct(written)
        /\ \A s \in Sources : /\ ToSet(draining[s])' = ToSet(draining[s])
                               /\ Distinct(draining[s])' = Distinct(draining[s])
    BY <2>1 DEF Distinct, ToSet
  <2>3. UNION {ToSet(draining[s]) : s \in Sources}' = UNION {ToSet(draining[s]) : s \in Sources}
    BY <2>1 DEF ToSet
  <2>4. /\ (logged \in Nat /\ buffer \in Seq(Nat) /\ draining \in [Sources -> Seq(Nat)] /\ written \in Seq(Nat))'
        /\ (1..logged)' = 1..logged
    BY <2>1 DEF EntryInv
  <2>. QED BY <2>1, <2>2, <2>3, <2>4 DEF EntryInv
<1>. QED BY <1>1, <1>2 DEF WriteNext

LEMMA DisjointSum ==
  ASSUME NEW S, NEW T, IsFiniteSet(S), IsFiniteSet(T), S \cap T = {}
  PROVE  Cardinality(S \cup T) = Cardinality(S) + Cardinality(T)
<1>1. Cardinality(S) \in Nat /\ Cardinality(T) \in Nat
  BY FS_CardinalityType
<1>2. Cardinality({}) = 0
  BY FS_EmptySet
<1>3. Cardinality(S \cup T) = Cardinality(S) + Cardinality(T) - Cardinality(S \cap T)
  BY FS_Union
<1>4. Cardinality(S \cap T) = 0
  BY <1>2
<1>. QED BY <1>1, <1>3, <1>4

LEMMA EntryInvAccounts == EntryInv => EntriesAccounted
<1>. SUFFICES ASSUME EntryInv PROVE EntriesAccounted
  OBVIOUS
<1>. DEFINE W == ToSet(written)
            R == ToSet(buffer) \cup UNION {ToSet(draining[s]) : s \in Sources}
<1>1. W \cup R \cup lost = 1..logged /\ W \cap R = {} /\ (W \cup R) \cap lost = {} /\ logged \in Nat
  BY DEF EntryInv
<1>. HIDE DEF W, R
<1>2. IsFiniteSet(1..logged) /\ Cardinality(1..logged) = logged
  BY <1>1, FS_Interval
<1>3. IsFiniteSet(W) /\ IsFiniteSet(R) /\ IsFiniteSet(lost) /\ IsFiniteSet(W \cup R)
  BY <1>1, <1>2, FS_Subset
<1>4. Cardinality(W \cup R) = Cardinality(W) + Cardinality(R)
  BY <1>1, <1>3, DisjointSum
<1>5. Cardinality((W \cup R) \cup lost) = Cardinality(W \cup R) + Cardinality(lost)
  BY <1>1, <1>3, DisjointSum
<1>6. Cardinality(W) + Cardinality(R) + Cardinality(lost) = logged
  BY <1>1, <1>2, <1>4, <1>5
<1>7. Distinct(written)
  BY DEF EntryInv
<1>. QED BY <1>1, <1>6, <1>7 DEF EntriesAccounted, W, R, Distinct

(***************************************************************************)
(* For any sources, buffer, batches and failing deliveries: every entry    *)
(* that was logged is waiting in one place, was written once, or was part  *)
(* of a batch that was given up.                                           *)
(***************************************************************************)
THEOREM EntriesStayAccounted == LogSpec => []EntriesAccounted
<1>1. LogInit => EntryInv
  BY EntryFirst
<1>2. EntryInv /\ [WriteNext \/ SweepNext]_logVars => EntryInv'
  BY EntryStep
<1>3. EntryInv => EntriesAccounted
  BY EntryInvAccounts
<1>. QED BY <1>1, <1>2, <1>3, PTL DEF LogSpec
=============================================================================
