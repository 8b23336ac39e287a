----------------------------- MODULE VaultStore -----------------------------
(***************************************************************************)
(* The encrypted secret store of daf-vault (crates/daf-vault/src/store.rs, *)
(* SledVaultStore, with keyring.rs): envelope encryption over three Sled   *)
(* trees, sealing, and a process that may crash between any two writes.    *)
(*                                                                         *)
(* A master key is the passphrase and the salt it was derived from, a      *)
(* ciphertext what it holds and the key it is under: no other key opens it.*)
(* A step is one write to a tree, one flush, or one use of the key ring.   *)
(* Operations run under the operations mutex and hold no await.            *)
(***************************************************************************)
CONSTANTS
  SecretNames,
  SecretValues,
  KeyIds,      \* data keys the generator may produce (a bound)
  Salts,       \* salts initialize may draw (a bound)
  Passphrases,
  Absent

VARIABLES
  db,        \* the database as the process sees it
  dbDisk,    \* the database a restart would recover
  ring,      \* the key ring: master, salt, seal check, wrapped keys
  vaultOp,   \* the operation under the mutex
  setup,     \* where initialize is, with the keyring lock held
  issued,    \* history: data keys and salts generated so far
  possible,  \* history: per name, the values (or absence) its operations allow
  retired    \* history: data keys whose removal was acknowledged

vaultVars == <<db, dbDisk, ring, vaultOp, setup, issued, possible, retired>>

MasterKey == [pass : Passphrases, salt : Salts]
DeriveWithSalt(p, salt) == [pass |-> p, salt |-> salt]

\* AES-GCM authenticates: only the key something was sealed with opens it.
Opens(key, under) == under # Absent /\ key = under

StoredSecret == [value : SecretValues, key : KeyIds]

\* What a missing entry reads as (None in the code) is no entry.
ASSUME AbsentAssumption ==
  Absent \notin SecretValues \cup KeyIds \cup Salts \cup MasterKey \cup StoredSecret

WrappedKeys == [KeyIds -> MasterKey \cup {Absent}]    \* the master each is wrapped with
Database == [salt : Salts \cup {Absent}, check : MasterKey \cup {Absent}, keys : WrappedKeys,
             secrets : [SecretNames -> StoredSecret \cup {Absent}]]
KeyRing == [master : MasterKey \cup {Absent}, salt : Salts \cup {Absent},
            check : MasterKey \cup {Absent}, keys : WrappedKeys]

NoOp == [kind |-> "none"]
Operation ==
  [kind : {"store"}, at : {"persist", "write", "flush"},
   name : SecretNames, value : SecretValues, key : KeyIds]
  \cup
  [kind : {"rotate"}, at : {"persist", "write", "flush", "retire", "unpersist", "last"},
   name : SecretNames, value : SecretValues, key : KeyIds, old : KeyIds]
  \cup
  [kind : {"delete"}, at : {"retire", "unpersist", "last"}, name : SecretNames, old : KeyIds]

VaultTypeOK ==
  /\ db \in Database
  /\ dbDisk \in Database
  /\ ring \in KeyRing
  /\ vaultOp \in Operation \cup {NoOp}
  /\ setup \in {"no", "salt", "check", "flush"}
  /\ issued \subseteq KeyIds \cup Salts
  /\ possible \in [SecretNames -> SUBSET (SecretValues \cup {Absent})]
  /\ retired \subseteq KeyIds

NoKeys == [k \in KeyIds |-> Absent]
EmptyDatabase == [salt |-> Absent, check |-> Absent, keys |-> NoKeys,
                  secrets |-> [n \in SecretNames |-> Absent]]

\* Both are sealed.
NewKeyRing == [master |-> Absent, salt |-> Absent, check |-> Absent, keys |-> NoKeys]
Restored(salt, check, keys) == [master |-> Absent, salt |-> salt, check |-> check, keys |-> keys]

\* SledVaultStore::open: sealed; a vault without salt and check is new.
Opened(d) ==
  IF d.salt # Absent /\ d.check # Absent
  THEN Restored(d.salt, d.check, d.keys)
  ELSE NewKeyRing

VaultInit ==
  /\ db = EmptyDatabase
  /\ dbDisk = EmptyDatabase
  /\ ring = Opened(EmptyDatabase)
  /\ vaultOp = NoOp
  /\ setup = "no"
  /\ issued = {}
  /\ possible = [n \in SecretNames |-> {Absent}]
  /\ retired = {}

-----------------------------------------------------------------------------
(* initialize, seal and unseal *)

\* First-time setup, as its documentation asks: no salt in the key ring.
Initialize(p, salt) ==
  LET m == DeriveWithSalt(p, salt) IN
  /\ setup = "no"
  /\ ring.salt = Absent
  /\ salt \notin issued
  /\ ring' = [ring EXCEPT !.master = m, !.salt = salt, !.check = m]
  /\ issued' = issued \cup {salt}
  /\ setup' = "salt"
  /\ UNCHANGED <<db, dbDisk, vaultOp, possible, retired>>

SetupStep ==
  /\ \/ /\ setup = "salt"
        /\ db' = [db EXCEPT !.salt = ring.salt]
        /\ setup' = "check"
        /\ UNCHANGED dbDisk
     \/ /\ setup = "check"
        /\ db' = [db EXCEPT !.check = ring.check]
        /\ setup' = "flush"
        /\ UNCHANGED dbDisk
     \/ /\ setup = "flush"
        /\ dbDisk' = db
        /\ setup' = "no"
        /\ UNCHANGED db
  /\ UNCHANGED <<ring, vaultOp, issued, possible, retired>>

\* A storage error: the caller of initialize gives the store up and opens
\* it again, as the command line does.
SetupFails ==
  /\ setup # "no"
  /\ setup' = "no"
  /\ ring' = Opened(db)
  /\ UNCHANGED <<db, dbDisk, vaultOp, issued, possible, retired>>

DropMaster == ring' = [ring EXCEPT !.master = Absent]

Seal ==
  /\ setup = "no"
  /\ ring.master # Absent
  /\ DropMaster
  /\ UNCHANGED <<db, dbDisk, vaultOp, setup, issued, possible, retired>>

\* The key derived with the salt must open the seal check.
UnsealedWith(m) ==
  /\ Opens(m, ring.check)
  /\ ring' = [ring EXCEPT !.master = m]

Unseal(p) ==
  /\ setup = "no"
  /\ ring.salt # Absent
  /\ UnsealedWith(DeriveWithSalt(p, ring.salt))
  /\ UNCHANGED <<db, dbDisk, vaultOp, setup, issued, possible, retired>>

-----------------------------------------------------------------------------
(* store_secret, rotate_secret, delete_secret and get_secret *)

Allow(n, v) == possible' = [possible EXCEPT ![n] = @ \cup {v}]
Settle(n, v) == possible' = [possible EXCEPT ![n] = {v}]

\* A fresh data key, wrapped with the master key, in the key ring.
GenerateDataKey(k) ==
  /\ setup = "no"
  /\ ring.master # Absent
  /\ k \notin issued
  /\ ring' = [ring EXCEPT !.keys[k] = ring.master]
  /\ issued' = issued \cup {k}

StoreSecret(n, v, k) ==
  /\ vaultOp = NoOp
  /\ db.secrets[n] = Absent
  /\ GenerateDataKey(k)
  /\ vaultOp' = [kind |-> "store", at |-> "persist", name |-> n, value |-> v, key |-> k]
  /\ Allow(n, v)
  /\ UNCHANGED <<db, dbDisk, setup, retired>>

\* Mutant: the key to retire is read after the new one is recorded.
RotateSecret_RetiresNew(n, v, k) ==
  /\ vaultOp = NoOp
  /\ db.secrets[n] # Absent
  /\ GenerateDataKey(k)
  /\ vaultOp' = [kind |-> "rotate", at |-> "persist", name |-> n, value |-> v, key |-> k, old |-> k]
  /\ Allow(n, v)
  /\ UNCHANGED <<db, dbDisk, setup, retired>>

RotateSecret(n, v, k) ==
  /\ vaultOp = NoOp
  /\ db.secrets[n] # Absent
  /\ GenerateDataKey(k)
  /\ vaultOp' = [kind |-> "rotate", at |-> "persist", name |-> n, value |-> v, key |-> k,
                 old |-> db.secrets[n].key]
  /\ Allow(n, v)
  /\ UNCHANGED <<db, dbDisk, setup, retired>>

\* Needs no master key.
DeleteSecret(n) ==
  /\ vaultOp = NoOp
  /\ db.secrets[n] # Absent
  /\ db' = [db EXCEPT !.secrets[n] = Absent]
  /\ vaultOp' = [kind |-> "delete", at |-> "retire", name |-> n, old |-> db.secrets[n].key]
  /\ Allow(n, Absent)
  /\ UNCHANGED <<dbDisk, ring, setup, issued, retired>>

At(place) == vaultOp # NoOp /\ vaultOp.at = place
Goto(place) == vaultOp' = [vaultOp EXCEPT !.at = place]

\* The wrapped key reaches the database before the secret that needs it.
PersistWrappedKey ==
  /\ At("persist")
  /\ setup = "no"
  /\ db' = [db EXCEPT !.keys[vaultOp.key] = ring.keys[vaultOp.key]]
  /\ Goto("write")
  /\ UNCHANGED <<dbDisk, ring, setup, issued, possible, retired>>

WriteSecret ==
  /\ At("write")
  /\ db' = [db EXCEPT !.secrets[vaultOp.name] = [value |-> vaultOp.value, key |-> vaultOp.key]]
  /\ Goto("flush")
  /\ UNCHANGED <<dbDisk, ring, setup, issued, possible, retired>>

\* Mutant: a stored secret is acknowledged without a flush.
FlushSecret_Unflushed ==
  /\ At("flush")
  /\ \/ vaultOp.kind = "store" /\ vaultOp' = NoOp /\ Settle(vaultOp.name, vaultOp.value)
     \/ vaultOp.kind = "rotate" /\ Goto("retire") /\ UNCHANGED possible
  /\ UNCHANGED <<db, dbDisk, ring, setup, issued, retired>>

\* store_secret returns Ok; rotate_secret goes on to retire the old key.
FlushSecret ==
  /\ At("flush")
  /\ dbDisk' = db
  /\ \/ vaultOp.kind = "store" /\ vaultOp' = NoOp /\ Settle(vaultOp.name, vaultOp.value)
     \/ vaultOp.kind = "rotate" /\ Goto("retire") /\ UNCHANGED possible
  /\ UNCHANGED <<db, ring, setup, issued, retired>>

RemoveDataKey ==
  /\ At("retire")
  /\ setup = "no"
  /\ ring' = [ring EXCEPT !.keys[vaultOp.old] = Absent]
  /\ Goto("unpersist")
  /\ UNCHANGED <<db, dbDisk, setup, issued, possible, retired>>

RemovePersistedKey ==
  /\ At("unpersist")
  /\ db' = [db EXCEPT !.keys[vaultOp.old] = Absent]
  /\ Goto("last")
  /\ UNCHANGED <<dbDisk, ring, setup, issued, possible, retired>>

\* Mutant: the removal of a key is not flushed.
FlushRemoval_Unflushed ==
  /\ At("last")
  /\ Settle(vaultOp.name, IF vaultOp.kind = "delete" THEN Absent ELSE vaultOp.value)
  /\ retired' = retired \cup {vaultOp.old}
  /\ vaultOp' = NoOp
  /\ UNCHANGED <<db, dbDisk, ring, setup, issued>>

\* rotate_secret and delete_secret return Ok.
FlushRemoval ==
  /\ At("last")
  /\ dbDisk' = db
  /\ Settle(vaultOp.name, IF vaultOp.kind = "delete" THEN Absent ELSE vaultOp.value)
  /\ retired' = retired \cup {vaultOp.old}
  /\ vaultOp' = NoOp
  /\ UNCHANGED <<db, ring, setup, issued>>

\* A write or a flush fails: the operation returns Err and undoes nothing.
OperationFails ==
  /\ vaultOp # NoOp
  /\ vaultOp.at # "retire"
  /\ vaultOp' = NoOp
  /\ UNCHANGED <<db, dbDisk, ring, setup, issued, possible, retired>>

\* KeyRing::unwrap_data_key succeeds.
Unwraps(k) == ring.master # Absent /\ Opens(ring.master, ring.keys[k])

\* What get_secret returns for a stored secret: the value, or Absent for an error.
GetSecret(n) ==
  LET s == db.secrets[n]
  IN IF Unwraps(s.key) THEN s.value ELSE Absent

-----------------------------------------------------------------------------

VaultBackgroundFlush ==
  /\ dbDisk # db
  /\ dbDisk' = db
  /\ UNCHANGED <<db, ring, vaultOp, setup, issued, possible, retired>>

ValueOf(d, n) == IF d.secrets[n] = Absent THEN Absent ELSE d.secrets[n].value

\* The process dies and the store is opened again.
VaultCrash ==
  /\ db' = dbDisk
  /\ ring' = Opened(dbDisk)
  /\ vaultOp' = NoOp
  /\ setup' = "no"
  /\ possible' = [n \in SecretNames |-> {ValueOf(dbDisk, n)}]
  /\ UNCHANGED <<dbDisk, issued, retired>>

OperationStep ==
  \/ PersistWrappedKey \/ WriteSecret \/ FlushSecret
  \/ RemoveDataKey \/ RemovePersistedKey \/ FlushRemoval \/ OperationFails

VaultNext ==
  \/ \E p \in Passphrases : Unseal(p) \/ \E salt \in Salts : Initialize(p, salt)
  \/ SetupStep \/ SetupFails \/ Seal
  \/ \E n \in SecretNames, v \in SecretValues, k \in KeyIds :
       StoreSecret(n, v, k) \/ RotateSecret(n, v, k)
  \/ \E n \in SecretNames : DeleteSecret(n)
  \/ OperationStep
  \/ VaultBackgroundFlush \/ VaultCrash

VaultSpec == VaultInit /\ [][VaultNext]_vaultVars

-----------------------------------------------------------------------------
(* Properties *)

\* Every secret of d has its data key, under the master key the passphrase opens.
Openable(d) ==
  \A n \in SecretNames : d.secrets[n] # Absent =>
    /\ d.salt # Absent
    /\ \E p \in Passphrases : Opens(DeriveWithSalt(p, d.salt), d.check)
    /\ d.keys[d.secrets[n].key] = d.check

(***************************************************************************)
(* No secret is ever stored that cannot be opened: what the process sees   *)
(* and what a crash would leave hold the data key of every secret, wrapped *)
(* with the master key that the stored salt and seal check belong to,      *)
(* wherever storing, rotating, deleting or initializing was interrupted.   *)
(***************************************************************************)
SecretsOpenable == Openable(db) /\ Openable(dbDisk)

(***************************************************************************)
(* An acknowledged store, rotation or deletion is what a restart finds and *)
(* what get_secret of an unsealed vault returns; after an error or during  *)
(* an operation only the old and the new value are possible.               *)
(***************************************************************************)
AcknowledgedServed ==
  \A n \in SecretNames :
    /\ ValueOf(db, n) \in possible[n]
    /\ ValueOf(dbDisk, n) \in possible[n]
    /\ ring.master # Absent /\ db.secrets[n] # Absent => GetSecret(n) = db.secrets[n].value

(***************************************************************************)
(* A data key whose rotation or deletion was acknowledged is gone from the *)
(* key ring and the database for good: no crash brings it back.            *)
(***************************************************************************)
RetiredKeysGone ==
  \A k \in retired : ring.keys[k] = Absent /\ db.keys[k] = Absent /\ dbDisk.keys[k] = Absent

(***************************************************************************)
(* Wherever a crash or a failed write interrupts the vault: every stored   *)
(* secret opens, acknowledged values are served, retired keys are gone.    *)
(***************************************************************************)
VaultSound == VaultTypeOK /\ SecretsOpenable /\ AcknowledgedServed /\ RetiredKeysGone
=============================================================================
