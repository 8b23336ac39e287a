---------------------------- MODULE VaultAccess -----------------------------
(***************************************************************************)
(* How agents reach secrets (crates/daf-vault): the in-memory store with   *)
(* its audit log (store.rs, InMemoryVaultStore; audit.rs), the providers   *)
(* of provider.rs, tried one after the other by ChainProvider, and         *)
(* resolve_template, which resolves the references of a template in turn.  *)
(*                                                                         *)
(* A store operation holds the operations mutex and no await: it is one    *)
(* step.  A resolution awaits every provider, so that secrets are stored,  *)
(* rotated, deleted and sealed between any two of its lookups.  A value is *)
(* known by the secret and the version it belongs to, and by whether it is *)
(* valid UTF-8.                                                            *)
(***************************************************************************)
EXTENDS Naturals, Sequences, FiniteSets

CONSTANTS
  AccessNames,     \* the names secrets are asked for
  EnvNames,        \* the names the environment has a variable for
  ProviderChain,   \* the providers of the chain, in order: "vault" or "env"
  Templates,       \* sequences of references: names, or Unclosed
  Unclosed,        \* a reference without its closing brace
  NoSecret,
  MaxSecretIds,    \* secrets created (a bound)
  MaxVersions,     \* versions of one secret (a bound)
  MaxAudit         \* entries of the audit log (a bound)

ASSUME AccessAssumption ==
  /\ EnvNames \subseteq AccessNames
  /\ ProviderChain \in Seq({"vault", "env"})
  /\ Unclosed \notin AccessNames
  /\ Templates \subseteq Seq(AccessNames \cup {Unclosed})
  /\ MaxSecretIds \in Nat /\ MaxVersions \in Nat \ {0} /\ MaxAudit \in Nat

VARIABLES
  kept,        \* the secrets of the store, by name
  dataKeys,    \* the wrapped data keys of its key ring
  isUnsealed,  \* whether the key ring has its master key
  madeIds,     \* secrets created so far
  audit,       \* the audit log
  resolving,   \* the template under resolution
  resolved     \* what the last resolution returned

accessVars == <<kept, dataKeys, isUnsealed, madeIds, audit, resolving, resolved>>

SecretIds == 1..MaxSecretIds
DataKeys == SecretIds \X (1..MaxVersions)
Secret == [id : SecretIds, version : 1..MaxVersions, text : BOOLEAN, key : DataKeys]

\* A reference: identity without the value.
SecretRef == [name : AccessNames, id : SecretIds, version : 1..MaxVersions]
RefOf(n, s) == [name |-> n, id |-> s.id, version |-> s.version]

ASSUME NoSecretAssumption == NoSecret \notin Secret \cup SecretRef

AuditAction == {"read", "write", "delete", "rotate", "list"}
AuditEntry == [action : AuditAction, ref : SecretRef \cup {NoSecret}]

Piece == [name : AccessNames, from : {"vault", "env"}, ref : SecretRef \cup {NoSecret}]
NoResolving == [template |-> <<>>, tried |-> 0, out |-> <<>>]
NoResult == [ok |-> FALSE, out |-> <<>>]

AccessTypeOK ==
  /\ kept \in [AccessNames -> Secret \cup {NoSecret}]
  /\ dataKeys \subseteq DataKeys
  /\ isUnsealed \in BOOLEAN
  /\ madeIds \in 0..MaxSecretIds
  /\ audit \in Seq(AuditEntry)
  /\ resolving.out \in Seq(Piece)
  /\ resolved.out \in Seq(Piece)

\* InMemoryVaultStore::new: initialized and unsealed.
AccessInit ==
  /\ kept = [n \in AccessNames |-> NoSecret]
  /\ dataKeys = {}
  /\ isUnsealed = TRUE
  /\ madeIds = 0
  /\ audit = <<>>
  /\ resolving = NoResolving
  /\ resolved = NoResult

\* AuditLog::record appends; nothing ever removes.
Audited(action, ref) ==
  /\ Len(audit) < MaxAudit
  /\ audit' = Append(audit, [action |-> action, ref |-> ref])

-----------------------------------------------------------------------------
(* The store *)

MemoryStore(n, text) ==
  LET made == [id |-> madeIds + 1, version |-> 1, text |-> text, key |-> <<madeIds + 1, 1>>]
  IN /\ kept[n] = NoSecret
     /\ isUnsealed
     /\ madeIds < MaxSecretIds
     /\ madeIds' = madeIds + 1
     /\ dataKeys' = dataKeys \cup {made.key}
     /\ kept' = [kept EXCEPT ![n] = made]
     /\ Audited("write", RefOf(n, made))
     /\ UNCHANGED <<isUnsealed, resolving, resolved>>

\* Works on a sealed vault as well.
MemoryDelete(n) ==
  /\ kept[n] # NoSecret
  /\ kept' = [kept EXCEPT ![n] = NoSecret]
  /\ dataKeys' = dataKeys \ {kept[n].key}
  /\ Audited("delete", RefOf(n, kept[n]))
  /\ UNCHANGED <<isUnsealed, madeIds, resolving, resolved>>

\* Mutant: the reference recorded is the one from before the rotation.
MemoryRotate_RecordsOld(n, text) ==
  LET old == kept[n]
      new == [old EXCEPT !.version = @ + 1, !.text = text, !.key = <<old.id, old.version + 1>>]
  IN /\ old # NoSecret
     /\ isUnsealed
     /\ old.version < MaxVersions
     /\ kept' = [kept EXCEPT ![n] = new]
     /\ dataKeys' = (dataKeys \ {old.key}) \cup {new.key}
     /\ Audited("rotate", RefOf(n, old))
     /\ UNCHANGED <<isUnsealed, madeIds, resolving, resolved>>

\* A fresh data key, the new value, one version up; the old key goes.
MemoryRotate(n, text) ==
  LET old == kept[n]
      new == [old EXCEPT !.version = @ + 1, !.text = text, !.key = <<old.id, old.version + 1>>]
  IN /\ old # NoSecret
     /\ isUnsealed
     /\ old.version < MaxVersions
     /\ kept' = [kept EXCEPT ![n] = new]
     /\ dataKeys' = (dataKeys \ {old.key}) \cup {new.key}
     /\ Audited("rotate", RefOf(n, new))
     /\ UNCHANGED <<isUnsealed, madeIds, resolving, resolved>>

\* Needs no master key.
MemoryList ==
  /\ Audited("list", NoSecret)
  /\ UNCHANGED <<kept, dataKeys, isUnsealed, madeIds, resolving, resolved>>

\* Neither leaves an entry in the audit log.
MemorySeal ==
  /\ isUnsealed
  /\ isUnsealed' = FALSE
  /\ UNCHANGED <<kept, dataKeys, madeIds, audit, resolving, resolved>>

MemoryUnseal ==
  /\ ~isUnsealed
  /\ isUnsealed' = TRUE
  /\ UNCHANGED <<kept, dataKeys, madeIds, audit, resolving, resolved>>

-----------------------------------------------------------------------------
(* Providers and templates *)

StartResolve(t) ==
  /\ resolving = NoResolving
  /\ resolving' = [template |-> t, tried |-> 0, out |-> <<>>]
  /\ resolved' = NoResult
  /\ UNCHANGED <<kept, dataKeys, isUnsealed, madeIds, audit>>

Resolving == resolving.template # <<>>
Wanted == Head(resolving.template)
Provider == ProviderChain[resolving.tried + 1]

ResolveFails ==
  /\ resolving' = NoResolving
  /\ resolved' = NoResult

\* The value replaces the reference, if it is valid UTF-8.
Substituted(text, piece) ==
  IF ~text
  THEN ResolveFails
  ELSE LET rest == Tail(resolving.template)
           out == Append(resolving.out, piece)
       IN IF rest = <<>>
          THEN resolving' = NoResolving /\ resolved' = [ok |-> TRUE, out |-> out]
          ELSE resolving' = [template |-> rest, tried |-> 0, out |-> out] /\ UNCHANGED resolved

\* VaultProvider: get_secret opens the secret with its data key and records
\* the read.  The chain goes on for SecretNotFound only: a sealed vault ends it.
AskVault ==
  /\ Resolving
  /\ Wanted # Unclosed
  /\ resolving.tried < Len(ProviderChain)
  /\ Provider = "vault"
  /\ LET s == kept[Wanted]
     IN IF s = NoSecret
        THEN resolving' = [resolving EXCEPT !.tried = @ + 1] /\ UNCHANGED <<audit, resolved>>
        ELSE IF isUnsealed /\ s.key \in dataKeys
             THEN /\ Audited("read", RefOf(Wanted, s))
                  /\ Substituted(s.text, [name |-> Wanted, from |-> "vault", ref |-> RefOf(Wanted, s)])
             ELSE ResolveFails /\ UNCHANGED audit
  /\ UNCHANGED <<kept, dataKeys, isUnsealed, madeIds>>

\* EnvProvider: plaintext of the environment, always a string.
AskEnv ==
  /\ Resolving
  /\ Wanted # Unclosed
  /\ resolving.tried < Len(ProviderChain)
  /\ Provider = "env"
  /\ IF Wanted \in EnvNames
     THEN Substituted(TRUE, [name |-> Wanted, from |-> "env", ref |-> NoSecret])
     ELSE resolving' = [resolving EXCEPT !.tried = @ + 1] /\ UNCHANGED resolved
  /\ UNCHANGED <<kept, dataKeys, isUnsealed, madeIds, audit>>

\* No provider has the name, or the reference has no end.
GiveUpResolve ==
  /\ Resolving
  /\ Wanted = Unclosed \/ resolving.tried = Len(ProviderChain)
  /\ ResolveFails
  /\ UNCHANGED <<kept, dataKeys, isUnsealed, madeIds, audit>>

AccessNext ==
  \/ \E n \in AccessNames, text \in BOOLEAN : MemoryStore(n, text) \/ MemoryRotate(n, text)
  \/ \E n \in AccessNames : MemoryDelete(n)
  \/ MemoryList \/ MemorySeal \/ MemoryUnseal
  \/ \E t \in Templates : StartResolve(t)
  \/ AskVault \/ AskEnv \/ GiveUpResolve

AccessSpec == AccessInit /\ [][AccessNext]_accessVars

-----------------------------------------------------------------------------
(* Properties *)

\* AuditLog::query_by_secret_name, of what changed the secret.
ChangesName(e, n) == e.ref # NoSecret /\ e.action # "read" /\ e.ref.name = n
ChangesOf(n) == {i \in DOMAIN audit : ChangesName(audit[i], n)}
LastChange(i, n) == i \in ChangesOf(n) /\ \A j \in ChangesOf(n) : j <= i

(***************************************************************************)
(* The last change recorded for a name says whether it holds a secret,     *)
(* which one and in which version.                                         *)
(***************************************************************************)
TrailTells(n) ==
  IF kept[n] = NoSecret
  THEN \A i \in ChangesOf(n) : LastChange(i, n) => audit[i].action = "delete"
  ELSE \E i \in ChangesOf(n) :
         LastChange(i, n) /\ audit[i].action # "delete" /\ audit[i].ref = RefOf(n, kept[n])

(***************************************************************************)
(* The key ring holds the data keys of exactly the secrets kept: a delete  *)
(* or a rotation takes no key another secret needs and leaves none over.   *)
(***************************************************************************)
RingHoldsKept ==
  dataKeys = {kept[n].key : n \in {m \in AccessNames : kept[m] # NoSecret}}

(***************************************************************************)
(* Every value a template took from the vault was recorded as read in that *)
(* version, with whatever rotations, deletions and seals came between.     *)
(***************************************************************************)
PiecesOut == {resolving.out[i] : i \in DOMAIN resolving.out} \cup {resolved.out[i] : i \in DOMAIN resolved.out}
ReadRecorded(p) == p.from = "vault" => \E i \in DOMAIN audit : audit[i] = [action |-> "read", ref |-> p.ref]
ReadsRecorded == \A p \in PiecesOut : ReadRecorded(p)

(***************************************************************************)
(* The audit trail tells the store, its key ring and what it gave out.     *)
(***************************************************************************)
TrailTellsStore == (\A n \in AccessNames : TrailTells(n)) /\ RingHoldsKept /\ ReadsRecorded

(***************************************************************************)
(* The audit trail, read from its start, tells what the store holds.       *)
(***************************************************************************)
AccessSound == AccessTypeOK /\ TrailTellsStore
=============================================================================
