--------------------------- MODULE SecretRotation ---------------------------
(***************************************************************************)
(* The rotation manager of the vault. A rotation reads the secret, keeps   *)
(* the value it read for the grace period, waits for the generator, writes *)
(* the new version to the store and announces it; the background check     *)
(* rotates what is older than its policy allows and purges the archive.    *)
(* A version number stands for the value it was given.                     *)
(***************************************************************************)
EXTENDS Integers, Sequences, FiniteSets

CONSTANTS
  RotSecrets,    \* names of secrets
  RotCallers,    \* callers of rotate_secret
  Checkers,      \* background loops running check_and_rotate
  AutoRotated,   \* the names whose policy says auto_rotate
  MaxVersion     \* bound on the versions of one secret

ASSUME RotationAssumption == AutoRotated \subseteq RotSecrets /\ MaxVersion \in Nat

VARIABLES
  current,      \* per secret, the version the store holds; 0: it does not exist
  aged,         \* secrets older than the max_age of their policy
  registered,   \* secrets with a policy and a generator
  rot,          \* per caller and loop, the rotation it is in
  todo,         \* per loop, the names it still has to check
  archive,      \* <<secret, version>> pairs kept for the grace period
  announced     \* events sent: <<secret, version>>

rotationVars == <<current, aged, registered, rot, todo, archive, announced>>

Rotators == RotCallers \cup Checkers
Resting == [step |-> "rest", name |-> "none", read |-> 0]

RotationInit ==
  /\ current \in [RotSecrets -> {0, 1}]
  /\ aged = {}
  /\ registered = {}
  /\ rot = [c \in Rotators |-> Resting]
  /\ todo = [c \in Checkers |-> {}]
  /\ archive = {} /\ announced = <<>>

RegisterSecret(n) ==
  /\ registered' = registered \cup {n}
  /\ UNCHANGED <<current, aged, rot, todo, archive, announced>>

UnregisterSecret(n) ==
  /\ registered' = registered \ {n}
  /\ UNCHANGED <<current, aged, rot, todo, archive, announced>>

Ages(n) ==
  /\ current[n] > 0 /\ aged' = aged \cup {n}
  /\ UNCHANGED <<current, registered, rot, todo, archive, announced>>

-----------------------------------------------------------------------------
(* One rotation *)

\* Without a generator, and for a secret the store does not return, the call
\* fails before it has changed anything.
Rotates(c, n) ==
  rot' = [rot EXCEPT ![c] = IF n \in registered THEN [step |-> "read", name |-> n, read |-> 0]
                            ELSE Resting]

RotateBegins(c, n) ==
  /\ rot[c] = Resting
  /\ Rotates(c, n)
  /\ UNCHANGED <<current, aged, registered, todo, archive, announced>>

ReadCurrent(c) ==
  /\ rot[c].step = "read"
  /\ rot' = [rot EXCEPT ![c] = IF current[rot[c].name] = 0 THEN Resting
                               ELSE [rot[c] EXCEPT !.step = "archive", !.read = current[rot[c].name]]]
  /\ UNCHANGED <<current, aged, registered, todo, archive, announced>>

ArchiveOld(c) ==
  /\ rot[c].step = "archive"
  /\ archive' = archive \cup {<<rot[c].name, rot[c].read>>}
  /\ rot' = [rot EXCEPT ![c].step = "generate"]
  /\ UNCHANGED <<current, aged, registered, todo, announced>>

\* Mutant: the event goes out when the value is generated, before it is current.
Generated_Announces(c, n) ==
  /\ rot' = [rot EXCEPT ![c].step = "store"]
  /\ announced' = Append(announced, <<n, current[n] + 1>>)

Generated(c, n) ==
  /\ rot' = [rot EXCEPT ![c].step = "store"]
  /\ UNCHANGED announced

Generate(c) ==
  /\ rot[c].step = "generate"
  /\ Generated(c, rot[c].name)
  /\ UNCHANGED <<current, aged, registered, todo, archive>>

StoreRotates(c) ==
  LET n == rot[c].name IN
  /\ rot[c].step = "store" /\ current[n] < MaxVersion
  /\ current' = [current EXCEPT ![n] = @ + 1]
  /\ aged' = aged \ {n}
  /\ rot' = [rot EXCEPT ![c] = [rot[c] EXCEPT !.step = "announce", !.read = current'[n]]]
  /\ UNCHANGED <<registered, todo, archive, announced>>

Announce(c) ==
  /\ rot[c].step = "announce"
  /\ announced' = Append(announced, <<rot[c].name, rot[c].read>>)
  /\ rot' = [rot EXCEPT ![c] = Resting]
  /\ UNCHANGED <<current, aged, registered, todo, archive>>

\* The generator or the store fails: the archived value stays archived.
RotationFails(c) ==
  /\ rot[c].step \in {"generate", "store"}
  /\ rot' = [rot EXCEPT ![c] = Resting]
  /\ UNCHANGED <<current, aged, registered, todo, archive, announced>>

-----------------------------------------------------------------------------
(* The background check *)

\* The interval ticks: the policies are copied.
CheckBegins(c) ==
  /\ todo[c] = {} /\ rot[c] = Resting
  /\ todo' = [todo EXCEPT ![c] = registered \cap AutoRotated]
  /\ UNCHANGED <<current, aged, registered, rot, archive, announced>>

\* An error of the store counts as not rotated.
CheckSecret(c, n) ==
  /\ n \in todo[c] /\ rot[c] = Resting
  /\ todo' = [todo EXCEPT ![c] = @ \ {n}]
  /\ IF current[n] > 0 /\ n \in aged THEN Rotates(c, n) ELSE UNCHANGED rot
  /\ UNCHANGED <<current, aged, registered, archive, announced>>

\* The grace period of these entries is over; the check ends with the purge.
\* A grace period lasts longer than the rotation it is counted from.
PurgeExpired(c, expired) ==
  /\ todo[c] = {} /\ rot[c] = Resting
  /\ archive' = archive \ expired
  /\ UNCHANGED <<current, aged, registered, rot, todo, announced>>

-----------------------------------------------------------------------------
RotationNext ==
  \/ \E n \in RotSecrets : RegisterSecret(n) \/ UnregisterSecret(n) \/ Ages(n)
  \/ \E c \in RotCallers : \E n \in RotSecrets : RotateBegins(c, n)
  \/ \E c \in Rotators :
       \/ ReadCurrent(c) \/ ArchiveOld(c) \/ Generate(c) \/ StoreRotates(c)
       \/ Announce(c) \/ RotationFails(c)
  \/ \E c \in Checkers :
       \/ CheckBegins(c)
       \/ \E n \in RotSecrets : CheckSecret(c, n)
       \/ \E expired \in SUBSET {e \in archive :
                              \A d \in Rotators : e # <<rot[d].name, rot[d].read>>} :
            PurgeExpired(c, expired)

RotationSpec == RotationInit /\ [][RotationNext]_rotationVars

-----------------------------------------------------------------------------
(***************************************************************************)
(* Every version a listener is told of is in the store, or has been, and   *)
(* is announced once; once no rotation is under way every version made by  *)
(* a rotation has been announced, however manual and automatic rotations   *)
(* interleave and whichever of them fail.                                  *)
(***************************************************************************)
AnnouncedWereStored ==
  LET told == {announced[i] : i \in DOMAIN announced} IN
  /\ \A i, j \in DOMAIN announced : announced[i] = announced[j] => i = j
  /\ \A e \in told : e[2] \in 2..current[e[1]]
  /\ (\A c \in Rotators : rot[c].step # "announce") =>
       \A n \in RotSecrets : \A v \in 2..current[n] : <<n, v>> \in told

=============================================================================
