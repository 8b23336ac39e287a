--------------------------- MODULE ManifestReload ---------------------------
(***************************************************************************)
(* Manifests on disk, as daf-registry loads them: ManifestLoader and       *)
(* DirectoryLoader read and validate the files, ChangeDetector compares a  *)
(* list of files with the checksums of the last scan, and the catalog      *)
(* keeps what is known of an agent type. Files change while a scan runs.   *)
(***************************************************************************)
EXTENDS Integers, Sequences, SequencesExt, FiniteSetsExt, Maps

CONSTANTS
  ManifestFiles,   \* paths, in the order the directory loader sorts them
  TypeNames,       \* names of agent types
  MaxFileEdits         \* changes somebody makes to the files

ASSUME FilesAssumption == ManifestFiles \in Seq(ToSet(ManifestFiles))

VARIABLES
  onDisk,            \* path to content, for the files that exist
  fileEdits,           \* changes made so far
  checksums,       \* ChangeDetector.checksums
  scan,            \* detect_changes in progress
  told,            \* what a caller makes of the changes it was told of
  scanFailed,      \* whether a scan ever returned an error
  entries,         \* Catalog.entries: agent type to its entry
  templates        \* Catalog.templates

reloadVars == <<onDisk, fileEdits, checksums, scan, told, scanFailed, entries, templates>>

\* What a file says: which agent type, and whether it parses and validates.
Contents == [name : TypeNames, valid : BOOLEAN]

NoScan == [todo |-> {}, listed |-> {}, changes |-> EmptyMap, on |-> FALSE]

ReloadInit ==
  /\ onDisk = EmptyMap /\ fileEdits = 0
  /\ checksums = EmptyMap /\ scan = NoScan /\ told = EmptyMap /\ scanFailed = FALSE
  /\ entries = EmptyMap /\ templates = {}

fileVars == <<onDisk, fileEdits>>
scanVars == <<checksums, scan, told, scanFailed>>
catalogVars == <<entries, templates>>

EditFile(f, new) ==
  /\ fileEdits < MaxFileEdits
  /\ fileEdits' = fileEdits + 1 /\ onDisk' = new
  /\ UNCHANGED <<scanVars, catalogVars>>

-----------------------------------------------------------------------------
(* The change detector *)

\* collect_files: what is there now; files are taken in their sorted order.
CollectFiles == {f \in ToSet(ManifestFiles) : f \in DOMAIN onDisk}

PlacesOf(files) == {i \in DOMAIN ManifestFiles : ManifestFiles[i] \in files}
FirstFile(files) == ManifestFiles[Min(PlacesOf(files))]
LastFile(files) == ManifestFiles[Max(PlacesOf(files))]

ScanBegins ==
  /\ ~scan.on
  /\ scan' = [todo |-> CollectFiles, listed |-> CollectFiles, changes |-> EmptyMap, on |-> TRUE]
  /\ UNCHANGED <<fileVars, catalogVars, checksums, told, scanFailed>>

\* A checksum is replaced at once, the caller is told at the end.
ScanFile ==
  LET f == FirstFile(scan.todo) IN
  /\ scan.on /\ scan.todo # {} /\ f \in DOMAIN onDisk
  /\ IF f \in DOMAIN checksums /\ checksums[f] = onDisk[f]
     THEN scan' = [scan EXCEPT !.todo = @ \ {f}] /\ UNCHANGED checksums
     ELSE /\ checksums' = Put(checksums, f, onDisk[f])
          /\ scan' = [scan EXCEPT !.todo = @ \ {f}, !.changes = Put(@, f, onDisk[f])]
  /\ UNCHANGED <<fileVars, catalogVars, told, scanFailed>>

\* A listed file is gone: the error drops the changes found so far.
ScanFails ==
  /\ scan.on /\ scan.todo # {} /\ FirstFile(scan.todo) \notin DOMAIN onDisk
  /\ scan' = NoScan /\ scanFailed' = TRUE
  /\ UNCHANGED <<fileVars, catalogVars, checksums, told>>

\* Mutant: a removed file is reported and its checksum kept.
Without_Kept(map, files) == map

Without(map, files) == [f \in DOMAIN map \ files |-> map[f]]

Folded(map, changes) ==
  [f \in DOMAIN map \cup DOMAIN changes |-> IF f \in DOMAIN changes THEN changes[f] ELSE map[f]]

ScanEnds ==
  LET removed == DOMAIN checksums \ scan.listed IN
  /\ scan.on /\ scan.todo = {}
  /\ checksums' = Without(checksums, removed)
  /\ told' = [f \in (DOMAIN told \cup DOMAIN scan.changes) \ removed |-> Folded(told, scan.changes)[f]]
  /\ scan' = NoScan
  /\ UNCHANGED <<fileVars, catalogVars, scanFailed>>

-----------------------------------------------------------------------------
(* The loaders and the catalog *)

\* load_file: read, parse, validate, convert.
Loadable(f) == onDisk[f].valid

\* An entry of the catalog: its manifest, and whether it has statistics.
NewEntry(f) == [manifest |-> onDisk[f], stats |-> FALSE]

Named(files, n) == {f \in files : onDisk[f].name = n}

\* upsert replaces the entry of that name, its statistics included: of several
\* files the last one stays.
Upserted(known, files) ==
  [n \in DOMAIN known \cup {onDisk[f].name : f \in files} |->
     IF Named(files, n) # {} THEN NewEntry(LastFile(Named(files, n))) ELSE known[n]]

\* ManifestLoader: one bad file fails the load.
LoadStrict ==
  /\ \A f \in CollectFiles : Loadable(f)
  /\ entries' = Upserted(entries, CollectFiles)
  /\ UNCHANGED <<fileVars, scanVars, templates>>

\* Mutant: a file that does not validate is loaded.
Valid_All(files) == files

Valid(files) == {f \in files : Loadable(f)}

\* DirectoryLoader: bad files are skipped, unless there is no other.
LoadDirectory ==
  /\ Valid(CollectFiles) = {} => CollectFiles = {}
  /\ entries' = Upserted(entries, Valid(CollectFiles))
  /\ UNCHANGED <<fileVars, scanVars, templates>>

\* The first file that loads and has the name.
ReloadType(n) ==
  LET named == {f \in Named(CollectFiles, n) : Loadable(f)} IN
  /\ named # {}
  /\ entries' = Put(entries, n, NewEntry(FirstFile(named)))
  /\ UNCHANGED <<fileVars, scanVars, templates>>

UpdateStats(n) ==
  /\ n \in DOMAIN entries
  /\ entries' = [entries EXCEPT ![n].stats = TRUE]
  /\ UNCHANGED <<fileVars, scanVars, templates>>

RemoveType(n) ==
  /\ entries' = Drop(entries, n)
  /\ UNCHANGED <<fileVars, scanVars, templates>>

AddTemplate(n) ==
  /\ templates' = templates \cup {n}
  /\ UNCHANGED <<fileVars, scanVars, entries>>

\* merge: an exported catalog comes back, over what is there.
MergeExported(n) ==
  /\ entries' = Put(entries, n, [manifest |-> [name |-> n, valid |-> TRUE], stats |-> TRUE])
  /\ UNCHANGED <<fileVars, scanVars, templates>>

-----------------------------------------------------------------------------
FileNext ==
  \E f \in ToSet(ManifestFiles) :
    \/ \E c \in Contents : EditFile(f, Put(onDisk, f, c))
    \/ f \in DOMAIN onDisk /\ EditFile(f, Drop(onDisk, f))

ScanNext == ScanBegins \/ ScanFile \/ ScanFails \/ ScanEnds

CatalogNext ==
  \/ LoadStrict \/ LoadDirectory
  \/ \E n \in TypeNames :
       ReloadType(n) \/ UpdateStats(n) \/ RemoveType(n) \/ AddTemplate(n) \/ MergeExported(n)

ReloadSpec == ReloadInit /\ [][FileNext \/ ScanNext \/ CatalogNext]_reloadVars

-----------------------------------------------------------------------------
(***************************************************************************)
(* "Return any changes since the last scan": whoever applies what the      *)
(* detector returns knows the files as they were at the last scan, however *)
(* the files changed while it ran. As long as no scan failed: a failed one *)
(* has replaced checksums of files it then does not report.                *)
(***************************************************************************)
ReportsComplete == scanFailed \/ Folded(told, scan.changes) = checksums

(***************************************************************************)
(* "The catalog remembers what types of agents exist": whichever of the    *)
(* loaders an entry came through, and however files shared its name, it is *)
(* kept under the name its manifest has, and the manifest was valid.       *)
(***************************************************************************)
CatalogSound ==
  \A n \in DOMAIN entries : entries[n].manifest.name = n /\ entries[n].manifest.valid

(***************************************************************************)
(* What a reload reports and what it catalogs are what is in the files.    *)
(***************************************************************************)
ReloadSound == ReportsComplete /\ CatalogSound
=============================================================================
