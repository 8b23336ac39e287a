---------------------------- MODULE LogPipeline ----------------------------
(***************************************************************************)
(* The logger: sources hand entries to a filter and a buffering sink in    *)
(* front of a fan-out, whose branches write to a rotating file and to a    *)
(* bounded memory; a retention manager sweeps the directory of the files.  *)
(* Entries are numbered; one takes one unit of a file. Order and age of    *)
(* files is that of their last write.                                      *)
(***************************************************************************)
EXTENDS Integers, Sequences, FiniteSets, FiniteSetsExt, SequencesExt, Maps

CONSTANTS
  Sources,        \* tasks that log, and flush
  MaxEntries,     \* bound on the entries logged
  BufferCapacity, \* capacity of the buffering sink
  FileSize,       \* max_size_bytes of the rotation policy
  MemoryCapacity, \* capacity of the memory writer
  DirLimit        \* max_size_bytes of the retention policy

ASSUME LogAssumption ==
  /\ MaxEntries \in Nat /\ BufferCapacity \in Nat \ {0} /\ FileSize \in Nat \ {0}
  /\ MemoryCapacity \in Nat \ {0} /\ DirLimit \in Nat

VARIABLES
  logged,       \* entries logged so far
  buffer,       \* the buffering sink's entries
  draining,     \* per source, the batch it took and still has to deliver
  writer,       \* the file writer: its current file, that file's size, closed
  files,        \* per file in the directory, its entries and last write
  clock,        \* number of the last write
  memory,       \* the memory writer's entries
  written,      \* history: entries the file writer acknowledged, in order
  lost,         \* history: entries of a batch that was given up
  sweeping      \* the sweep: files collected and not looked at, those done with

logVars == <<logged, buffer, draining, writer, files, clock, memory, written, lost, sweeping>>

NoSweep == [todo |-> <<>>, done |-> <<>>]

LogInit ==
  /\ logged = 0 /\ buffer = <<>>
  /\ draining = [s \in Sources |-> <<>>]
  /\ writer = [file |-> 1, size |-> 0, closed |-> FALSE]
  /\ files = EmptyMap /\ clock = 0
  /\ memory = <<>> /\ written = <<>> /\ lost = {}
  /\ sweeping = NoSweep

-----------------------------------------------------------------------------
(* The buffering sink *)

\* Mutant: the batch is copied, the buffer keeps it.
Taken_Copied == buffer

Taken == <<>>

\* An entry that passes the filter is pushed; whoever fills the buffer takes
\* the whole of it, under the lock, and delivers it outside.
Process(s) ==
  LET full == Len(buffer) + 1 >= BufferCapacity IN
  /\ draining[s] = <<>> /\ logged < MaxEntries
  /\ logged' = logged + 1
  /\ draining' = [draining EXCEPT ![s] = IF full THEN Append(buffer, logged') ELSE @]
  /\ buffer' = IF full THEN Taken ELSE Append(buffer, logged')
  /\ UNCHANGED <<writer, files, clock, memory, written, lost, sweeping>>

Flush(s) ==
  /\ draining[s] = <<>> /\ buffer # <<>>
  /\ draining' = [draining EXCEPT ![s] = buffer]
  /\ buffer' = Taken
  /\ UNCHANGED <<logged, writer, files, clock, memory, written, lost, sweeping>>

-----------------------------------------------------------------------------
(* The writers *)

\* A full file, or one that is too old, makes way for a new one before the
\* entry is written.
CurrentFile(rotates) ==
  IF rotates \/ writer.size >= FileSize THEN [writer EXCEPT !.file = @ + 1, !.size = 0] ELSE writer

\* The path is opened for every entry, and created when it is not there.
FileWrites(e, rotates) ==
  LET w == CurrentFile(rotates)
      old == IF w.file \in DOMAIN files THEN files[w.file].entries ELSE <<>>
  IN
  /\ ~writer.closed
  /\ files' = Put(files, w.file, [entries |-> Append(old, e), at |-> clock + 1])
  /\ clock' = clock + 1
  /\ writer' = [w EXCEPT !.size = @ + 1]
  /\ written' = Append(written, e)

\* A closed writer refuses; opening, writing or syncing may fail.
FileFails == UNCHANGED <<writer, files, clock, written>>

\* The oldest entry makes room.
Remembered(e) ==
  Append(IF Len(memory) >= MemoryCapacity THEN Tail(memory) ELSE memory, e)

\* The fan-out hands the entry to every branch and then returns the first
\* error, which ends the drain: the rest of the batch is dropped with it.
Deliver(s, rotates) ==
  /\ draining[s] # <<>>
  /\ FileWrites(Head(draining[s]), rotates)
  /\ memory' = Remembered(Head(draining[s]))
  /\ draining' = [draining EXCEPT ![s] = Tail(@)]
  /\ UNCHANGED <<logged, buffer, lost, sweeping>>

DeliverFails(s) ==
  /\ draining[s] # <<>>
  /\ FileFails
  /\ memory' = Remembered(Head(draining[s]))
  /\ lost' = lost \cup ToSet(draining[s])
  /\ draining' = [draining EXCEPT ![s] = <<>>]
  /\ UNCHANGED <<logged, buffer, sweeping>>

CloseWriter ==
  /\ ~writer.closed /\ writer' = [writer EXCEPT !.closed = TRUE]
  /\ UNCHANGED <<logged, buffer, draining, files, clock, memory, written, lost, sweeping>>

-----------------------------------------------------------------------------
(* Retention *)

\* Two cut-offs, of max_age and of archive_after, sort the files by age.
AgeOf(f, expired, archivable) ==
  IF files[f].at <= expired THEN "expired"
  ELSE IF files[f].at <= archivable THEN "archivable" ELSE "fresh"

OldestFirst == SetToSortSeq(DOMAIN files, LAMBDA f, g : files[f].at < files[g].at)

SweepBegins(expired, archivable) ==
  /\ sweeping.todo = <<>> /\ DOMAIN files # {}
  /\ sweeping' =
       [todo |-> [i \in 1..Cardinality(DOMAIN files) |->
                    LET f == OldestFirst[i]
                    IN [file |-> f, size |-> Len(files[f].entries), at |-> files[f].at,
                        age |-> AgeOf(f, expired, archivable)]],
        done |-> <<>>]
  /\ UNCHANGED <<logged, buffer, draining, writer, files, clock, memory, written, lost>>

SizeOf(list) == FoldLeft(LAMBDA n, x : n + x.size, 0, list)
DeletedIn(list) == SelectSeq(list, LAMBDA x : x.verdict = "deleted")

\* Mutant: what was deleted is not taken off the total.
OverLimit_Total == SizeOf(sweeping.todo) + SizeOf(sweeping.done) > DirLimit

OverLimit == SizeOf(sweeping.todo) + SizeOf(sweeping.done) - SizeOf(DeletedIn(sweeping.done)) > DirLimit

\* Deleting and archiving take the file out of the directory; either may fail.
Verdict(x) ==
  IF x.age = "expired" \/ OverLimit THEN "deleted"
  ELSE IF x.age = "archivable" THEN "archived" ELSE "kept"

SweepFile(works) ==
  LET x == Head(sweeping.todo)  verdict == Verdict(x) IN
  /\ sweeping.todo # <<>>
  /\ ~works => verdict # "kept"
  /\ sweeping' = [todo |-> Tail(sweeping.todo),
                  done |-> Append(sweeping.done, x @@ [verdict |-> IF works THEN verdict ELSE "error"])]
  /\ files' = IF works /\ verdict # "kept" THEN Drop(files, x.file) ELSE files
  /\ UNCHANGED <<logged, buffer, draining, writer, clock, memory, written, lost>>

-----------------------------------------------------------------------------
WriteNext ==
  \/ CloseWriter
  \/ \E s \in Sources :
       Process(s) \/ Flush(s) \/ DeliverFails(s) \/ \E r \in BOOLEAN : Deliver(s, r)

SweepNext ==
  \/ \E e \in 0..clock : \E a \in e..clock : SweepBegins(e, a)
  \/ \E works \in BOOLEAN : SweepFile(works)

LogSpec == LogInit /\ [][WriteNext \/ SweepNext]_logVars

-----------------------------------------------------------------------------
(***************************************************************************)
(* However sources fill and flush the buffer at once, and whichever        *)
(* deliveries fail, every entry is in one place: waiting in the buffer or  *)
(* in one batch, written to the file once, or part of a batch given up;    *)
(* none is written twice.                                                  *)
(***************************************************************************)
EntriesAccounted ==
  LET waiting == ToSet(buffer) \cup UNION {ToSet(draining[s]) : s \in Sources} IN
  /\ \A i, j \in DOMAIN written : written[i] = written[j] => i = j
  /\ ToSet(written) \cup waiting \cup lost = 1..logged
  /\ Cardinality(ToSet(written)) + Cardinality(waiting) + Cardinality(lost) = logged

(***************************************************************************)
(* A sweep that met no error leaves no more than the limit of what it      *)
(* collected and nothing expired; and nothing that is not expired is       *)
(* deleted once the files that are left fit.                               *)
(***************************************************************************)
SweepSound ==
  LET done == sweeping.done  all == sweeping.todo \o done
      left == SelectSeq(done, LAMBDA x : x.verdict # "deleted")
  IN /\ sweeping.todo = <<>> /\ (\A i \in DOMAIN done : done[i].verdict # "error") =>
          /\ SizeOf(left) <= DirLimit
          /\ \A i \in DOMAIN left : left[i].age # "expired"
     /\ \A i \in DOMAIN done : done[i].verdict = "deleted" /\ done[i].age # "expired" =>
          SizeOf(all) - SizeOf(DeletedIn(SubSeq(done, 1, i - 1))) > DirLimit

(***************************************************************************)
(* No log entry is lost unaccounted, on its way to the files or by the     *)
(* sweep that deletes them.                                                *)
(***************************************************************************)
LoggingSound == EntriesAccounted /\ SweepSound

-----------------------------------------------------------------------------
(***************************************************************************)
(* Episodes: EpisodeRecorder of daf-logger cuts the entries of a           *)
(* conversation into episodes as they arrive, segment_events of daf-memory *)
(* cuts a stream of events that is complete, and EpisodeIndex keeps what   *)
(* it made until it is removed. A text is left out, except that the title  *)
(* of an episode is its first entry's.                                     *)
(***************************************************************************)

CONSTANTS
  Speakers,        \* agents that produce entries
  MaxRecorded      \* entries of one conversation

VARIABLES
  recorded,        \* the entries the recorder was given, in order
  currentEpisode,  \* EpisodeRecorder.current_episode: none or one
  completedEpisodes,
  index            \* EpisodeIndex.episodes

episodeVars == <<recorded, currentEpisode, completedEpisodes, index>>

\* An entry: who spoke, its boundary marker, and whether the time since the
\* entry before it is below, at or above the idle threshold.
Entries == [agent : Speakers, mark : {"none", "start", "end"}, gap : {"below", "at", "above"}]

EpisodeInit == recorded = <<>> /\ currentEpisode = <<>> /\ completedEpisodes = <<>> /\ index = <<>>

-----------------------------------------------------------------------------
(* The recorder *)

NewEpisode(agents) == [participants |-> agents, events |-> <<>>, outcome |-> "in progress"]

WithEvent(ep, e) ==
  [ep EXCEPT !.participants = IF Contains(@, e.agent) THEN @ ELSE Append(@, e.agent),
             !.events = Append(@, e)]

Closed(episodes, why) == [k \in DOMAIN episodes |-> [episodes[k] EXCEPT !.outcome = why]]

\* Mutant: a start marker opens the episode and is not an event of it.
OpenedBy_Only(e) == <<NewEpisode(<<e.agent>>)>>

\* The start marker itself is retained as an event.
OpenedBy(e) == <<WithEvent(NewEpisode(<<e.agent>>), e)>>

IdleFor(e) == recorded # <<>> /\ e.gap \in {"at", "above"}

Record(e) ==
  LET cut == e.mark = "start" \/ IdleFor(e) \/ currentEpisode = <<>>
      why == IF e.mark = "none" THEN "idle" ELSE e.mark
  IN
  /\ Len(recorded) < MaxRecorded
  /\ recorded' = Append(recorded, e)
  /\ IF e.mark = "end" \/ cut
     THEN completedEpisodes' = completedEpisodes \o Closed(currentEpisode, why)
     ELSE UNCHANGED completedEpisodes
  /\ currentEpisode' = IF e.mark = "end" THEN <<>>
                       ELSE IF cut THEN OpenedBy(e)
                       ELSE <<WithEvent(currentEpisode[1], e)>>
  /\ UNCHANGED index

\* end_current_episode: also at the end of record_conversation, and by
\* into_episodes.
EndCurrentEpisode ==
  /\ currentEpisode # <<>>
  /\ completedEpisodes' = completedEpisodes \o Closed(currentEpisode, "ended")
  /\ currentEpisode' = <<>>
  /\ UNCHANGED <<recorded, index>>

-----------------------------------------------------------------------------
(* The segments of a complete stream *)

Boundaries(events) ==
  {k \in 2 .. Len(events) : events[k].gap = "above" \/ events[k].mark = "start"}

\* Mutant: the events after the last boundary are not cut off as an episode.
SplitPoints_Inner(events) == Boundaries(events)

\* Where each segment ends, exclusive.
SplitPoints(events) == Boundaries(events) \cup {Len(events) + 1}

Episode(segment) == FoldLeft(WithEvent, NewEpisode(<<>>), segment)

Segments(events) ==
  LET ends == SetToSortSeq(SplitPoints(events), <)
      begin(k) == IF k = 1 THEN 1 ELSE ends[k - 1]
  IN IF events = <<>> THEN <<>>
     ELSE [k \in DOMAIN ends |-> Episode(SubSeq(events, begin(k), ends[k] - 1))]

\* The stream becomes episodes, each one is concluded or not, and indexed.
IndexSegments(outcome) ==
  /\ index = <<>> /\ recorded # <<>>
  /\ index' = Closed(Segments(recorded), outcome)
  /\ UNCHANGED <<recorded, currentEpisode, completedEpisodes>>

RemoveEpisode(k) ==
  /\ index' = RemoveAt(index, k)
  /\ UNCHANGED <<recorded, currentEpisode, completedEpisodes>>

-----------------------------------------------------------------------------
EpisodeNext ==
  \/ \E e \in Entries : Record(e)
  \/ EndCurrentEpisode
  \/ \E outcome \in {"success", "failure", "abandoned", "in progress"} : IndexSegments(outcome)
  \/ \E k \in DOMAIN index : RemoveEpisode(k)

EpisodeSpec == EpisodeInit /\ [][EpisodeNext]_episodeVars

-----------------------------------------------------------------------------
EventsOf(episodes) == FlattenSeq([k \in DOMAIN episodes |-> episodes[k].events])

(***************************************************************************)
(* Episodes are the unit of long-term memory, so nothing may fall between  *)
(* two of them: the recorder's episodes hold every entry but the end       *)
(* markers, once and in order; none is empty, none that is complete is     *)
(* still in progress, and each names exactly the agents that spoke in it.  *)
(***************************************************************************)
EveryEntryRecorded ==
  LET episodes == completedEpisodes \o currentEpisode IN
  /\ EventsOf(episodes) = SelectSeq(recorded, LAMBDA e : e.mark # "end")
  /\ \A k \in DOMAIN episodes :
       /\ episodes[k].events # <<>>
       /\ (episodes[k].outcome = "in progress") = (k > Len(completedEpisodes))
       /\ ToSet(episodes[k].participants) = {e.agent : e \in ToSet(episodes[k].events)}
       /\ IsInjective(episodes[k].participants)

(***************************************************************************)
(* segment_events is a partition: the segments of any stream put together  *)
(* are the stream, none is empty, and only the first event of a segment    *)
(* may come after a gap or carry a boundary marker.                        *)
(***************************************************************************)
SegmentsPartition ==
  LET segments == Segments(recorded) IN
  /\ EventsOf(segments) = recorded
  /\ \A k \in DOMAIN segments :
       /\ segments[k].events # <<>>
       /\ \A i \in 2 .. Len(segments[k].events) :
            segments[k].events[i].gap # "above" /\ segments[k].events[i].mark # "start"

(***************************************************************************)
(* Neither way to cut a conversation into episodes loses, repeats or       *)
(* reorders a part of it.                                                  *)
(***************************************************************************)
EpisodesComplete == EveryEntryRecorded /\ SegmentsPartition

(***************************************************************************)
(* What was logged can be accounted for, in the files and in the episodes  *)
(* cut from it.                                                            *)
(***************************************************************************)
LogsComplete == LoggingSound /\ EpisodesComplete
=============================================================================
