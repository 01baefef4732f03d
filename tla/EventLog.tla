------------------------------- MODULE EventLog -------------------------------
(***************************************************************************)
(* The event history of one operation (service/src/event_log.rs): its      *)
(* observers append state changes ("normative") and command output         *)
(* ("technical") to events.jsonl, compact it at its size limit and leave   *)
(* events.error when an append fails; Status requests read it back         *)
(* (service/src/main.rs) and the window keeps what it has seen, with a     *)
(* cursor (ui/app.js).                                                     *)
(*                                                                         *)
(* Every Start restores a log of its own from disk, before its thread      *)
(* competes for the transaction lock, so several logs of one operation may *)
(* be alive and out of date.  A Status is answered by the query broker,    *)
(* which has no log in memory, or by the instance that runs the thread.    *)
(*                                                                         *)
(* A record, the truncation marker included, is one unit of MaxUnits.      *)
(***************************************************************************)
EXTENDS Integers, Sequences, FiniteSets, FiniteSetsExt

CONSTANTS
    Writers,      \* observers: one for each Start that gets as far as its thread
    Broker,       \* the query broker, as a place that answers Status
    MaxUnits,     \* MAX_PERSISTED_EVENT_BYTES, in records
    MaxLines,     \* MAX_TECHNICAL_LINES: technical records kept in memory
    MaxEvents,    \* bound: events emitted
    MaxPolls,     \* bound: Status requests
    MaxFaults     \* bound: failed writes, process deaths, power losses

ASSUME EventLogAssumption ==
    /\ Broker \notin Writers
    /\ MaxUnits \in Nat \ {0} /\ MaxLines \in Nat
    /\ MaxEvents \in Nat /\ MaxPolls \in Nat /\ MaxFaults \in Nat

VARIABLES
    file,        \* events.jsonl as processes see it
    durable,     \* events.jsonl as far as it is synced
    errorFile,   \* events.error exists
    awaiting,    \* state.json still says AwaitingConfirmation
    \* Volatile.
    lockFile,    \* .events.lock exists
    flock,       \* observer that holds it exclusively, or Broker for none
    txLock,      \* observer whose thread holds the transaction lock, or Broker for none
    writer,      \* the observers
    reader,      \* the Status request being answered
    window,      \* what the window shows
    \* History.
    accepted,    \* events that reached file
    safe,        \* events accepted when durable was last synced
    settled,     \* events whose emission has returned, accepted or not
    unmarked,    \* a write failure could not be marked on disk
    polls, faults

disk == <<file, durable, errorFile>>
locks == <<lockFile, flock, txLock>>
history == <<accepted, safe, settled, unmarked>>
vars == <<disk, awaiting, locks, writer, reader, window, history, polls, faults>>

-----------------------------------------------------------------------------
Events == [sequence: 1..MaxEvents, technical: BOOLEAN, by: Writers]
NoEvent == [sequence |-> 0, technical |-> FALSE, by |-> Broker]

\* The marker history-truncated, sequence 0; lines = 0 when there is none.
Markers == [lines: Nat, high: 0..MaxEvents]
NoMarker == [lines |-> 0, high |-> 0]

\* torn: a partial record at the end.
EmptyFile == [marker |-> NoMarker, events |-> <<>>, torn |-> FALSE]

Elements(s) == {s[i] : i \in DOMAIN s}
Units(f) == (IF f.marker.lines = 0 THEN 0 ELSE 1) + Len(f.events)

\* Sequence number of the last complete record; the marker's is 0.
LastSequence(s) == IF s = <<>> THEN 0 ELSE s[Len(s)].sequence

\* read_history: the longest prefix of complete records with growing numbers.
ReadHistory(f) ==
    LET valid == {n \in 0..Len(f.events) :
                     \A i \in 2..n : f.events[i].sequence > f.events[i-1].sequence}
        good == Max(valid)
    IN  [marker |-> f.marker, events |-> SubSeq(f.events, 1, good),
         incomplete |-> f.torn \/ good < Len(f.events)]

\* The oldest technical records, until what is left fits in half the limit.
Evicted(s) ==
    LET excess == Len(s) - MaxUnits \div 2
    IN  {i \in DOMAIN s :
            /\ s[i].technical
            /\ Cardinality({j \in 1..i : s[j].technical}) <= excess}

\* What is left of s, in its order, when the positions in gone are dropped.
Without(s, gone) ==
    LET left == DOMAIN s \ gone
    IN  [n \in 1..Cardinality(left) |->
            s[CHOOSE i \in left : Cardinality({j \in left : j <= i}) = n]]

\* Mutant: each compaction counts its own lines only.
CompactForgetting(f, e) ==
    LET all == Append(f.events, e)
        dropped == Cardinality(Evicted(all))
    IN  [marker |-> IF dropped = 0 THEN NoMarker ELSE [lines |-> dropped, high |-> e.sequence],
         events |-> Without(all, Evicted(all)), torn |-> FALSE]

\* compact: the replacement of f that also holds e.
Compact(f, e) ==
    LET all == Append(f.events, e)
        dropped == f.marker.lines + Cardinality(Evicted(all))
    IN  [marker |-> IF dropped = 0 THEN NoMarker ELSE [lines |-> dropped, high |-> e.sequence],
         events |-> Without(all, Evicted(all)), torn |-> FALSE]

\* Mutant: only the last record is compared.
AppendAllowedAfterLast(f, e) == ~f.torn /\ LastSequence(f.events) < e.sequence

\* append_event goes on: the number is beyond the marker's high-water mark
\* and the last record's, which is complete.
AppendAllowed(f, e) ==
    /\ f.marker.lines # 0 => f.marker.high < e.sequence
    /\ ~f.torn
    /\ LastSequence(f.events) < e.sequence

-----------------------------------------------------------------------------
(* The observers.                                                          *)

\* idle -> check -> spawned -> run -> done; an emission goes from run through
\* rest and sync, or failed, back to run.
WriterPcs == {"idle", "check", "spawned", "run", "rest", "sync", "failed", "done"}
WriterStates ==
    [pc: WriterPcs, event: Events \cup {NoEvent}, last: 0..MaxEvents,
     log: Seq(Events), failed: BOOLEAN]
IdleWriter ==
    [pc |-> "idle", event |-> NoEvent, last |-> 0, log |-> <<>>, failed |-> FALSE]

\* Mutant: the two numbers are added.
RestoredTotal(h) == h.marker.high + LastSequence(h.events)

\* EventLog::restore: the highest number of the records and of the marker.
RestoredSequence(h) ==
    IF h.marker.high > LastSequence(h.events) THEN h.marker.high ELSE LastSequence(h.events)

\* trim_technical: the oldest technical records leave memory.
Trimmed(s) ==
    LET excess == Cardinality({i \in DOMAIN s : s[i].technical}) - MaxLines
    IN  Without(s, {i \in DOMAIN s :
                       s[i].technical /\ Cardinality({j \in 1..i : s[j].technical}) <= excess})

Go(w, pc) == writer' = [writer EXCEPT ![w].pc = pc]

CountFault == faults < MaxFaults /\ faults' = faults + 1

\* Start finds the record in AwaitingConfirmation and no events.error.
StartChecked(w) ==
    /\ writer[w].pc = "idle"
    /\ awaiting
    /\ ~errorFile
    /\ Go(w, "check")
    /\ UNCHANGED <<disk, awaiting, locks, reader, window, history, polls, faults>>

\* It loads the history, creating the lock file, and spawns the thread with a
\* log restored from it.
Restore(w) ==
    LET h == ReadHistory(file) IN
    /\ writer[w].pc = "check"
    /\ flock = Broker
    /\ ~h.incomplete
    /\ lockFile' = TRUE
    /\ writer' = [writer EXCEPT ![w] =
          [IdleWriter EXCEPT !.pc = "spawned", !.last = RestoredSequence(h),
                             !.log = Trimmed(h.events)]]
    /\ UNCHANGED <<disk, awaiting, flock, txLock, reader, window, history, polls, faults>>

\* EVENT_LOG_READ_FAILED.
RefuseStart(w) ==
    /\ writer[w].pc = "check"
    /\ flock = Broker
    /\ ReadHistory(file).incomplete
    /\ lockFile' = TRUE
    /\ Go(w, "done")
    /\ UNCHANGED <<disk, awaiting, flock, txLock, reader, window, history, polls, faults>>

\* The thread gets the transaction lock, or ends because it is busy.
Transact(w) ==
    /\ writer[w].pc = "spawned"
    /\ \/ txLock = Broker /\ txLock' = w /\ Go(w, "run")
       \/ txLock # Broker /\ Go(w, "done") /\ UNCHANGED txLock
    /\ UNCHANGED <<disk, awaiting, lockFile, flock, reader, window, history, polls, faults>>

Finish(w) ==
    /\ writer[w].pc = "run"
    /\ txLock' = Broker
    /\ Go(w, "done")
    /\ UNCHANGED <<disk, awaiting, lockFile, flock, reader, window, history, polls, faults>>

\* Observer::state_changed and command_line number the event, under the log's
\* mutex until the emission returns.  The first event is the change to
\* Downloading, which is saved in state.json before.  Technical output enters
\* memory before it is appended.
Number(w, e, pc) ==
    /\ writer[w].pc = "run"
    /\ writer[w].last < MaxEvents /\ Cardinality(settled) < MaxEvents
    /\ e.technical => ~awaiting
    /\ awaiting' = FALSE
    /\ writer' = [writer EXCEPT ![w] =
          [writer[w] EXCEPT !.pc = pc, !.event = e, !.last = e.sequence,
                            !.log = IF e.technical THEN Trimmed(Append(@, e)) ELSE @]]

NextEvents(w) ==
    {[sequence |-> writer[w].last + 1, technical |-> t, by |-> w] : t \in BOOLEAN}

Fits == Units(file) + 1 <= MaxUnits

CanCompact(e) == ~ReadHistory(file).incomplete /\ Units(Compact(file, e)) <= MaxUnits

\* append_event takes the exclusive lock and writes half of the record.
AppendRecord(w, e) ==
    /\ Number(w, e, "rest")
    /\ flock = Broker
    /\ AppendAllowed(file, e) /\ Fits
    /\ flock' = w
    /\ lockFile' = TRUE
    /\ file' = [file EXCEPT !.torn = TRUE]
    /\ UNCHANGED <<durable, errorFile, txLock, reader, window, history, polls, faults>>

\* At the limit, a synced temporary file replaces events.jsonl.
ReplaceFile(w, e) ==
    /\ Number(w, e, "sync")
    /\ flock = Broker
    /\ AppendAllowed(file, e) /\ ~Fits /\ CanCompact(e)
    /\ flock' = w
    /\ lockFile' = TRUE
    /\ file' = Compact(file, e)
    /\ accepted' = accepted \cup {e}
    /\ UNCHANGED <<durable, errorFile, txLock, reader, window, safe, settled, unmarked, polls, faults>>

\* InvalidHistory or TooLarge.
RefuseEvent(w, e) ==
    /\ Number(w, e, "failed")
    /\ flock = Broker
    /\ ~AppendAllowed(file, e) \/ (~Fits /\ ~CanCompact(e))
    /\ lockFile' = TRUE
    /\ UNCHANGED <<disk, flock, txLock, reader, window, history, polls, faults>>

\* The record is too large, the directory or the lock cannot be used, or the
\* disk fails before anything is written.
AppendImpossible(w, e) ==
    /\ Number(w, e, "failed")
    /\ CountFault
    /\ UNCHANGED <<disk, locks, reader, window, history, polls>>

\* The other half of write_all.
WriteRest(w) ==
    /\ writer[w].pc = "rest"
    /\ file' = [file EXCEPT !.torn = FALSE, !.events = Append(@, writer[w].event)]
    /\ accepted' = accepted \cup {writer[w].event}
    /\ Go(w, "sync")
    /\ UNCHANGED <<durable, errorFile, awaiting, locks, reader, window, safe, settled,
                   unmarked, polls, faults>>

\* The emission returns; a state change enters memory now.
Return(w, failed) ==
    LET e == writer[w].event IN
    /\ writer' = [writer EXCEPT ![w] =
          [writer[w] EXCEPT !.pc = "run", !.event = NoEvent, !.failed = failed,
                            !.log = IF e.technical THEN @ ELSE Append(@, e)]]
    /\ settled' = settled \cup {e}

\* The record, or the directory after a replacement, is synced.
Sync(w) ==
    /\ writer[w].pc = "sync"
    /\ durable' = file
    /\ safe' = accepted
    /\ flock' = Broker
    /\ Return(w, writer[w].failed)
    /\ UNCHANGED <<file, errorFile, awaiting, lockFile, txLock, reader, window,
                   accepted, unmarked, polls, faults>>

\* The disk fails: half or all of the record is in the file, which may not be
\* synced.  The lock is dropped when append_event returns.
WriteFails(w) ==
    /\ writer[w].pc \in {"rest", "sync"}
    /\ CountFault
    /\ flock' = Broker
    /\ Go(w, "failed")
    /\ UNCHANGED <<disk, awaiting, lockFile, txLock, reader, window, history, polls>>

\* Mutant: events.error is never written.
NeverMark(w) == UNCHANGED <<errorFile, unmarked, faults>>

\* record_write_failure is tried at the first failure of this log only, and
\* may fail itself.
MarkFailure(w) ==
    IF writer[w].failed
    THEN UNCHANGED <<errorFile, unmarked, faults>>
    ELSE \/ errorFile' = TRUE /\ UNCHANGED <<unmarked, faults>>
         \/ CountFault /\ unmarked' = TRUE /\ UNCHANGED errorFile

\* Observer: the failure does not stop the transaction.
AppendFailed(w) ==
    /\ writer[w].pc = "failed"
    /\ MarkFailure(w)
    /\ Return(w, TRUE)
    /\ UNCHANGED <<file, durable, awaiting, locks, reader, window, accepted, safe, polls>>

-----------------------------------------------------------------------------
(* A Status request and the window that sent it.                           *)

\* A locked read excludes every writer, so it is one step; a request that
\* found no lock file reads later, whatever is going on.
ReaderStates ==
    [pc: {"idle", "unlocked", "read"}, locked: BOOLEAN, events: SUBSET Events,
     truncated: BOOLEAN, incomplete: BOOLEAN, settled: SUBSET Events]
IdleReader ==
    [pc |-> "idle", locked |-> FALSE, events |-> {}, truncated |-> FALSE,
     incomplete |-> FALSE, settled |-> {}]

\* cursor: lastSequence.  truncated and error: the two notices of sequence 0.
EmptyWindow == [cursor |-> 0, seen |-> {}, truncated |-> FALSE, error |-> FALSE]

CountPoll == reader.pc = "idle" /\ polls < MaxPolls /\ polls' = polls + 1

\* load_events_read_only: the marker, and the events after the cursor.
LoadEvents(locked) ==
    LET h == ReadHistory(file) IN
    reader' = [pc |-> "read", locked |-> locked, truncated |-> h.marker.lines # 0,
               incomplete |-> h.incomplete,
               events |-> {e \in Elements(h.events) : e.sequence > window.cursor},
               settled |-> settled]

PollWithoutLock ==
    /\ CountPoll
    /\ ~lockFile
    /\ reader' = [IdleReader EXCEPT !.pc = "unlocked"]
    /\ UNCHANGED <<disk, awaiting, locks, writer, window, history, faults>>

ReadWithoutLock ==
    /\ reader.pc = "unlocked"
    /\ LoadEvents(FALSE)
    /\ UNCHANGED <<disk, awaiting, locks, writer, window, history, polls, faults>>

\* Mutant: the lock file is opened and not locked.
PollAnyway ==
    /\ CountPoll
    /\ lockFile
    /\ LoadEvents(TRUE)
    /\ UNCHANGED <<disk, awaiting, locks, writer, window, history, faults>>

PollLocked ==
    /\ CountPoll
    /\ lockFile /\ flock = Broker
    /\ LoadEvents(TRUE)
    /\ UNCHANGED <<disk, awaiting, locks, writer, window, history, faults>>

\* An incomplete history, events.error or the instance's own failure.
HistoryError(via) ==
    \/ reader.incomplete
    \/ errorFile
    \/ via \in Writers /\ writer[via].failed

\* With an error, what the instance has in memory is added; of two events of
\* one number the one on disk stays.
Answer(via) ==
    LET memory == IF via \in Writers /\ HistoryError(via) THEN Elements(writer[via].log) ELSE {}
    IN  reader.events \cup
            {e \in memory : /\ e.sequence > window.cursor
                            /\ \A d \in reader.events : d.sequence # e.sequence}

\* status answers from the broker, or from an instance under the mutex of its
\* log; addEvents keeps the first event of each number, replaces the notices
\* and moves the cursor.
PollReport(via) ==
    LET news == {e \in Answer(via) : \A s \in window.seen : s.sequence # e.sequence} IN
    /\ reader.pc = "read"
    /\ via \in Writers => writer[via].pc \in {"spawned", "run", "done"}
    /\ window' = [cursor |-> Max({window.cursor} \cup {e.sequence : e \in news}),
                  seen |-> window.seen \cup news,
                  truncated |-> window.truncated \/ reader.truncated,
                  error |-> window.error \/ HistoryError(via)]
    /\ reader' = IdleReader
    /\ UNCHANGED <<disk, awaiting, locks, writer, history, polls, faults>>

-----------------------------------------------------------------------------
(* Failures.                                                               *)

\* The process that runs an observer dies, and its log with it.
WriterDies(w) ==
    /\ writer[w].pc \notin {"idle", "done"}
    /\ CountFault
    /\ flock' = IF flock = w THEN Broker ELSE flock
    /\ txLock' = IF txLock = w THEN Broker ELSE txLock
    /\ writer' = [writer EXCEPT ![w] = [IdleWriter EXCEPT !.pc = "done"]]
    /\ UNCHANGED <<disk, awaiting, lockFile, reader, window, history, polls>>

\* What a power loss may leave: appended records survive in order, the next
\* one perhaps torn; a replacement is there or is not.
Survivors ==
    {durable, file} \cup
        (IF file.marker = durable.marker
         THEN [marker: {file.marker}, torn: BOOLEAN,
               events: {SubSeq(file.events, 1, n) :
                           n \in Len(durable.events)..(Len(file.events) - 1)}]
         ELSE {})

PowerLoss ==
    /\ \E w \in Writers : writer[w].pc # "idle"
    /\ CountFault
    /\ file' \in Survivors
    /\ durable' = file'
    /\ accepted' = IF file' = file THEN accepted ELSE safe \cup Elements(file'.events)
    /\ safe' = accepted'
    /\ writer' = [w \in Writers |->
          IF writer[w].pc = "idle" THEN IdleWriter ELSE [IdleWriter EXCEPT !.pc = "done"]]
    /\ txLock' = Broker
    /\ flock' = Broker
    /\ reader' = IdleReader
    /\ window' = EmptyWindow
    /\ UNCHANGED <<errorFile, awaiting, lockFile, settled, unmarked, polls>>

-----------------------------------------------------------------------------
Init ==
    /\ file = EmptyFile /\ durable = EmptyFile /\ errorFile = FALSE /\ awaiting = TRUE
    /\ lockFile = FALSE /\ flock = Broker /\ txLock = Broker
    /\ writer = [w \in Writers |-> IdleWriter]
    /\ reader = IdleReader /\ window = EmptyWindow
    /\ accepted = {} /\ safe = {} /\ settled = {} /\ unmarked = FALSE
    /\ polls = 0 /\ faults = 0

Next ==
    \/ \E w \in Writers :
          \/ StartChecked(w) \/ Restore(w) \/ RefuseStart(w) \/ Transact(w) \/ Finish(w)
          \/ \E e \in NextEvents(w) :
                AppendRecord(w, e) \/ ReplaceFile(w, e) \/ RefuseEvent(w, e) \/ AppendImpossible(w, e)
          \/ WriteRest(w) \/ Sync(w) \/ WriteFails(w) \/ AppendFailed(w)
          \/ WriterDies(w)
    \/ PollWithoutLock \/ ReadWithoutLock \/ PollLocked
    \/ \E via \in Writers \cup {Broker} : PollReport(via)
    \/ PowerLoss

Spec == Init /\ [][Next]_vars

-----------------------------------------------------------------------------
Files == [marker: Markers, events: Seq(Events), torn: BOOLEAN]

\* The shape of the state.
TypeOK ==
    /\ file \in Files /\ durable \in Files
    /\ errorFile \in BOOLEAN /\ awaiting \in BOOLEAN /\ lockFile \in BOOLEAN
    /\ flock \in Writers \cup {Broker} /\ txLock \in Writers \cup {Broker}
    /\ writer \in [Writers -> WriterStates]
    /\ reader \in ReaderStates
    /\ window \in [cursor: 0..MaxEvents, seen: SUBSET Events, truncated: BOOLEAN,
                   error: BOOLEAN]
    /\ accepted \subseteq Events /\ safe \subseteq accepted /\ settled \subseteq Events
    /\ unmarked \in BOOLEAN /\ polls \in 0..MaxPolls /\ faults \in 0..MaxFaults

\* Compaction, crashes and competing observers lose no state change that was
\* accepted, and the marker's accumulated count is exactly the number of
\* technical records that are gone.
HistoryAccounts ==
    LET gone == accepted \ Elements(file.events) IN
    /\ \A e \in gone : e.technical
    /\ file.marker.lines = Cardinality(gone)

\* No two events of an operation ever get the same number in its history,
\* although observers number them from logs restored at different times and
\* compaction may have discarded the highest one.
NoSequenceReuse ==
    \A a, b \in accepted : a.sequence = b.sequence => a = b

\* A reader that shares the lock finds a history incomplete only if it stays
\* so: an append or a replacement in progress is never mistaken for damage.
NoFalseAlarm == reader.locked /\ reader.incomplete => file.torn

\* When the window's cursor passes an event whose emission had returned, the
\* window shows the event, or the truncation that removed it, or that the
\* history has an error; except that a write failure that could not be marked
\* on disk is forgotten with the process.
NoSilentGap ==
    [][(\E via \in Writers \cup {Broker} : PollReport(via)) =>
          \A e \in reader.settled :
              e.sequence <= window'.cursor =>
                  \/ e \in window'.seen
                  \/ e \in accepted /\ e.technical /\ window'.truncated
                  \/ window'.error
                  \/ unmarked]_vars
=============================================================================
