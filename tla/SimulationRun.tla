---------------------------- MODULE SimulationRun ----------------------------
(***************************************************************************)
(* The behaviour simulator (internal/simulator, cmd/simulator): sessions   *)
(* of events generated step by step into an output directory, a database   *)
(* transaction or both, with a run id that may have been used before.      *)
(*                                                                         *)
(* Random choices are free; profiles, times and payloads are left out.     *)
(* The directory is None or its files, each "absent", "tmp" or "final", and *)
(* whether its command wrote to the database too (`db`, for the property). *)
(* What is left of a simulation in the database is its row: a transaction  *)
(* that does not commit leaves nothing.                                    *)
(***************************************************************************)
EXTENDS Naturals, Sequences, SequencesExt

CONSTANTS
    Sessions,     \* sessions of a run
    MaxSteps,     \* bound of a session, at least 2
    BatchSize,    \* simulatorEventBatchSize
    Project,      \* ids of the projects table
    MaxAttempts,  \* bound: runs of the command with this run id
    None

VARIABLES
    sim,        \* the process: options, place and what it has generated
    dir,        \* the output directory
    row,        \* simulation_runs: "none", or "old" from before the foreign key
    attempts

simVars == <<sim, dir, row, attempts>>

\* "acted" stands for note_liked, note_collected, note_shared and comment_created, which
\* are reached and left alike.
State == {"feed_impression", "note_viewed", "media_viewed", "comments_viewed",
          "comment_liked", "acted", "session_exited"}

Off == [pc |-> "off"]
Empty == [profiles |-> "tmp", events |-> "tmp", report |-> "absent", failure |-> FALSE,
          written |-> <<>>, reported |-> 0, db |-> FALSE]

SimInit ==
    /\ sim = Off /\ dir = None /\ row \in {"none", "old"} /\ attempts = 0

-----------------------------------------------------------------------------
(* A session.                                                              *)

\* nextState, without the weights; comment_liked needs a note with comments.
NextStates(state, hasComments) ==
    CASE state = "feed_impression" -> {"note_viewed", "session_exited"}
      [] state = "note_viewed" -> {"acted", "media_viewed", "comments_viewed", "session_exited"}
      [] state = "comments_viewed" ->
            {"acted", "session_exited"} \cup (IF hasComments THEN {"comment_liked"} ELSE {})
      [] state = "session_exited" -> {"session_exited"}
      [] OTHER -> {"acted", "comments_viewed", "session_exited"}

\* Seeded defect: the last step is not forced to be the exit.
StepsFromUnforced(state, sequence, hasComments) == NextStates(state, hasComments)

\* The state after the given one: the last step of a session is the exit.
StepsFrom(state, sequence, hasComments) ==
    IF sequence = MaxSteps - 1 THEN {"session_exited"} ELSE NextStates(state, hasComments)

\* makeEvent names no project: ProjectID keeps its zero value.
MakeEvent(session, sequence, state) ==
    [session |-> session, sequence |-> sequence, state |-> state, project |-> 0]

\* flushEvents: behavior_events_project_fk wants an existing project.
FlushEvents(batch) == \A i \in DOMAIN batch : batch[i].project \in Project

-----------------------------------------------------------------------------
(* The command.                                                            *)

\* What events a command leaves in temporary files does not matter.
Left(output) ==
    IF output = None \/ output.report = "final" THEN output ELSE [output EXCEPT !.written = <<>>, !.reported = 0]

\* MultiSink.Abort: FileSink closes its files and notes the failure; the transaction is
\* rolled back.
Abort(output) ==
    /\ sim' = Off
    /\ dir' = IF sim.files THEN [Left(output) EXCEPT !.failure = TRUE] ELSE output

\* An existing directory or run is refused without --replace; with it the directory is
\* removed at once, the run with the commit.
NewFileSinkFails(files, replace) == files /\ dir # None /\ ~replace

NewDatabaseSinkFails(db, replace) == db /\ row # "none" /\ ~replace

Start(files, db, replace) ==
    /\ sim = Off /\ attempts < MaxAttempts
    /\ attempts' = attempts + 1
    /\ CASE NewFileSinkFails(files, replace) -> UNCHANGED <<sim, dir>>
         [] ~NewFileSinkFails(files, replace) /\ NewDatabaseSinkFails(db, replace) ->
              /\ UNCHANGED sim
              /\ dir' = IF files THEN [Empty EXCEPT !.failure = TRUE, !.db = TRUE] ELSE dir
         [] OTHER ->
              /\ sim' = [pc |-> "profiles", files |-> files, db |-> db, batch |-> <<>>,
                         session |-> 1, sequence |-> 1, state |-> "feed_impression",
                         comments |-> FALSE]
              /\ dir' = IF files THEN [Empty EXCEPT !.db = db] ELSE dir
    /\ UNCHANGED row

WriteProfiles(hasComments) ==
    /\ sim # Off /\ sim.pc = "profiles"
    /\ sim' = [sim EXCEPT !.pc = "events", !.comments = hasComments]
    /\ UNCHANGED <<dir, row, attempts>>

\* Where generation goes on: the next step, the next session or the end.
Continue(batch, state, hasComments) ==
    IF sim.state # "session_exited" /\ sim.sequence < MaxSteps
    THEN [sim EXCEPT !.batch = batch, !.sequence = @ + 1, !.state = state]
    ELSE IF sim.session < Sessions
    THEN [sim EXCEPT !.batch = batch, !.session = @ + 1, !.sequence = 1,
                     !.state = "feed_impression", !.comments = hasComments]
    ELSE [sim EXCEPT !.pc = "close", !.batch = batch]

\* The next event goes to the file, then to the batch of the database sink.
WriteEvent(state, hasComments) ==
    LET event == MakeEvent(sim.session, sim.sequence, sim.state)
        batch == IF sim.db THEN Append(sim.batch, event) ELSE <<>>
        output == IF sim.files THEN [dir EXCEPT !.written = Append(@, event)] ELSE dir
    IN  /\ sim # Off /\ sim.pc = "events"
        /\ state \in StepsFrom(sim.state, sim.sequence, sim.comments)
        /\ IF Len(batch) = BatchSize /\ ~FlushEvents(batch)
           THEN Abort(output)
           ELSE /\ dir' = output
                /\ sim' = Continue(IF Len(batch) = BatchSize THEN <<>> ELSE batch, state, hasComments)
        /\ UNCHANGED <<row, attempts>>

\* FileSink.Complete: the report is written, then three files get their names.
WriteReport ==
    /\ sim # Off /\ sim.pc = "close"
    /\ sim' = [sim EXCEPT !.pc = IF sim.files THEN "profiles.ndjson" ELSE "commit"]
    /\ dir' = IF sim.files THEN [dir EXCEPT !.report = "tmp", !.reported = Len(dir.written)] ELSE dir
    /\ UNCHANGED <<row, attempts>>

RenameOutput ==
    /\ sim # Off
    /\ \/ sim.pc = "profiles.ndjson" /\ dir' = [dir EXCEPT !.profiles = "final"]
          /\ sim' = [sim EXCEPT !.pc = "events.ndjson"]
       \/ sim.pc = "events.ndjson" /\ dir' = [dir EXCEPT !.events = "final"]
          /\ sim' = [sim EXCEPT !.pc = "report.json"]
       \/ sim.pc = "report.json" /\ dir' = [dir EXCEPT !.report = "final"]
          /\ sim' = [sim EXCEPT !.pc = "commit"]
    /\ UNCHANGED <<row, attempts>>

\* DatabaseSink.Complete, after the files are complete.
CommitRun ==
    /\ sim # Off /\ sim.pc = "commit"
    /\ IF sim.db /\ ~FlushEvents(sim.batch)
       THEN Abort(dir) /\ UNCHANGED row
       ELSE /\ sim' = Off /\ UNCHANGED dir
            /\ row' = IF sim.db THEN "completed" ELSE row
    /\ UNCHANGED attempts

\* A write fails or the command is cancelled; nothing is left to do at the commit without
\* a database.
SimulationFails ==
    /\ sim # Off
    /\ sim.pc = "commit" => sim.db
    /\ Abort(dir)
    /\ UNCHANGED <<row, attempts>>

SimulationDies ==
    /\ sim # Off
    /\ sim' = Off /\ dir' = Left(dir)
    /\ UNCHANGED <<row, attempts>>

SimNext ==
    \/ \E files, db, replace \in BOOLEAN : Start(files, db, replace)
    \/ \E c \in BOOLEAN : WriteProfiles(c)
    \/ \E c \in BOOLEAN, s \in State : WriteEvent(s, c)
    \/ WriteReport \/ RenameOutput \/ CommitRun
    \/ SimulationFails \/ SimulationDies

SimSpec == SimInit /\ [][SimNext]_simVars

-----------------------------------------------------------------------------
\* Part of SimulationHonest.  Sessions follow each other, each starts with an impression,
\* has no gap in its numbers and ends with its only exit (Generate).
WholeSessions(events) ==
    \A i \in DOMAIN events :
        LET e == events[i]
            last == i = Len(events)
        IN  /\ e.sequence = 1 <=> e.state = "feed_impression"
            /\ IF e.state = "session_exited"
               THEN last \/ (events[i + 1].session = e.session + 1 /\ events[i + 1].sequence = 1)
               ELSE ~last /\ events[i + 1].session = e.session
                          /\ events[i + 1].sequence = e.sequence + 1

\* Part of SimulationHonest.  A directory with a final report has all its files, of whole
\* sessions, as many as it reports, and has a note of failure only if the database sink
\* failed after it (docs/08: "Temporary files are renamed only after a successful run").
HonestOutput(d) ==
    d # None /\ d.report = "final" =>
        /\ d.profiles = "final" /\ d.events = "final"
        /\ WholeSessions(d.written) /\ d.reported = Len(d.written)
        /\ d.written # <<>> /\ d.written[Len(d.written)].session = Sessions
        /\ d.failure => d.db

\* Output is what it claims to be, after any number of failures, deaths and replacements
\* under one run id: a final report stands for whole output, and no run is ever stored,
\* for no event names an existing project
\* (FileSink.Complete, MultiSink.Complete, flushEvents).
SimulationHonest == HonestOutput(dir) /\ row # "completed"

-----------------------------------------------------------------------------
(* Why it holds: the parts of the inductive invariant *)

Event == [session : Nat, sequence : Nat, state : State, project : {0}]
Output == [profiles : {"tmp", "final"}, events : {"tmp", "final"}, report : {"absent", "tmp", "final"},
           failure : BOOLEAN, written : Seq(Event), reported : Nat, db : BOOLEAN]
Running == [pc : {"profiles", "events", "close", "profiles.ndjson", "events.ndjson", "report.json", "commit"},
            files : BOOLEAN, db : BOOLEAN, batch : Seq(Event), session : 1..Sessions,
            sequence : 1..MaxSteps, state : State, comments : BOOLEAN]

TypeOK ==
    /\ sim \in Running \cup {Off} /\ dir \in Output \cup {None}
    /\ row \in {"none", "old"} /\ attempts \in Nat

Generating == sim.pc \in {"profiles", "events"}

\* An event is followed by the next step of its session, or the first of the next session.
Follows(e, session, sequence) ==
    IF e.state = "session_exited" THEN session = e.session + 1 /\ sequence = 1
    ELSE session = e.session /\ sequence = e.sequence + 1

Linked(events) ==
    \A i \in 1..Len(events) :
        /\ events[i].sequence = 1 <=> events[i].state = "feed_impression"
        /\ i < Len(events) => Follows(events[i], events[i + 1].session, events[i + 1].sequence)

\* Where in a session the process is; and what it has to flush after the last event.
SessionControl ==
    sim # Off =>
        /\ sim.sequence = 1 <=> sim.state = "feed_impression"
        /\ sim.sequence = MaxSteps => sim.state = "session_exited"
        /\ ~Generating /\ sim.db => sim.batch # <<>>
        /\ sim.pc \in {"profiles.ndjson", "events.ndjson", "report.json"} => sim.files

\* What the process has written so far.
FilesKept ==
    sim # Off /\ sim.files =>
        /\ dir # None /\ dir.db = sim.db /\ ~dir.failure
        /\ Linked(dir.written)
        /\ Generating =>
              IF dir.written = <<>> THEN sim.session = 1 /\ sim.sequence = 1
              ELSE Follows(dir.written[Len(dir.written)], sim.session, sim.sequence)
        /\ ~Generating => /\ dir.written # <<>>
                          /\ dir.written[Len(dir.written)].state = "session_exited"
                          /\ dir.written[Len(dir.written)].session = Sessions
        /\ Generating \/ sim.pc = "close" \/ dir.reported = Len(dir.written)
        /\ sim.pc \in {"events.ndjson", "report.json", "commit"} => dir.profiles = "final"
        /\ sim.pc \in {"report.json", "commit"} => dir.events = "final"
        /\ dir.report = "final" => sim.pc = "commit"

\* The inductive invariant.
SimulationInv == TypeOK /\ SessionControl /\ FilesKept /\ SimulationHonest
=============================================================================
