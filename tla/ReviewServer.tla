---------------------------- MODULE ReviewServer ----------------------------
(***************************************************************************)
(* Labelling the cases of one reviewer (internal/evalreview/               *)
(* review_server.go, cmd/benchmarkreview 'serve').  A server keeps the     *)
(* labels in memory and writes all of them out after each; it can stop at  *)
(* any point and be started again, and nothing keeps a second one from     *)
(* serving the same assignment.  Requests of one server are serialized by  *)
(* its mutex; a file is written under a temporary name and renamed.        *)
(***************************************************************************)
EXTENDS Naturals

CONSTANTS
    Case,       \* assigned cases
    Label,      \* what the reviewer can say of a case
    Server,     \* processes running 'serve'
    MaxPuts,    \* bound: labels sent
    MaxFailures,\* bound: writes that fail
    None

VARIABLES
    progress,   \* submissions.in_progress.jsonl, or None
    submitted,  \* submissions.jsonl, or None
    server,     \* per server: labels in memory and where it is
    puts, failures,
    acked,      \* history: per case, the version of the last label acknowledged
    shared,     \* history: two servers have been up at the same time
    doubled     \* history: two servers were finalizing at the same time

files == <<progress, submitted>>
history == <<acked, shared, doubled>>
vars == <<files, server, puts, failures, history>>

Down == [pc |-> "down"]
NoLabels == [c \in Case |-> None]

Init ==
    /\ progress = None /\ submitted = None
    /\ server = [i \in Server |-> Down]
    /\ puts = 0 /\ failures = 0
    /\ acked = [c \in Case |-> 0] /\ shared = FALSE /\ doubled = FALSE

Up(labels, finalized) == [pc |-> "up", labels |-> labels, finalized |-> finalized]

\* Seeded defect: a restarted server begins with nothing.
LoadNothing == IF submitted # None THEN Up(submitted, TRUE) ELSE Up(NoLabels, FALSE)

\* A finished review is loaded read-only, else the labels saved so far.
Load ==
    IF submitted # None THEN Up(submitted, TRUE)
    ELSE IF progress # None THEN Up(progress, FALSE) ELSE Up(NoLabels, FALSE)

\* NewReviewServer.
Start(i) ==
    /\ server[i].pc = "down"
    /\ server' = [server EXCEPT ![i] = Load]
    /\ shared' = (shared \/ \E j \in Server : server[j].pc # "down")
    /\ UNCHANGED <<files, puts, failures, acked, doubled>>

Version(label) == IF label = None THEN 0 ELSE label.n

\* handleReview: unless the review is finalized, the label enters the map ...
Review(i, c, label) ==
    LET v == server[i]
    IN  /\ v.pc = "up" /\ ~v.finalized /\ puts < MaxPuts
        /\ puts' = puts + 1
        /\ server' = [server EXCEPT ![i] =
               [pc |-> "saving", case |-> c, before |-> v.labels,
                labels |-> [v.labels EXCEPT ![c] = [said |-> label, n |-> Version(@) + 1]]]]
        /\ UNCHANGED <<files, failures, history>>

\* ... the whole map is written, and the answer is 200.
SaveProgress(i) ==
    LET v == server[i]
    IN  /\ v.pc = "saving"
        /\ progress' = v.labels
        /\ acked' = [acked EXCEPT ![v.case] = v.labels[v.case].n]
        /\ server' = [server EXCEPT ![i] = Up(v.labels, FALSE)]
        /\ UNCHANGED <<submitted, puts, failures, shared, doubled>>

\* The write fails, and the map is put back.
SaveFails(i) ==
    /\ server[i].pc = "saving" /\ failures < MaxFailures
    /\ failures' = failures + 1
    /\ server' = [server EXCEPT ![i] = Up(server[i].before, FALSE)]
    /\ UNCHANGED <<files, puts, history>>

\* Seeded defect: no look for a file that another server may have written.
FinalizeUnchecked(i) ==
    /\ server[i].pc = "up" /\ ~server[i].finalized
    /\ \A c \in Case : server[i].labels[c] # None
    /\ server' = [server EXCEPT ![i] = [pc |-> "finalizing", labels |-> @.labels]]
    /\ UNCHANGED <<files, puts, failures, history>>

\* handleFinalize: every case is labelled and there is no final file ...
Finalize(i) ==
    /\ server[i].pc = "up" /\ ~server[i].finalized
    /\ \A c \in Case : server[i].labels[c] # None
    /\ submitted = None
    /\ server' = [server EXCEPT ![i] = [pc |-> "finalizing", labels |-> @.labels]]
    /\ doubled' = (doubled \/ \E j \in Server : server[j].pc = "finalizing")
    /\ UNCHANGED <<files, puts, failures, acked, shared>>

\* ... so it is written, and the server goes read-only.
Submit(i) ==
    /\ server[i].pc = "finalizing"
    /\ submitted' = server[i].labels
    /\ server' = [server EXCEPT ![i] = Up(@.labels, TRUE)]
    /\ UNCHANGED <<progress, puts, failures, history>>

SubmitFails(i) ==
    /\ server[i].pc = "finalizing" /\ failures < MaxFailures
    /\ failures' = failures + 1
    /\ server' = [server EXCEPT ![i] = Up(@.labels, FALSE)]
    /\ UNCHANGED <<files, puts, history>>

\* The process ends at any point; its memory is gone.
Stop(i) ==
    /\ server[i].pc # "down"
    /\ server' = [server EXCEPT ![i] = Down]
    /\ UNCHANGED <<files, puts, failures, history>>

Next ==
    \E i \in Server :
        \/ Start(i) \/ SaveProgress(i) \/ SaveFails(i)
        \/ Finalize(i) \/ Submit(i) \/ SubmitFails(i) \/ Stop(i)
        \/ \E c \in Case, label \in Label : Review(i, c, label)

Spec == Init /\ [][Next]_vars

-----------------------------------------------------------------------------
\* What is on disk: the submitted review, else the progress saved, else nothing.
Kept ==
    IF submitted # None THEN submitted
    ELSE IF progress # None THEN progress ELSE NoLabels

\* As long as one server at a time was up, an acknowledged label is on disk, as it was
\* or in a later version, and what is on disk is what an idle server shows, through
\* failed writes, restarts and finalization (handleReview, writeProgress,
\* NewReviewServer; docs/19_phase7d_benchmark_v5_review.md:126 "supports restart/resume").
LabelsSurvive ==
    ~shared =>
        /\ \A c \in Case : Version(Kept[c]) >= acked[c]
        /\ \A i \in Server : server[i].pc = "up" => server[i].labels = Kept

\* A submitted review is complete and never changes, also with two servers, but for two
\* that had both looked for the file before either wrote it (handleFinalize).
SubmittedImmutable ==
    [][/\ submitted # None /\ ~doubled => submitted' = submitted
       /\ submitted' # submitted => \A c \in Case : submitted'[c] # None]_vars

-----------------------------------------------------------------------------
(* Why it holds: the parts of the inductive invariant *)

Given == [said : Label, n : Nat]
Labels == [Case -> Given \cup {None}]

ServerType ==
    {Down} \cup [pc : {"up"}, labels : Labels, finalized : BOOLEAN]
           \cup [pc : {"saving"}, case : Case, before : Labels, labels : Labels]
           \cup [pc : {"finalizing"}, labels : Labels]

TypeOK ==
    /\ progress \in Labels \cup {None} /\ submitted \in Labels \cup {None}
    /\ server \in [Server -> ServerType]
    /\ puts \in 0..MaxPuts /\ failures \in 0..MaxFailures
    /\ acked \in [Case -> Nat] /\ shared \in BOOLEAN /\ doubled \in BOOLEAN

\* A label under way is the only thing a saving server adds to what it knew.
Adds(v) ==
    /\ v.labels[v.case] # None /\ v.labels[v.case].n > Version(v.before[v.case])
    /\ \A c \in Case \ {v.case} : v.labels[c] = v.before[c]

SavingAdds == \A i \in Server : server[i].pc = "saving" => Adds(server[i])

\* One server at a time knows what is on disk, at every point of a request.
ServerKnows ==
    ~shared =>
        /\ \A i, j \in Server : server[i].pc # "down" /\ server[j].pc # "down" => i = j
        /\ \A c \in Case : Version(Kept[c]) >= acked[c]
        /\ \A i \in Server :
              LET v == server[i]
              IN  /\ v.pc = "up" => v.labels = Kept /\ (v.finalized <=> submitted # None)
                  /\ v.pc = "saving" => submitted = None /\ v.before = Kept
                  /\ v.pc = "finalizing" => submitted = None /\ v.labels = Kept

\* Who is about to write the final file has labelled every case; unless two were, there
\* is none yet.
OneFinalizes ==
    /\ \A i \in Server : server[i].pc = "finalizing" => \A c \in Case : server[i].labels[c] # None
    /\ ~doubled =>
          /\ \A i, j \in Server : server[i].pc = "finalizing" /\ server[j].pc = "finalizing" => i = j
          /\ \A i \in Server : server[i].pc = "finalizing" => submitted = None

\* The inductive invariant.
ServerInv == TypeOK /\ SavingAdds /\ ServerKnows /\ OneFinalizes
=============================================================================
