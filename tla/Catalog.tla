------------------------------- MODULE Catalog -------------------------------
(***************************************************************************)
(* Workspaces, datasets and the jobs that refer to them: the tables with   *)
(* their foreign keys, the upload protocol of the clients against object   *)
(* storage, the hourly cleanup, deletions with their cascades, and the     *)
(* read-merge-write of PATCH /workspaces/:id.  A statement is atomic, a    *)
(* request of several statements is not.                                   *)
(*                                                                         *)
(* workspaces <- datasets and jobs: ON DELETE CASCADE.                     *)
(* datasets <- jobs: no action, so a row that is referred to is not        *)
(* deleted and the DELETE that tries fails as a whole.                     *)
(***************************************************************************)
EXTENDS Integers, FiniteSets

CONSTANTS Workspaces, Datasets, Jobs,
          Clients,   \* PATCH /workspaces/:id requests, each of one client
          Columns,   \* what they may set: name, plan
          NoOne,
          MaxRequests   \* bound: uploads, jobs and patches together

ASSUME CatalogAssumption ==
    /\ NoOne \notin Workspaces \cup Datasets \cup Clients
    /\ MaxRequests \in Nat

VARIABLES workspaces,  \* table workspaces: the ids in it
          used,        \* ids that were given to a workspace
          values,      \* its columns: the client whose value each holds
          datasets,    \* table datasets
          jobs,        \* table jobs: workspace and dataset of each row
          objects,     \* object storage: uploaded files
          age,         \* time since InitiateDataset, per dataset
          upload,      \* the uploading client, per dataset: its next call
          patch,       \* UpdateWorkspace, per request
          unchecked,   \* history: registered without a PUT that succeeded
          removed,     \* history: datasets somebody deleted
          writes       \* history: UPDATEs of workspaces, in order

tableVars   == <<workspaces, used, datasets, jobs>>
uploadVars  == <<objects, age, upload, unchecked>>
patchVars   == <<values, patch, writes>>
vars        == <<tableVars, uploadVars, patchVars, removed>>

NoDataset == [state |-> "none", workspace |-> NoOne]
NoJob     == [workspace |-> NoOne, dataset |-> NoOne, ready |-> FALSE]

Live == {j \in Jobs : jobs[j] # NoJob}
Rows == {d \in Datasets : datasets[d].state \in {"INITIATED", "READY"}}

TypeOK ==
    /\ workspaces \subseteq used /\ used \subseteq Workspaces
    /\ values \in [Workspaces -> [Columns -> Clients \cup {NoOne}]]
    /\ datasets \in [Datasets -> [state : {"none", "INITIATED", "READY", "deleted"},
                                  workspace : Workspaces \cup {NoOne}]]
    /\ jobs \in [Jobs -> [workspace : Workspaces \cup {NoOne},
                          dataset : Datasets \cup {NoOne}, ready : BOOLEAN]]
    /\ objects \subseteq Datasets
    /\ age \in [Datasets -> {"fresh", "expired", "stale"}]
    /\ upload \in [Datasets -> {"none", "url", "put", "register", "done", "failed"}]
    /\ patch \in [Clients -> [pc : {"new", "read", "acked", "failed"},
                              workspace : Workspaces \cup {NoOne},
                              sets : SUBSET Columns,
                              row : [Columns -> Clients \cup {NoOne}],
                              from : Nat, at : Nat]]
    /\ unchecked \subseteq Datasets
    /\ removed \subseteq Datasets
    /\ writes \in Nat

NoRow    == [c \in Columns |-> NoOne]
NewPatch == [pc |-> "new", workspace |-> NoOne, sets |-> {}, row |-> NoRow,
             from |-> 0, at |-> 0]

Init ==
    /\ workspaces = {} /\ used = {}
    /\ values = [w \in Workspaces |-> NoRow]
    /\ datasets = [d \in Datasets |-> NoDataset]
    /\ jobs = [j \in Jobs |-> NoJob]
    /\ objects = {}
    /\ age = [d \in Datasets |-> "fresh"]
    /\ upload = [d \in Datasets |-> "none"]
    /\ patch = [c \in Clients |-> NewPatch]
    /\ unchecked = {} /\ removed = {}
    /\ writes = 0

InBounds ==
    Cardinality({d \in Datasets : datasets[d] # NoDataset}) + Cardinality(Live)
        + Cardinality({c \in Clients : patch[c] # NewPatch}) < MaxRequests

CreateWorkspace(w) ==
    /\ w \notin used
    /\ workspaces' = workspaces \cup {w}
    /\ used' = used \cup {w}
    /\ UNCHANGED <<datasets, jobs, uploadVars, patchVars, removed>>

(***************************************************************************)
(* Uploading: the row and a URL that is good for 15 minutes, a PUT to the  *)
(* URL, and the registration, which makes the row READY whatever its state.*)
(***************************************************************************)
Goes(d, from, to) == upload[d] = from /\ upload' = [upload EXCEPT ![d] = to]

\* If no URL can be signed the row is left behind.
InitiateUpload(d, w) ==
    /\ InBounds
    /\ w \in workspaces
    /\ datasets[d] = NoDataset
    /\ datasets' = [datasets EXCEPT ![d] = [state |-> "INITIATED", workspace |-> w]]
    /\ \E to \in {"url", "failed"} : Goes(d, "none", to)
    /\ UNCHANGED <<workspaces, used, jobs, objects, age, unchecked, patchVars, removed>>

\* The signature is checked when the PUT begins; the body may take its time.
StartPut(d) ==
    /\ age[d] = "fresh"
    /\ Goes(d, "url", "put")
    /\ UNCHANGED <<tableVars, objects, age, unchecked, patchVars, removed>>

FinishPut(d) ==
    /\ Goes(d, "put", "register")
    /\ objects' = objects \cup {d}
    /\ UNCHANGED <<tableVars, age, unchecked, patchVars, removed>>

\* Variant: the SDK does not look at the status of the answer either.
RefusePutUnseen(d) ==
    /\ \/ Goes(d, "put", "register")
       \/ age[d] # "fresh" /\ Goes(d, "url", "register")
    /\ UNCHANGED <<tableVars, objects, age, unchecked, patchVars, removed>>

\* An expired URL, or an error while the body is sent.  The SDK looks at the
\* status of the answer and raises; the web page does not look and goes on.
RefusePut(d) ==
    /\ \/ Goes(d, "put", "failed") /\ UNCHANGED unchecked
       \/ age[d] # "fresh" /\ Goes(d, "url", "failed") /\ UNCHANGED unchecked
       \/ Goes(d, "put", "register") /\ unchecked' = unchecked \cup {d}
    /\ UNCHANGED <<tableVars, objects, age, patchVars, removed>>

\* The client registers although no PUT succeeded: the web page whose URL had
\* expired, or a client of the API that sent nothing.  Nobody looks.
SkipPut(d) ==
    /\ Goes(d, "url", "register")
    /\ unchecked' = unchecked \cup {d}
    /\ UNCHANGED <<tableVars, objects, age, patchVars, removed>>

CompleteUpload(d) ==
    /\ IF d \in Rows
       THEN /\ Goes(d, "register", "done")
            /\ datasets' = [datasets EXCEPT ![d].state = "READY"]
       ELSE Goes(d, "register", "failed") /\ UNCHANGED datasets
    /\ UNCHANGED <<workspaces, used, jobs, objects, age, unchecked, patchVars, removed>>

\* The client stops; or it registers and the answer is lost.
ClientStops(d) ==
    /\ \E at \in {"url", "put", "register"} : Goes(d, at, "failed")
    /\ \/ UNCHANGED datasets
       \/ /\ upload[d] = "register" /\ d \in Rows
          /\ datasets' = [datasets EXCEPT ![d].state = "READY"]
    /\ UNCHANGED <<workspaces, used, jobs, objects, age, unchecked, patchVars, removed>>

\* 15 minutes pass, then the rest of a day; where somebody looks at it.
Ages(d) ==
    /\ datasets[d].state = "INITIATED" \/ upload[d] = "url"
    /\ age' = [age EXCEPT ![d] = IF @ = "fresh" THEN "expired" ELSE "stale"]
    /\ age' # age
    /\ UNCHANGED <<tableVars, objects, upload, unchecked, patchVars, removed>>

(***************************************************************************)
(* Deleting.                                                               *)
(***************************************************************************)
Drop(D) == [d \in Datasets |-> IF d \in D THEN [datasets[d] EXCEPT !.state = "deleted"]
                               ELSE datasets[d]]

ReferredTo(D) == \E j \in Live : jobs[j].dataset \in D

Stale == {d \in Datasets : datasets[d].state = "INITIATED" /\ age[d] = "stale"}

\* Variant: a day old is old enough, in any state.
CleanupByAge ==
    LET D == {d \in Rows : age[d] = "stale"}
    IN  /\ D # {} /\ ~ReferredTo(D)
        /\ datasets' = Drop(D)
        /\ UNCHANGED <<workspaces, used, jobs, uploadVars, patchVars, removed>>

CleanupStaleDatasetsInitiated ==
    /\ Stale # {}
    /\ ~ReferredTo(Stale)
    /\ datasets' = Drop(Stale)
    /\ UNCHANGED <<workspaces, used, jobs, uploadVars, patchVars, removed>>

DeleteDataset(d) ==
    /\ d \in Rows
    /\ ~ReferredTo({d})
    /\ datasets' = Drop({d})
    /\ removed' = removed \cup {d}
    /\ UNCHANGED <<workspaces, used, jobs, uploadVars, patchVars>>

\* Variant: the cascade does not look for jobs of other workspaces.
DeleteWorkspaceAnyway(w) ==
    LET D == {d \in Rows : datasets[d].workspace = w}
    IN  /\ w \in workspaces
        /\ workspaces' = workspaces \ {w}
        /\ datasets' = Drop(D)
        /\ jobs' = [j \in Jobs |-> IF jobs[j].workspace = w THEN NoJob ELSE jobs[j]]
        /\ removed' = removed \cup D
        /\ UNCHANGED <<used, uploadVars, patchVars>>

\* The references are checked when the cascade is through, so only a job of
\* another workspace is in the way.
DeleteWorkspace(w) ==
    LET D == {d \in Rows : datasets[d].workspace = w}
        J == {j \in Live : jobs[j].workspace = w}
    IN  /\ w \in workspaces
        /\ \A j \in Live \ J : jobs[j].dataset \notin D
        /\ workspaces' = workspaces \ {w}
        /\ datasets' = Drop(D)
        /\ jobs' = [j \in Jobs |-> IF j \in J THEN NoJob ELSE jobs[j]]
        /\ removed' = removed \cup D
        /\ UNCHANGED <<used, uploadVars, patchVars>>

\* CreateJob looks neither at the state of the dataset nor at its workspace.
CreateJob(j, w, d) ==
    /\ InBounds
    /\ j \notin Live
    /\ w \in workspaces /\ d \in Rows
    /\ jobs' = [jobs EXCEPT ![j] = [workspace |-> w, dataset |-> d,
                                    ready |-> datasets[d].state = "READY"]]
    /\ UNCHANGED <<workspaces, used, datasets, uploadVars, patchVars, removed>>

(***************************************************************************)
(* UpdateWorkspace: read the row, merge what the request sets, write all   *)
(* columns.  A value is the client that set it.                            *)
(***************************************************************************)
ReadWorkspace(c, w) ==
    /\ InBounds
    /\ patch[c].pc = "new"
    /\ w \in workspaces
    /\ \E S \in SUBSET Columns \ {{}} :
          patch' = [patch EXCEPT ![c] = [NewPatch EXCEPT !.pc = "read", !.workspace = w,
                                         !.sets = S, !.row = values[w], !.from = writes]]
    /\ UNCHANGED <<tableVars, uploadVars, values, writes, removed>>

\* Variant: a column that has a value keeps it.
MergedExistingWins(c) ==
    [k \in Columns |-> IF k \in patch[c].sets /\ patch[c].row[k] = NoOne
                       THEN c ELSE patch[c].row[k]]

\* Variant: columns the request does not set are left out of the UPDATE's row.
MergedSetsOnly(c) == [k \in patch[c].sets |-> c]

Merged(c) == [k \in Columns |-> IF k \in patch[c].sets THEN c ELSE patch[c].row[k]]

WriteWorkspace(c) ==
    /\ patch[c].pc = "read"
    /\ IF patch[c].workspace \in workspaces
       THEN /\ values' = [values EXCEPT ![patch[c].workspace] = Merged(c)]
            /\ writes' = writes + 1
            /\ patch' = [patch EXCEPT ![c].pc = "acked", ![c].at = writes + 1]
       ELSE /\ patch' = [patch EXCEPT ![c].pc = "failed"]
            /\ UNCHANGED <<values, writes>>
    /\ UNCHANGED <<tableVars, uploadVars, removed>>

Uploading(d) ==
    \/ \E w \in Workspaces : InitiateUpload(d, w)
    \/ StartPut(d) \/ FinishPut(d) \/ RefusePut(d) \/ SkipPut(d)
    \/ CompleteUpload(d) \/ ClientStops(d)

Next ==
    \/ \E d \in Datasets : Uploading(d) \/ Ages(d) \/ DeleteDataset(d)
    \/ \E w \in Workspaces : CreateWorkspace(w) \/ DeleteWorkspace(w)
    \/ \E j \in Jobs, w \in Workspaces, d \in Datasets : CreateJob(j, w, d)
    \/ \E c \in Clients : WriteWorkspace(c) \/ \E w \in Workspaces : ReadWorkspace(c, w)
    \/ CleanupStaleDatasetsInitiated

Spec == Init /\ [][Next]_vars

-----------------------------------------------------------------------------
\* A READY dataset has its file, whatever happened between the three calls,
\* except where a client registered without a PUT that succeeded, refused or
\* never sent: the registration (UpdateDatasetStoragePath) looks at nothing, so
\* these rows are READY with no file, and only they.
ReadyIsUploaded ==
    \A d \in Datasets : datasets[d].state = "READY" => d \in objects \cup unchecked

\* An upload that was answered as complete stays READY until somebody deletes
\* it: the cleanup, whose condition is on the state and the age of the row,
\* never takes it, however slow the upload was.
CompletedStays ==
    \A d \in Datasets : upload[d] = "done" /\ d \notin removed => datasets[d].state = "READY"

\* Every row refers to rows that exist, through cascades, failed deletions and
\* the cleanup; and a job keeps the READY dataset and the file it was created
\* with.
ReferencesHold ==
    /\ \A d \in Rows : datasets[d].workspace \in workspaces
    /\ \A j \in Live :
          /\ jobs[j].workspace \in workspaces
          /\ jobs[j].dataset \in Rows
          /\ jobs[j].ready => /\ datasets[jobs[j].dataset].state = "READY"
                              /\ jobs[j].dataset \in objects \cup unchecked

\* UpdateWorkspace may lose an acknowledged value only to a request that read
\* the row before that value was written and wrote all columns after it.
UpdatesLostToOverlapOnly ==
    \A c \in Clients : \A k \in patch[c].sets :
        patch[c].pc = "acked" =>
            \/ values[patch[c].workspace][k] = c
            \/ \E b \in Clients \ {c} :
                  /\ patch[b].pc = "acked" /\ patch[b].workspace = patch[c].workspace
                  /\ patch[b].at > patch[c].at
                  /\ k \in patch[b].sets \/ patch[b].from < patch[c].at
=============================================================================
