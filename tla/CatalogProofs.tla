---------------------------- MODULE CatalogProofs ----------------------------
(***************************************************************************)
(* Theorems about Catalog, for every number of workspaces, datasets, jobs  *)
(* and clients: its types, what READY promises, what the cleanup spares,   *)
(* the references between the tables, and what PATCH may lose.             *)
(***************************************************************************)
EXTENDS Catalog, TLAPS

Dataset == [state : {"none", "INITIATED", "READY", "deleted"},
            workspace : Workspaces \cup {NoOne}]
Row     == [Columns -> Clients \cup {NoOne}]
Patch   == [pc : {"new", "read", "acked", "failed"}, workspace : Workspaces \cup {NoOne},
            sets : SUBSET Columns, row : Row, from : Nat, at : Nat]

(***************************************************************************)
(* Types.                                                                  *)
(***************************************************************************)
LEMMA TypeInit == Init => TypeOK
<1> SUFFICES ASSUME Init PROVE TypeOK
  OBVIOUS
<1>1. values \in [Workspaces -> Row]
  BY DEF Init, NoRow, Row
<1>2. patch \in [Clients -> Patch]
  BY DEF Init, NewPatch, NoRow, Patch, Row
<1>3. /\ datasets \in [Datasets -> Dataset]
      /\ jobs \in [Jobs -> [workspace : Workspaces \cup {NoOne},
                            dataset : Datasets \cup {NoOne}, ready : BOOLEAN]]
  BY DEF Init, NoDataset, NoJob, Dataset
<1> QED
  BY <1>1, <1>2, <1>3 DEF Init, TypeOK, Dataset, Row, Patch

LEMMA DropType ==
  ASSUME TypeOK, NEW D
  PROVE  Drop(D) \in [Datasets -> Dataset]
  BY DEF Drop, TypeOK, Dataset

\* An upload, the clock, a deletion or the cleanup.
LEMMA TypeTables ==
  ASSUME TypeOK,
         \/ \E d \in Datasets : Uploading(d) \/ Ages(d) \/ DeleteDataset(d)
         \/ \E w \in Workspaces : CreateWorkspace(w) \/ DeleteWorkspace(w)
         \/ \E j \in Jobs, w \in Workspaces, d \in Datasets : CreateJob(j, w, d)
         \/ CleanupStaleDatasetsInitiated
  PROVE  TypeOK'
<1>1. ASSUME UNCHANGED patchVars,
             workspaces' \subseteq used', used' \subseteq Workspaces,
             datasets' \in [Datasets -> Dataset],
             jobs' \in [Jobs -> [workspace : Workspaces \cup {NoOne},
                                 dataset : Datasets \cup {NoOne}, ready : BOOLEAN]],
             objects' \subseteq Datasets, age' \in [Datasets -> {"fresh", "expired", "stale"}],
             upload' \in [Datasets -> {"none", "url", "put", "register", "done", "failed"}],
             unchecked' \subseteq Datasets, removed' \subseteq Datasets
      PROVE  TypeOK'
  BY <1>1 DEF patchVars, TypeOK, Dataset
<1>2. /\ datasets \in [Datasets -> Dataset]
      /\ jobs \in [Jobs -> [workspace : Workspaces \cup {NoOne},
                            dataset : Datasets \cup {NoOne}, ready : BOOLEAN]]
      /\ upload \in [Datasets -> {"none", "url", "put", "register", "done", "failed"}]
      /\ age \in [Datasets -> {"fresh", "expired", "stale"}]
      /\ workspaces \subseteq used /\ used \subseteq Workspaces
      /\ objects \subseteq Datasets /\ unchecked \subseteq Datasets /\ removed \subseteq Datasets
  BY DEF TypeOK, Dataset
<1>3. ASSUME NEW d \in Datasets, NEW st \in {"INITIATED", "READY"}
      PROVE  [datasets EXCEPT ![d].state = st] \in [Datasets -> Dataset]
  BY <1>2 DEF Dataset
<1>4. ASSUME NEW d \in Datasets, NEW w \in Workspaces, InitiateUpload(d, w) PROVE TypeOK'
  <2>1. datasets' \in [Datasets -> Dataset]
    BY <1>2, <1>4 DEF InitiateUpload, Dataset
  <2> QED
    BY <1>1, <1>2, <1>4, <2>1 DEF InitiateUpload, Goes
<1>5. ASSUME NEW d \in Datasets, StartPut(d) \/ FinishPut(d) \/ RefusePut(d) \/ SkipPut(d)
      PROVE  TypeOK'
  <2>1. upload' \in [Datasets -> {"none", "url", "put", "register", "done", "failed"}]
    BY <1>2, <1>5 DEF StartPut, FinishPut, RefusePut, SkipPut, Goes
  <2>2. objects' \subseteq Datasets /\ unchecked' \subseteq Datasets
    BY <1>2, <1>5 DEF StartPut, FinishPut, RefusePut, SkipPut
  <2>3. UNCHANGED <<tableVars, age, patchVars, removed>>
    BY <1>5 DEF StartPut, FinishPut, RefusePut, SkipPut
  <2> QED
    BY <1>1, <1>2, <2>1, <2>2, <2>3 DEF tableVars
<1>6. ASSUME NEW d \in Datasets, CompleteUpload(d) \/ ClientStops(d) PROVE TypeOK'
  <2>1. upload' \in [Datasets -> {"none", "url", "put", "register", "done", "failed"}]
    BY <1>2, <1>6 DEF CompleteUpload, ClientStops, Goes
  <2>2. datasets' \in [Datasets -> Dataset]
    BY <1>2, <1>3, <1>6 DEF CompleteUpload, ClientStops
  <2>3. UNCHANGED <<workspaces, used, jobs, objects, age, unchecked, patchVars, removed>>
    BY <1>6 DEF CompleteUpload, ClientStops
  <2> QED
    BY <1>1, <1>2, <2>1, <2>2, <2>3
<1>7. ASSUME NEW d \in Datasets, Ages(d) PROVE TypeOK'
  BY <1>1, <1>2, <1>7 DEF Ages, tableVars
<1>8. ASSUME NEW d \in Datasets, DeleteDataset(d) PROVE TypeOK'
  BY <1>1, <1>2, <1>8, DropType DEF DeleteDataset, uploadVars
<1>9. ASSUME NEW w \in Workspaces, CreateWorkspace(w) PROVE TypeOK'
  BY <1>1, <1>2, <1>9 DEF CreateWorkspace, uploadVars
<1>10. ASSUME NEW w \in Workspaces, DeleteWorkspace(w) PROVE TypeOK'
  <2>1. datasets' \in [Datasets -> Dataset] /\ workspaces' \subseteq workspaces
    BY <1>10, DropType DEF DeleteWorkspace
  <2>2. jobs' \in [Jobs -> [workspace : Workspaces \cup {NoOne},
                            dataset : Datasets \cup {NoOne}, ready : BOOLEAN]]
    BY <1>2, <1>10 DEF DeleteWorkspace, NoJob
  <2>3. removed' \subseteq Datasets /\ UNCHANGED <<used, uploadVars, patchVars>>
    BY <1>2, <1>10 DEF DeleteWorkspace, Rows
  <2> QED
    BY <1>1, <1>2, <2>1, <2>2, <2>3 DEF uploadVars
<1>11. ASSUME NEW j \in Jobs, NEW w \in Workspaces, NEW d \in Datasets, CreateJob(j, w, d)
       PROVE  TypeOK'
  BY <1>1, <1>2, <1>11 DEF CreateJob, uploadVars
<1>12. CASE CleanupStaleDatasetsInitiated
  BY <1>1, <1>2, <1>12, DropType DEF CleanupStaleDatasetsInitiated, uploadVars
<1> QED
  BY <1>4, <1>5, <1>6, <1>7, <1>8, <1>9, <1>10, <1>11, <1>12 DEF Uploading

\* PATCH /workspaces/:id.
LEMMA TypePatches ==
  ASSUME TypeOK, NEW c \in Clients,
         WriteWorkspace(c) \/ \E w \in Workspaces : ReadWorkspace(c, w)
  PROVE  TypeOK'
<1>1. ASSUME UNCHANGED <<tableVars, uploadVars, removed>>,
             values' \in [Workspaces -> Row], patch' \in [Clients -> Patch], writes' \in Nat
      PROVE  TypeOK'
  BY <1>1 DEF tableVars, uploadVars, TypeOK, Row, Patch
<1>2. values \in [Workspaces -> Row] /\ patch \in [Clients -> Patch] /\ writes \in Nat
  BY DEF TypeOK, Row, Patch
<1>3. ASSUME NEW w \in Workspaces, ReadWorkspace(c, w) PROVE TypeOK'
  <2>1. PICK S \in SUBSET Columns :
           patch' = [patch EXCEPT ![c] = [NewPatch EXCEPT !.pc = "read", !.workspace = w,
                                          !.sets = S, !.row = values[w], !.from = writes]]
    BY <1>3 DEF ReadWorkspace
  <2>2. [NewPatch EXCEPT !.pc = "read", !.workspace = w, !.sets = S,
                         !.row = values[w], !.from = writes] \in Patch
    BY <1>2 DEF NewPatch, Patch
  <2>3. patch' \in [Clients -> Patch]
    BY <1>2, <2>1, <2>2
  <2> QED
    BY <1>1, <1>2, <1>3, <2>3 DEF ReadWorkspace
<1>4. CASE WriteWorkspace(c)
  <2>1. Merged(c) \in Row
    BY <1>2 DEF Merged, Row, Patch
  <2>2. values' \in [Workspaces -> Row] /\ writes' \in Nat
    BY <1>2, <1>4, <2>1 DEF WriteWorkspace
  <2>3. patch' \in [Clients -> Patch]
    BY <1>2, <1>4 DEF WriteWorkspace, Patch
  <2> QED
    BY <1>1, <1>4, <2>2, <2>3 DEF WriteWorkspace
<1> QED
  BY <1>3, <1>4

\* Every statement keeps every row in its type, and the workspaces among those
\* that were created.
THEOREM CatalogTypes == Spec => []TypeOK
<1>1. TypeOK /\ [Next]_vars => TypeOK'
  <2> SUFFICES ASSUME TypeOK, [Next]_vars PROVE TypeOK'
    OBVIOUS
  <2>1. CASE Next
    BY <2>1, TypeTables, TypePatches DEF Next
  <2>2. CASE UNCHANGED vars
    BY <2>2 DEF vars, tableVars, uploadVars, patchVars, TypeOK
  <2> QED
    BY <2>1, <2>2
<1> QED
  BY <1>1, TypeInit, PTL DEF Spec

(***************************************************************************)
(* What the rows say of the files and of each other.                       *)
(***************************************************************************)
UploadInv ==
    /\ ReadyIsUploaded
    /\ \A d \in Datasets : upload[d] = "register" => d \in objects \cup unchecked

\* What the three calls of an upload change.
LEMMA UploadSteps ==
  ASSUME TypeOK, NEW d \in Datasets, Uploading(d)
  PROVE  /\ UNCHANGED <<workspaces, used, jobs, age, patchVars, removed>>
         /\ objects \subseteq objects' /\ unchecked \subseteq unchecked'
         /\ \A e \in Datasets : e # d => upload'[e] = upload[e] /\ datasets'[e] = datasets[e]
         /\ \/ UNCHANGED datasets /\ upload'[d] # "done" /\ upload[d] # "done"
            \/ /\ datasets[d] = NoDataset /\ datasets'[d].state = "INITIATED"
               /\ datasets'[d].workspace \in workspaces /\ upload'[d] \in {"url", "failed"}
            \/ /\ upload[d] = "register" /\ d \in Rows /\ upload'[d] \in {"done", "failed"}
               /\ datasets'[d].state = "READY" /\ datasets'[d].workspace = datasets[d].workspace
         /\ upload'[d] = "register" => d \in objects' \cup unchecked'
<1>1. ASSUME NEW w \in Workspaces, InitiateUpload(d, w)
      PROVE  /\ UNCHANGED <<workspaces, used, jobs, age, patchVars, removed, objects, unchecked>>
             /\ \A e \in Datasets : e # d => upload'[e] = upload[e] /\ datasets'[e] = datasets[e]
             /\ datasets[d] = NoDataset /\ datasets'[d].state = "INITIATED"
             /\ datasets'[d].workspace \in workspaces /\ upload'[d] \in {"url", "failed"}
  BY <1>1 DEF InitiateUpload, Goes, TypeOK
<1>2. CASE StartPut(d) \/ FinishPut(d) \/ RefusePut(d) \/ SkipPut(d)
  <2>1. /\ UNCHANGED <<tableVars, age, patchVars, removed>>
        /\ objects \subseteq objects' /\ unchecked \subseteq unchecked'
    BY <1>2 DEF StartPut, FinishPut, RefusePut, SkipPut
  <2>2. /\ \A e \in Datasets : e # d => upload'[e] = upload[e]
        /\ upload'[d] # "done" /\ upload[d] # "done"
    BY <1>2 DEF StartPut, FinishPut, RefusePut, SkipPut, Goes, TypeOK
  <2>3. upload'[d] = "register" => d \in objects' \cup unchecked'
    BY <1>2 DEF StartPut, FinishPut, RefusePut, SkipPut, Goes, TypeOK
  <2> QED
    BY <2>1, <2>2, <2>3 DEF tableVars
<1>3. CASE CompleteUpload(d) \/ ClientStops(d)
  <2>1. UNCHANGED <<workspaces, used, jobs, objects, age, unchecked, patchVars, removed>>
    BY <1>3 DEF CompleteUpload, ClientStops
  <2>2. /\ \A e \in Datasets : e # d => upload'[e] = upload[e]
        /\ upload'[d] \in {"done", "failed"} /\ upload[d] # "done"
    BY <1>3 DEF CompleteUpload, ClientStops, Goes, TypeOK
  <2>3. \/ UNCHANGED datasets /\ upload'[d] = "failed"
        \/ /\ upload[d] = "register" /\ d \in Rows
           /\ datasets' = [datasets EXCEPT ![d].state = "READY"]
    BY <1>3 DEF CompleteUpload, ClientStops, Goes, TypeOK
  <2>4. CASE UNCHANGED datasets /\ upload'[d] = "failed"
    BY <2>1, <2>2, <2>4
  <2>5. CASE /\ upload[d] = "register" /\ d \in Rows
             /\ datasets' = [datasets EXCEPT ![d].state = "READY"]
    BY <2>1, <2>2, <2>5 DEF TypeOK
  <2> QED
    BY <2>3, <2>4, <2>5
<1> QED
  BY <1>1, <1>2, <1>3 DEF Uploading

LEMMA DropStates ==
  ASSUME TypeOK, NEW D, NEW d \in Datasets
  PROVE  /\ d \notin D => Drop(D)[d] = datasets[d]
         /\ d \in D => Drop(D)[d].state = "deleted"
  BY DEF Drop, TypeOK

\* What else changes the datasets: a set of rows is dropped.
LEMMA DropSteps ==
  ASSUME TypeOK,
         \/ \E d \in Datasets : DeleteDataset(d)
         \/ \E w \in Workspaces : DeleteWorkspace(w)
         \/ CleanupStaleDatasetsInitiated
  PROVE  /\ UNCHANGED <<uploadVars, patchVars>>
         /\ \E D \in SUBSET Rows :
                /\ datasets' = Drop(D)
                /\ removed' = removed \cup D \/ (D \subseteq Stale /\ UNCHANGED removed)
<1>1. ASSUME NEW d \in Datasets, DeleteDataset(d)
      PROVE  /\ UNCHANGED <<uploadVars, patchVars>> /\ {d} \in SUBSET Rows
             /\ datasets' = Drop({d}) /\ removed' = removed \cup {d}
  BY <1>1 DEF DeleteDataset
<1>2. ASSUME NEW w \in Workspaces, DeleteWorkspace(w)
      PROVE  /\ UNCHANGED <<uploadVars, patchVars>>
             /\ \E D \in SUBSET Rows : datasets' = Drop(D) /\ removed' = removed \cup D
  BY <1>2 DEF DeleteWorkspace
<1>3. CASE CleanupStaleDatasetsInitiated
  <2>1. Stale \in SUBSET Rows
    BY DEF Stale, Rows
  <2> QED
    BY <1>3, <2>1 DEF CleanupStaleDatasetsInitiated
<1> QED
  BY <1>1, <1>2, <1>3

\* Every other action leaves the uploads alone.
LEMMA OtherSteps ==
  ASSUME \/ \E d \in Datasets : Ages(d)
         \/ \E w \in Workspaces : CreateWorkspace(w)
         \/ \E j \in Jobs, w \in Workspaces, d \in Datasets : CreateJob(j, w, d)
         \/ \E c \in Clients : WriteWorkspace(c) \/ \E w \in Workspaces : ReadWorkspace(c, w)
         \/ UNCHANGED vars
  PROVE  UNCHANGED <<datasets, upload, objects, unchecked, removed>>
  BY DEF Ages, CreateWorkspace, CreateJob, WriteWorkspace, ReadWorkspace, vars, tableVars,
         uploadVars

LEMMA StepKinds ==
  ASSUME [Next]_vars
  PROVE  \/ \E d \in Datasets : Uploading(d)
         \/ \/ \E d \in Datasets : DeleteDataset(d)
            \/ \E w \in Workspaces : DeleteWorkspace(w)
            \/ CleanupStaleDatasetsInitiated
         \/ \/ \E d \in Datasets : Ages(d)
            \/ \E w \in Workspaces : CreateWorkspace(w)
            \/ \E j \in Jobs, w \in Workspaces, d \in Datasets : CreateJob(j, w, d)
            \/ \E c \in Clients : WriteWorkspace(c) \/ \E w \in Workspaces : ReadWorkspace(c, w)
            \/ UNCHANGED vars
  BY DEF Next

LEMMA UploadStep == TypeOK /\ UploadInv /\ [Next]_vars => UploadInv'
<1> SUFFICES ASSUME TypeOK, UploadInv, [Next]_vars PROVE UploadInv'
  OBVIOUS
<1>1. ASSUME NEW d \in Datasets, Uploading(d) PROVE UploadInv'
  <2>1. \A e \in Datasets : e # d =>
           /\ datasets'[e].state = "READY" => e \in objects' \cup unchecked'
           /\ upload'[e] = "register" => e \in objects' \cup unchecked'
    BY <1>1, UploadSteps DEF UploadInv, ReadyIsUploaded
  <2>2. datasets'[d].state = "READY" => d \in objects' \cup unchecked'
    BY <1>1, UploadSteps DEF UploadInv, ReadyIsUploaded
  <2>3. upload'[d] = "register" => d \in objects' \cup unchecked'
    BY <1>1, UploadSteps
  <2> QED
    BY <2>1, <2>2, <2>3 DEF UploadInv, ReadyIsUploaded
<1>2. ASSUME NEW D \in SUBSET Rows, UNCHANGED uploadVars, datasets' = Drop(D) PROVE UploadInv'
  <2>1. \A d \in Datasets : datasets'[d].state = "READY" => datasets[d].state = "READY"
    BY <1>2, DropStates
  <2> QED
    BY <1>2, <2>1 DEF UploadInv, ReadyIsUploaded, uploadVars
<1>3. CASE UNCHANGED <<datasets, upload, objects, unchecked>>
  BY <1>3 DEF UploadInv, ReadyIsUploaded
<1> QED
  BY <1>1, <1>2, <1>3, StepKinds, DropSteps, OtherSteps

LEMMA CompletedStep == TypeOK /\ CompletedStays /\ [Next]_vars => CompletedStays'
<1> SUFFICES ASSUME TypeOK, CompletedStays, [Next]_vars PROVE CompletedStays'
  OBVIOUS
<1>1. ASSUME NEW d \in Datasets, Uploading(d) PROVE CompletedStays'
  <2>1. \A e \in Datasets : e # d => upload'[e] = upload[e] /\ datasets'[e] = datasets[e]
    BY <1>1, UploadSteps
  <2>2. UNCHANGED removed
    BY <1>1, UploadSteps
  <2>3. upload'[d] = "done" => datasets'[d].state = "READY"
    BY <1>1, UploadSteps DEF TypeOK
  <2> QED
    BY <2>1, <2>2, <2>3 DEF CompletedStays
<1>2. ASSUME NEW D \in SUBSET Rows, UNCHANGED uploadVars, datasets' = Drop(D),
             removed' = removed \cup D \/ (D \subseteq Stale /\ UNCHANGED removed)
      PROVE  CompletedStays'
  BY <1>2, DropStates DEF CompletedStays, Stale, uploadVars
<1>3. CASE UNCHANGED <<datasets, upload, removed>>
  BY <1>3 DEF CompletedStays
<1> QED
  BY <1>1, <1>2, <1>3, StepKinds, DropSteps, OtherSteps

\* A READY dataset has its file, in every interleaving of uploads, expired
\* URLs, slow PUTs, deletions and cleanups, except where a client registered
\* without a PUT that succeeded.
THEOREM ReadyMeansUploaded == Spec => []ReadyIsUploaded
<1>1. Init => UploadInv
  BY DEF Init, UploadInv, ReadyIsUploaded, NoDataset
<1>2. UploadInv => ReadyIsUploaded
  BY DEF UploadInv
<1> QED
  BY <1>1, <1>2, UploadStep, CatalogTypes, PTL DEF Spec

\* The cleanup never takes an upload that was answered as complete.
THEOREM CompletedUploadsStay == Spec => []CompletedStays
<1>1. Init => CompletedStays
  BY DEF Init, CompletedStays
<1> QED
  BY <1>1, CompletedStep, CatalogTypes, PTL DEF Spec

LEMMA ReferencesInit == Init => ReferencesHold
  BY DEF Init, ReferencesHold, Rows, Live, NoDataset

LEMMA ReferencesStep ==
  TypeOK /\ UploadInv /\ ReferencesHold /\ [Next]_vars => ReferencesHold'
<1> SUFFICES ASSUME TypeOK, UploadInv, ReferencesHold, [Next]_vars PROVE ReferencesHold'
  OBVIOUS
<1>1. ASSUME NEW d \in Datasets, Uploading(d) PROVE ReferencesHold'
  <2>1. /\ UNCHANGED <<workspaces, jobs>>
        /\ objects \subseteq objects' /\ unchecked \subseteq unchecked'
        /\ \A e \in Datasets : e # d => datasets'[e] = datasets[e]
    BY <1>1, UploadSteps
  <2>2. \A e \in Rows : e \in Rows' /\ (datasets[e].state = "READY" => datasets'[e].state = "READY")
    BY <1>1, UploadSteps DEF Rows, NoDataset, TypeOK
  <2>3. \A e \in Rows' : datasets'[e].workspace \in workspaces
    BY <1>1, UploadSteps DEF Rows, ReferencesHold, TypeOK
  <2> QED
    BY <2>1, <2>2, <2>3 DEF ReferencesHold, Live
<1>2. ASSUME NEW D \in SUBSET Rows, datasets' = Drop(D), UNCHANGED <<uploadVars, workspaces, jobs>>,
             ~ReferredTo(D)
      PROVE  ReferencesHold'
  <2>1. Rows' = Rows \ D /\ \A e \in Rows' : datasets'[e] = datasets[e]
    BY <1>2, DropStates DEF Rows
  <2> QED
    BY <1>2, <2>1 DEF ReferencesHold, ReferredTo, Live, uploadVars
<1>3. ASSUME NEW d \in Datasets, DeleteDataset(d) PROVE ReferencesHold'
  BY <1>2, <1>3 DEF DeleteDataset
<1>4. CASE CleanupStaleDatasetsInitiated
  <2>1. Stale \in SUBSET Rows
    BY DEF Stale, Rows
  <2> QED
    BY <1>2, <1>4, <2>1 DEF CleanupStaleDatasetsInitiated
<1>5. ASSUME NEW w \in Workspaces, DeleteWorkspace(w) PROVE ReferencesHold'
  <2> DEFINE D == {d \in Rows : datasets[d].workspace = w}
             J == {j \in Live : jobs[j].workspace = w}
  <2>1. /\ workspaces' = workspaces \ {w} /\ datasets' = Drop(D)
        /\ jobs' = [j \in Jobs |-> IF j \in J THEN NoJob ELSE jobs[j]]
        /\ \A j \in Live \ J : jobs[j].dataset \notin D
        /\ UNCHANGED uploadVars
    BY <1>5 DEF DeleteWorkspace
  <2>2. Rows' = Rows \ D /\ \A e \in Rows' : datasets'[e] = datasets[e]
    BY <2>1, DropStates DEF Rows
  <2>3. Live' = Live \ J /\ \A j \in Live' : jobs'[j] = jobs[j]
    BY <2>1 DEF Live
  <2>4. \A j \in Live' : jobs[j].workspace # w /\ jobs[j].dataset \notin D
    BY <2>1, <2>3
  <2>5. \A d \in Rows' : datasets[d].workspace # w
    BY <2>2
  <2> HIDE DEF D, J
  <2> QED
    BY <2>1, <2>2, <2>3, <2>4, <2>5 DEF ReferencesHold, uploadVars
<1>6. ASSUME NEW j \in Jobs, NEW w \in Workspaces, NEW d \in Datasets, CreateJob(j, w, d)
      PROVE  ReferencesHold'
  <2>1. /\ w \in workspaces /\ d \in Rows
        /\ jobs' = [jobs EXCEPT ![j] = [workspace |-> w, dataset |-> d,
                                        ready |-> datasets[d].state = "READY"]]
        /\ UNCHANGED <<workspaces, datasets, objects, unchecked>>
    BY <1>6 DEF CreateJob, uploadVars
  <2>2. /\ jobs'[j].workspace = w /\ jobs'[j].dataset = d
        /\ jobs'[j].ready => datasets[d].state = "READY"
        /\ \A i \in Jobs : i # j => jobs'[i] = jobs[i]
    BY <2>1 DEF TypeOK
  <2>3. datasets[d].state = "READY" => d \in objects \cup unchecked
    BY DEF UploadInv, ReadyIsUploaded
  <2> QED
    BY <2>1, <2>2, <2>3 DEF ReferencesHold, Live, Rows
<1>7. ASSUME NEW w \in Workspaces, CreateWorkspace(w) PROVE ReferencesHold'
  <2>1. workspaces \subseteq workspaces' /\ UNCHANGED <<datasets, jobs, uploadVars>>
    BY <1>7 DEF CreateWorkspace
  <2> QED
    BY <2>1 DEF ReferencesHold, Rows, Live, uploadVars
<1>8. ASSUME \/ \E d \in Datasets : Ages(d)
             \/ \E c \in Clients : WriteWorkspace(c) \/ \E w \in Workspaces : ReadWorkspace(c, w)
             \/ UNCHANGED vars
      PROVE  ReferencesHold'
  <2>1. UNCHANGED <<workspaces, datasets, jobs, objects, unchecked>>
    BY <1>8 DEF Ages, WriteWorkspace, ReadWorkspace, vars, tableVars, uploadVars
  <2> QED
    BY <2>1 DEF ReferencesHold, Rows, Live
<1> QED
  BY <1>1, <1>3, <1>4, <1>5, <1>6, <1>7, <1>8, StepKinds

\* Cascades, deletions that fail and the cleanup leave no row that refers to
\* nothing, and no job loses a READY dataset or its file under its hands.
THEOREM ReferencesAlwaysHold == Spec => []ReferencesHold
<1>1. Init => UploadInv
  BY DEF Init, UploadInv, ReadyIsUploaded, NoDataset
<1> QED
  BY <1>1, ReferencesInit, ReferencesStep, UploadStep, CatalogTypes, PTL DEF Spec

(***************************************************************************)
(* What PATCH may lose.  Overwritten says how an acknowledged value was    *)
(* lost; a request that has read the row holds every value acknowledged    *)
(* before its read, or that value was overwritten already.                 *)
(***************************************************************************)
Overwritten(c, k) ==
    \E b \in Clients \ {c} :
        /\ patch[b].pc = "acked" /\ patch[b].workspace = patch[c].workspace
        /\ patch[b].at > patch[c].at
        /\ k \in patch[b].sets \/ patch[b].from < patch[c].at

PatchInv ==
    /\ \A c \in Clients : patch[c].pc = "acked" => patch[c].at <= writes
    /\ \A c \in Clients : patch[c].pc = "read" => patch[c].from <= writes
    /\ UpdatesLostToOverlapOnly
    /\ \A r, c \in Clients : \A k \in patch[c].sets :
          /\ patch[r].pc = "read" /\ patch[c].pc = "acked"
          /\ patch[r].workspace = patch[c].workspace
          /\ patch[c].at <= patch[r].from
          => patch[r].row[k] = c \/ Overwritten(c, k)

LEMMA Accounted ==
  ASSUME UpdatesLostToOverlapOnly, NEW c \in Clients, NEW k \in patch[c].sets,
         patch[c].pc = "acked"
  PROVE  values[patch[c].workspace][k] = c \/ Overwritten(c, k)
  BY DEF UpdatesLostToOverlapOnly, Overwritten

LEMMA PatchStep == TypeOK /\ PatchInv /\ [Next]_vars => PatchInv'
<1> SUFFICES ASSUME TypeOK, PatchInv, [Next]_vars PROVE PatchInv'
  OBVIOUS
<1>1. ASSUME UNCHANGED patchVars PROVE PatchInv'
  BY <1>1 DEF PatchInv, UpdatesLostToOverlapOnly, Overwritten, patchVars
<1>2. ASSUME NEW r \in Clients, NEW w \in Workspaces, ReadWorkspace(r, w) PROVE PatchInv'
  <2>1. PICK S \in SUBSET Columns :
           patch' = [patch EXCEPT ![r] = [NewPatch EXCEPT !.pc = "read", !.workspace = w,
                                          !.sets = S, !.row = values[w], !.from = writes]]
    BY <1>2 DEF ReadWorkspace
  <2>2. UNCHANGED <<values, writes>> /\ patch[r].pc = "new"
    BY <1>2 DEF ReadWorkspace
  <2>3. /\ patch'[r].pc = "read" /\ patch'[r].workspace = w
        /\ patch'[r].row = values[w] /\ patch'[r].from = writes
        /\ \A c \in Clients : c # r => patch'[c] = patch[c]
    BY <2>1 DEF NewPatch, TypeOK
  <2>4. \A c \in Clients : patch'[c].pc = "acked" => c # r /\ patch[c].pc = "acked"
    BY <2>3
  <2>5. \A c \in Clients, k \in Columns :
           patch[c].pc = "acked" /\ Overwritten(c, k) => Overwritten(c, k)'
    BY <2>2, <2>3 DEF Overwritten
  <2>6. ASSUME NEW c \in Clients, NEW k \in patch'[c].sets, patch'[c].pc = "acked"
        PROVE  values'[patch'[c].workspace][k] = c \/ Overwritten(c, k)'
    <3>1. c # r /\ patch[c].pc = "acked" /\ patch'[c] = patch[c] /\ k \in patch[c].sets
      BY <2>3, <2>4, <2>6
    <3>2. k \in Columns
      BY <3>1 DEF TypeOK
    <3>3. values[patch[c].workspace][k] = c \/ Overwritten(c, k)
      BY <3>1, Accounted DEF PatchInv
    <3> QED
      BY <2>2, <2>5, <3>1, <3>2, <3>3
  <2>7. \A c \in Clients : \A k \in patch'[c].sets :
           patch'[c].pc = "acked" /\ w = patch'[c].workspace
           => patch'[r].row[k] = c \/ Overwritten(c, k)'
    BY <2>2, <2>3, <2>6
  <2>8. \A q, c \in Clients : \A k \in patch'[c].sets :
           /\ q # r
           /\ patch'[q].pc = "read" /\ patch'[c].pc = "acked"
           /\ patch'[q].workspace = patch'[c].workspace
           /\ patch'[c].at <= patch'[q].from
           => patch'[q].row[k] = c \/ Overwritten(c, k)'
    BY <2>3, <2>4, <2>5 DEF PatchInv, TypeOK
  <2>9. \A c \in Clients : patch'[c].pc = "acked" => patch'[c].at <= writes'
    BY <2>2, <2>3, <2>4 DEF PatchInv
  <2>10. \A c \in Clients : patch'[c].pc = "read" => patch'[c].from <= writes'
    <3>1. writes \in Nat
      BY DEF TypeOK
    <3> QED
      BY <2>2, <2>3, <3>1 DEF PatchInv
  <2>11. UpdatesLostToOverlapOnly'
    BY <2>6 DEF UpdatesLostToOverlapOnly, Overwritten
  <2>12. \A q, c \in Clients : \A k \in patch'[c].sets :
           /\ patch'[q].pc = "read" /\ patch'[c].pc = "acked"
           /\ patch'[q].workspace = patch'[c].workspace
           /\ patch'[c].at <= patch'[q].from
           => patch'[q].row[k] = c \/ Overwritten(c, k)'
    BY <2>3, <2>7, <2>8
  <2> QED
    BY <2>9, <2>10, <2>11, <2>12 DEF PatchInv
<1>3. ASSUME NEW r \in Clients, WriteWorkspace(r) PROVE PatchInv'
  <2>1. CASE patch[r].workspace \notin workspaces
    <3>1. /\ patch[r].pc = "read" /\ patch'[r].pc = "failed" /\ UNCHANGED <<values, writes>>
          /\ \A c \in Clients : c # r => patch'[c] = patch[c]
      BY <1>3, <2>1 DEF WriteWorkspace, TypeOK
    <3>2. \A c \in Clients : patch'[c].pc = "acked" => c # r
      BY <3>1
    <3>3. \A c \in Clients, k \in Columns :
             patch[c].pc = "acked" /\ Overwritten(c, k) => Overwritten(c, k)'
      BY <3>1 DEF Overwritten
    <3>4. UpdatesLostToOverlapOnly'
      <4>1. ASSUME NEW c \in Clients, NEW k \in patch'[c].sets, patch'[c].pc = "acked"
            PROVE  values'[patch'[c].workspace][k] = c \/ Overwritten(c, k)'
        <5>1. patch[c].pc = "acked" /\ patch'[c] = patch[c] /\ k \in patch[c].sets
          BY <3>1, <3>2, <4>1
        <5>2. k \in Columns
          BY <5>1 DEF TypeOK
        <5>3. values[patch[c].workspace][k] = c \/ Overwritten(c, k)
          BY <5>1, Accounted DEF PatchInv
        <5> QED
          BY <3>1, <3>3, <5>1, <5>2, <5>3
      <4> QED
        BY <4>1 DEF UpdatesLostToOverlapOnly, Overwritten
    <3>5. \A q, c \in Clients : \A k \in patch'[c].sets :
             /\ patch'[q].pc = "read" /\ patch'[c].pc = "acked"
             /\ patch'[q].workspace = patch'[c].workspace
             /\ patch'[c].at <= patch'[q].from
             => patch'[q].row[k] = c \/ Overwritten(c, k)'
      <4> SUFFICES ASSUME NEW q \in Clients, NEW c \in Clients, NEW k \in patch'[c].sets,
                          patch'[q].pc = "read", patch'[c].pc = "acked",
                          patch'[q].workspace = patch'[c].workspace,
                          patch'[c].at <= patch'[q].from
                   PROVE  patch'[q].row[k] = c \/ Overwritten(c, k)'
        OBVIOUS
      <4>1. patch'[q] = patch[q] /\ patch'[c] = patch[c]
        BY <3>1
      <4>2. k \in Columns
        BY <4>1 DEF TypeOK
      <4>3. patch[q].row[k] = c \/ Overwritten(c, k)
        BY <4>1 DEF PatchInv
      <4> QED
        BY <3>3, <4>1, <4>2, <4>3
    <3>6. \A c \in Clients : /\ patch'[c].pc = "acked" => patch'[c].at <= writes'
                             /\ patch'[c].pc = "read" => patch'[c].from <= writes'
      BY <3>1 DEF PatchInv
    <3> QED
      BY <3>4, <3>5, <3>6 DEF PatchInv
  <2>2. CASE patch[r].workspace \in workspaces
    <3> DEFINE w == patch[r].workspace
    <3>1. /\ patch[r].pc = "read" /\ writes' = writes + 1 /\ writes \in Nat
          /\ w \in Workspaces
          /\ values' = [values EXCEPT ![w] = Merged(r)]
          /\ patch' = [patch EXCEPT ![r].pc = "acked", ![r].at = writes + 1]
      BY <1>3, <2>2 DEF WriteWorkspace, TypeOK
    <3>2. /\ patch'[r].pc = "acked" /\ patch'[r].at = writes + 1
          /\ patch'[r].workspace = w /\ patch'[r].sets = patch[r].sets
          /\ patch'[r].from = patch[r].from
          /\ \A c \in Clients : c # r => patch'[c] = patch[c]
      BY <3>1 DEF TypeOK
    <3>3. \A c \in Clients : patch[c].pc = "acked" => patch[c].at <= writes /\ patch[c].at \in Nat
      BY DEF PatchInv, TypeOK
    <3>4. \A c \in Clients, k \in Columns :
             patch[c].pc = "acked" /\ Overwritten(c, k) => Overwritten(c, k)'
      BY <3>1, <3>2 DEF Overwritten
    <3>5. /\ \A k \in Columns : values'[w][k] = Merged(r)[k]
          /\ \A v \in Workspaces : v # w => values'[v] = values[v]
      BY <3>1 DEF TypeOK
    <3>6. ASSUME NEW c \in Clients, c # r, patch[c].pc = "acked", patch[c].workspace = w,
                 NEW k \in patch[c].sets
          PROVE  values'[w][k] = c \/ Overwritten(c, k)'
      <4>1. k \in Columns
        BY DEF TypeOK
      <4>2. CASE k \in patch[r].sets \/ patch[r].from < patch[c].at
        <5>1. patch'[c] = patch[c] /\ patch'[r].at > patch'[c].at
          <6>1. patch'[c] = patch[c] /\ patch'[r].at = writes + 1 /\ writes \in Nat
            BY <3>1, <3>2, <3>6
          <6>2. patch[c].at <= writes /\ patch[c].at \in Nat
            BY <3>3, <3>6
          <6> QED
            BY <6>1, <6>2
        <5>2. k \in patch'[r].sets \/ patch'[r].from < patch'[c].at
          BY <3>2, <4>2, <5>1
        <5>3. r \in Clients \ {c} /\ patch'[r].pc = "acked" /\ patch'[r].workspace = patch'[c].workspace
          BY <3>2, <3>6, <5>1
        <5> QED
          BY <5>1, <5>2, <5>3 DEF Overwritten
      <4>3. CASE ~(k \in patch[r].sets \/ patch[r].from < patch[c].at)
        <5>1. values'[w][k] = patch[r].row[k]
          BY <3>5, <4>1, <4>3 DEF Merged
        <5>2. patch[c].at <= patch[r].from
          BY <4>3 DEF TypeOK
        <5>3. patch[r].row[k] = c \/ Overwritten(c, k)
          BY <3>1, <3>6, <5>2 DEF PatchInv
        <5> QED
          BY <3>4, <3>6, <4>1, <5>1, <5>3
      <4> QED
        BY <4>2, <4>3
    <3>7. \A k \in patch[r].sets : values'[w][k] = r
      BY <3>5 DEF Merged, TypeOK
    <3>8. ASSUME NEW c \in Clients, patch'[c].pc = "acked", NEW k \in patch'[c].sets
          PROVE  values'[patch'[c].workspace][k] = c \/ Overwritten(c, k)'
      <4>1. CASE c = r
        BY <3>2, <3>7, <3>8, <4>1
      <4>2. CASE c # r /\ patch[c].workspace = w
        BY <3>2, <3>6, <3>8, <4>2
      <4>3. CASE c # r /\ patch[c].workspace # w
        <5>1. /\ patch[c].pc = "acked" /\ k \in patch[c].sets
              /\ values[patch[c].workspace][k] = c \/ Overwritten(c, k)
          BY <3>2, <3>8, <4>3, Accounted DEF PatchInv
        <5>2. values'[patch[c].workspace] = values[patch[c].workspace]
          BY <3>1, <4>3 DEF TypeOK
        <5> QED
          BY <3>2, <3>4, <4>3, <5>1, <5>2 DEF TypeOK
      <4> QED
        BY <4>1, <4>2, <4>3
    <3>9. \A q, c \in Clients : \A k \in patch'[c].sets :
             /\ patch'[q].pc = "read" /\ patch'[c].pc = "acked"
             /\ patch'[q].workspace = patch'[c].workspace
             /\ patch'[c].at <= patch'[q].from
             => patch'[q].row[k] = c \/ Overwritten(c, k)'
      <4> SUFFICES ASSUME NEW q \in Clients, NEW c \in Clients, NEW k \in patch'[c].sets,
                          patch'[q].pc = "read", patch'[c].pc = "acked",
                          patch'[q].workspace = patch'[c].workspace,
                          patch'[c].at <= patch'[q].from
                   PROVE  patch'[q].row[k] = c \/ Overwritten(c, k)'
        OBVIOUS
      <4>1. q # r /\ patch'[q] = patch[q]
        BY <3>2
      <4>2. CASE c = r
        <5>1. patch[q].from <= writes
          BY <4>1 DEF PatchInv
        <5> QED
          BY <3>1, <3>2, <4>1, <4>2, <5>1 DEF TypeOK
      <4>3. CASE c # r
        BY <3>2, <3>4, <4>1, <4>3 DEF PatchInv, TypeOK
      <4> QED
        BY <4>2, <4>3
    <3>10. ASSUME NEW c \in Clients
           PROVE  /\ patch'[c].pc = "acked" => patch'[c].at <= writes'
                  /\ patch'[c].pc = "read" => patch'[c].from <= writes'
      <4>1. CASE c = r
        BY <3>1, <3>2, <4>1
      <4>2. CASE c # r
        BY <3>1, <3>2, <4>2 DEF PatchInv, TypeOK
      <4> QED
        BY <4>1, <4>2
    <3>11. UpdatesLostToOverlapOnly'
      BY <3>8 DEF UpdatesLostToOverlapOnly, Overwritten
    <3> QED
      BY <3>9, <3>10, <3>11 DEF PatchInv
  <2> QED
    BY <2>1, <2>2
<1>4. ASSUME \/ \E d \in Datasets : Uploading(d) \/ Ages(d) \/ DeleteDataset(d)
             \/ \E w \in Workspaces : CreateWorkspace(w) \/ DeleteWorkspace(w)
             \/ \E j \in Jobs, w \in Workspaces, d \in Datasets : CreateJob(j, w, d)
             \/ CleanupStaleDatasetsInitiated \/ UNCHANGED vars
      PROVE  UNCHANGED patchVars
  BY <1>4 DEF Uploading, InitiateUpload, StartPut, FinishPut, RefusePut, SkipPut, CompleteUpload,
              ClientStops, Ages, DeleteDataset, CreateWorkspace, DeleteWorkspace, CreateJob,
              CleanupStaleDatasetsInitiated, vars
<1> QED
  BY <1>1, <1>2, <1>3, <1>4 DEF Next

\* For every number of requests and columns: an acknowledged PATCH loses a value
\* only to a request that set the same column later, or that read the row
\* before it and wrote all columns after it.
THEOREM UpdatesAreLostToOverlapOnly == Spec => []UpdatesLostToOverlapOnly
<1>1. Init => PatchInv
  BY DEF Init, PatchInv, UpdatesLostToOverlapOnly, NewPatch
<1>2. PatchInv => UpdatesLostToOverlapOnly
  BY DEF PatchInv
<1> QED
  BY <1>1, <1>2, PatchStep, CatalogTypes, PTL DEF Spec
=============================================================================
