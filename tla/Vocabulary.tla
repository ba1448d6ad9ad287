------------------------------- MODULE Vocabulary -------------------------------
(***************************************************************************)
(* The vocabularies CLIP classifies with: the tables template_tags and      *)
(* template_categories, the files computed from each (the vectors of the    *)
(* prompts, the names in the same order, the hash of the CLIP model), the   *)
(* threads that recompute them after an edit (recompute_tasks.py), the      *)
(* installer (install.py), the start of the API (main.py) and the CLIP      *)
(* worker that loads the files and pairs the i-th vector with the i-th name *)
(* (clip.py, clip_queue.py).                                                *)
(*                                                                         *)
(* No lock guards the files: every step below is one file or one commit.    *)
(***************************************************************************)
EXTENDS Naturals, Sequences, SequencesExt

CONSTANTS
    Name,        \* entries of a table: a name with its prompt
    Defaults,    \* the shipped entries, in order
    Model,       \* values of CLIP_MODEL and PRETRAINED in .env
    FirstModel,
    NoFile, NoModel,
    MaxEdits,    \* bound: edits of a table through the API
    MaxSwitches, \* bound: changes of the model in .env
    MaxFaults    \* bound: failed recomputations, and ends of a process

Kind == {"tags", "categories"}
Listed(seq) == {seq[i] : i \in DOMAIN seq}
\* Entries in the order of their rows; a name is taken once.
Lists == {seq \in Seq(Name) : \A i, j \in DOMAIN seq : i # j => seq[i] # seq[j]}

ASSUME VocabularyAssumption ==
    /\ Defaults \in Lists /\ Defaults # <<>>
    /\ FirstModel \in Model /\ NoModel \notin Model
    /\ NoFile \notin Lists /\ NoFile \notin [list : Lists, of : Model]
    /\ MaxEdits \in Nat /\ MaxSwitches \in Nat /\ MaxFaults \in Nat

VARIABLES
    rows,     \* kind -> the table, by id
    seeded,   \* ModelState "categories" is "ready"
    vectors,  \* kind -> tags.npy, categories.npy: the list and the model they are of
    names,    \* kind -> tags_names.json, categories_names.json
    hash,     \* kind -> the model in the hash file
    status,   \* kind -> ModelState "clip_tags", "clip_categories"
    model,    \* the model in .env
    api,      \* the backend: "down", "starting", "up"
    boot,     \* what seeds and installs: the startup, or the installer
    writer,   \* who computes files: threads by number, the installer, the worker
    worker,   \* the CLIP worker and what it has loaded
    calm,     \* auxiliary: no computation met a load, another, the first seeding of its
              \* table or an empty one, was cut or failed
    cut,      \* auxiliary: a process ended with a recomputation under way
    editsLeft, switchesLeft, faultsLeft

files == <<vectors, names, hash>>
tables == <<rows, seeded>>
bounds == <<editsLeft, switchesLeft, faultsLeft>>
vars == <<tables, files, status, model, api, boot, writer, worker, calm, cut, bounds>>

Thread == 1..MaxEdits
Installer == MaxEdits + 1
Clip == MaxEdits + 2
Writer == 1..MaxEdits + 2
Idle == [at |-> "none", kind |-> "tags", list |-> <<>>]
NoBoot == [at |-> "none", for |-> "api", todo |-> <<>>]
Nothing == [k \in Kind |-> NoFile]

BootStage == {"none", "categories", "tags", "tag_names", "category_names", "check",
              "vocabulary", "compute_tags", "compute_categories"}
WriterStage == {"none", "new", "read", "vectors", "names", "hash"}
WorkerStage == {"down", "features", "labels", "categories", "category_names", "computing",
                "serving"}
Vectors == [list : Lists, of : Model]
Boots == [at : BootStage, for : {"api", "installer"}, todo : Lists]
Tasks == [at : WriterStage, kind : Kind, list : Lists]
Workers == [at : WorkerStage, features : [Kind -> Vectors \cup {NoFile}],
            labels : [Kind -> Lists \cup {NoFile}]]
TypeOK ==
    /\ rows \in [Kind -> Lists] /\ seeded \in BOOLEAN
    /\ vectors \in [Kind -> Vectors \cup {NoFile}]
    /\ names \in [Kind -> Lists \cup {NoFile}]
    /\ hash \in [Kind -> Model \cup {NoModel}]
    /\ status \in [Kind -> {"ready", "recomputing", "error"}]
    /\ model \in Model /\ api \in {"down", "starting", "up"}
    /\ boot \in Boots /\ writer \in [Writer -> Tasks] /\ worker \in Workers
    /\ calm \in BOOLEAN /\ cut \in BOOLEAN
    /\ editsLeft \in 0..MaxEdits /\ switchesLeft \in 0..MaxSwitches
    /\ faultsLeft \in 0..MaxFaults

\* init_db: empty tables, the status rows "ready", no file.
Init ==
    /\ rows = [k \in Kind |-> <<>>] /\ seeded = FALSE
    /\ vectors = Nothing /\ names = Nothing
    /\ hash = [k \in Kind |-> NoModel] /\ status = [k \in Kind |-> "ready"]
    /\ model = FirstModel /\ api = "down" /\ boot = NoBoot
    /\ writer = [w \in Writer |-> Idle]
    /\ worker = [at |-> "down", features |-> Nothing, labels |-> Nothing]
    /\ calm = TRUE /\ cut = FALSE
    /\ editsLeft = MaxEdits /\ switchesLeft = MaxSwitches /\ faultsLeft = MaxFaults

Computing(k) == \E w \in Writer : writer[w].at # "none" /\ writer[w].kind = k
\* The worker is between its first and its last look at the files of a kind.
Loading(k) == \/ k = "tags" /\ worker.at = "labels"
              \/ k = "categories" /\ worker.at \in {"category_names", "computing"}

--------------------------------------------------------------------------------
(* Seeding: seed_template_vocabularies, at every start and in the installer *)
WithEntry(list, n) == IF n \in Listed(list) THEN list ELSE Append(list, n)
BootStep(at, todo) == boot' = [boot EXCEPT !.at = at, !.todo = todo]

StartApi ==
    /\ api = "down" /\ boot.at = "none"
    /\ api' = "starting"
    /\ boot' = [at |-> "categories", for |-> "api", todo |-> IF seeded THEN <<>> ELSE Defaults]
    /\ worker' = [at |-> "features", features |-> Nothing, labels |-> Nothing]
    /\ UNCHANGED <<tables, files, status, model, writer, calm, cut, bounds>>

StartInstaller ==
    /\ api = "down" /\ boot.at = "none"
    /\ boot' = [at |-> "categories", for |-> "installer",
                todo |-> IF seeded THEN <<>> ELSE Defaults]
    /\ UNCHANGED <<tables, files, status, model, api, writer, worker, calm, cut, bounds>>

\* get_or_create_template_*: one commit for each entry, which is added if it is not there.
SeedRow(k, at) ==
    /\ boot.at = at /\ boot.todo # <<>>
    /\ rows' = [rows EXCEPT ![k] = WithEntry(@, Head(boot.todo))]
    /\ BootStep(at, Tail(boot.todo))
    /\ UNCHANGED <<seeded, files, status, model, api, writer, worker, calm, cut, bounds>>

\* Tags are seeded when there is none.
CategoriesSeeded ==
    /\ boot.at = "categories" /\ boot.todo = <<>>
    /\ seeded' = TRUE
    /\ BootStep("tags", IF rows["tags"] = <<>> THEN Defaults ELSE <<>>)
    /\ UNCHANGED <<rows, files, status, model, api, writer, worker, calm, cut, bounds>>

TagsSeeded ==
    /\ boot.at = "tags" /\ boot.todo = <<>>
    /\ BootStep("tag_names", <<>>)
    /\ UNCHANGED <<tables, files, status, model, api, writer, worker, calm, cut, bounds>>

\* ensure_clip_name_files: the names of a table that is not empty.
EnsureNames(k) ==
    names' = IF rows[k] = <<>> THEN names ELSE [names EXCEPT ![k] = rows[k]]

EnsureTagNames ==
    /\ boot.at = "tag_names"
    /\ EnsureNames("tags")
    /\ BootStep("category_names", <<>>)
    /\ UNCHANGED <<tables, vectors, hash, status, model, api, writer, worker, calm, cut, bounds>>

EnsureCategoryNames ==
    /\ boot.at = "category_names"
    /\ EnsureNames("categories")
    /\ IF boot.for = "api" THEN api' = "up" /\ boot' = NoBoot
       ELSE UNCHANGED api /\ BootStep("check", <<>>)
    /\ UNCHANGED <<tables, vectors, hash, status, model, writer, worker, calm, cut, bounds>>

--------------------------------------------------------------------------------
(* install_clip *)
\* The categories' hash file is written by nothing, so their cache is never valid.
CacheValid(k) == k = "tags" /\ vectors[k] # NoFile /\ hash[k] = model

\* Files of a cache that is not valid are removed.
CheckCaches ==
    /\ boot.at = "check"
    /\ vectors' = [k \in Kind |-> IF CacheValid(k) THEN vectors[k] ELSE NoFile]
    /\ hash' = [k \in Kind |-> IF CacheValid(k) THEN hash[k] ELSE NoModel]
    /\ IF CacheValid("tags") THEN BootStep("compute_categories", <<>>)
       ELSE BootStep("vocabulary", Defaults)
    /\ UNCHANGED <<tables, names, status, model, api, writer, worker, calm, cut, bounds>>

Compute(w, k) == writer' = [writer EXCEPT ![w] = [at |-> "read", kind |-> k, list |-> <<>>]]

VocabularySeeded ==
    /\ boot.at = "vocabulary" /\ boot.todo = <<>>
    /\ BootStep("compute_tags", <<>>)
    /\ Compute(Installer, "tags")
    /\ UNCHANGED <<tables, files, status, model, api, worker, calm, cut, bounds>>

InstallerGoesOn ==
    /\ writer[Installer].at = "none"
    /\ \/ /\ boot.at = "compute_tags"
          /\ BootStep("compute_categories", <<>>)
          /\ UNCHANGED writer
       \/ /\ boot.at = "compute_categories" /\ writer[Installer].kind = "tags"
          /\ Compute(Installer, "categories")
          /\ UNCHANGED boot
       \/ /\ boot.at = "compute_categories" /\ writer[Installer].kind = "categories"
          /\ boot' = NoBoot
          /\ writer' = [writer EXCEPT ![Installer] = Idle]
    /\ UNCHANGED <<tables, files, status, model, api, worker, calm, cut, bounds>>

--------------------------------------------------------------------------------
(* Edits and the threads they start *)
\* Mutant: no recomputation is started.
EditOnly(k, list) ==
    /\ rows' = [rows EXCEPT ![k] = list]
    /\ calm' = (calm /\ ~Computing(k) /\ ~Loading(k) /\ list # <<>>)
    /\ UNCHANGED <<writer, files>>

\* The commit, and the thread: create, update and delete end the same way.
Edit(k, list) ==
    /\ rows' = [rows EXCEPT ![k] = list]
    /\ writer' = [writer EXCEPT ![editsLeft] = [at |-> "new", kind |-> k, list |-> <<>>]]
    /\ calm' = (calm /\ ~Computing(k) /\ ~Loading(k) /\ list # <<>>)
    /\ UNCHANGED files

Editing ==
    /\ api = "up" /\ editsLeft > 0
    /\ editsLeft' = editsLeft - 1
    /\ UNCHANGED <<seeded, status, model, api, boot, worker, cut, switchesLeft, faultsLeft>>

\* A name that is taken is refused by the table.
CreateTemplate(k, n) ==
    Editing /\ n \notin Listed(rows[k]) /\ Edit(k, Append(rows[k], n))
UpdateTemplate(k, i, n) ==
    /\ Editing /\ i \in DOMAIN rows[k] /\ n \notin Listed(rows[k])
    /\ Edit(k, [rows[k] EXCEPT ![i] = n])
DeleteTemplate(k, i) ==
    Editing /\ i \in DOMAIN rows[k] /\ Edit(k, RemoveAt(rows[k], i))

RecomputeStarts(j) ==
    /\ writer[j].at = "new"
    /\ status' = [status EXCEPT ![writer[j].kind] = "recomputing"]
    /\ writer' = [writer EXCEPT ![j].at = "read"]
    /\ UNCHANGED <<tables, files, model, api, boot, worker, calm, cut, bounds>>

\* Without open_clip the thread ends before its first step, and says nothing.
ImportFails(j) ==
    /\ writer[j].at = "new" /\ faultsLeft > 0
    /\ writer' = [writer EXCEPT ![j] = Idle]
    /\ calm' = FALSE
    /\ faultsLeft' = faultsLeft - 1
    /\ UNCHANGED <<tables, files, status, model, api, boot, worker, cut, editsLeft, switchesLeft>>

\* Mutant: the failure is logged only.
FailQuietly(j) ==
    /\ writer[j].at \in {"read", "vectors", "names", "hash"} /\ faultsLeft > 0
    /\ writer' = [writer EXCEPT ![j] = Idle]
    /\ calm' = FALSE
    /\ faultsLeft' = faultsLeft - 1
    /\ UNCHANGED <<tables, files, status, model, api, boot, worker, cut, editsLeft, switchesLeft>>

\* The model does not load, a prompt cannot be encoded, a file cannot be written.
RecomputeFails(j) ==
    /\ writer[j].at \in {"read", "vectors", "names", "hash"} /\ faultsLeft > 0
    /\ status' = [status EXCEPT ![writer[j].kind] = "error"]
    /\ writer' = [writer EXCEPT ![j] = Idle]
    /\ calm' = FALSE
    /\ faultsLeft' = faultsLeft - 1
    /\ UNCHANGED <<tables, files, model, api, boot, worker, cut, editsLeft, switchesLeft>>

--------------------------------------------------------------------------------
(* compute_embeddings_*_from_db, by a thread, the installer or the worker *)
WriterStep(w, at) == writer' = [writer EXCEPT ![w].at = at]

\* An empty table is skipped.
ReadRows(w) ==
    /\ writer[w].at = "read"
    /\ LET list == rows[writer[w].kind]
       IN  writer' = [writer EXCEPT ![w].list = list,
                                    ![w].at = IF list = <<>> THEN "hash" ELSE "vectors"]
    /\ UNCHANGED <<tables, files, status, model, api, boot, worker, calm, cut, bounds>>

SaveVectors(w) ==
    /\ writer[w].at = "vectors"
    /\ vectors' = [vectors EXCEPT ![writer[w].kind] = [list |-> writer[w].list, of |-> model]]
    /\ WriterStep(w, "names")
    /\ UNCHANGED <<tables, names, hash, status, model, api, boot, worker, calm, cut, bounds>>

\* Mutant: the names are written from what the file held.
SaveOldNames(w) ==
    /\ writer[w].at = "names"
    /\ WriterStep(w, "hash")
    /\ UNCHANGED <<tables, files, status, model, api, boot, worker, calm, cut, bounds>>

SaveNames(w) ==
    /\ writer[w].at = "names"
    /\ names' = [names EXCEPT ![writer[w].kind] = writer[w].list]
    /\ WriterStep(w, "hash")
    /\ UNCHANGED <<tables, vectors, hash, status, model, api, boot, worker, calm, cut, bounds>>

\* Mutant: only the installer writes the hash.
SaveNoHash(w) ==
    /\ writer[w].at = "hash" /\ w # Clip
    /\ hash' = IF w = Installer THEN [hash EXCEPT ![writer[w].kind] = model] ELSE hash
    /\ status' = IF w \in Thread THEN [status EXCEPT ![writer[w].kind] = "ready"] ELSE status
    /\ WriterStep(w, "none")
    /\ UNCHANGED <<tables, vectors, names, model, api, boot, worker, calm, cut, bounds>>

\* A thread ends with the status; the worker goes on to load what it saved.
SaveHash(w) ==
    /\ writer[w].at = "hash" /\ w # Clip
    /\ hash' = [hash EXCEPT ![writer[w].kind] = model]
    /\ status' = IF w \in Thread THEN [status EXCEPT ![writer[w].kind] = "ready"] ELSE status
    /\ WriterStep(w, "none")
    /\ UNCHANGED <<tables, vectors, names, model, api, boot, worker, calm, cut, bounds>>

--------------------------------------------------------------------------------
(* The CLIP worker: load_tags, then load_or_compute_categories *)
WorkerOnly == UNCHANGED <<tables, files, status, model, api, boot, cut, bounds>>

LoadTagVectors ==
    /\ worker.at = "features"
    /\ worker' = [worker EXCEPT !.at = "labels", !.features["tags"] = vectors["tags"]]
    /\ calm' = (calm /\ ~Computing("tags"))
    /\ UNCHANGED writer /\ WorkerOnly

\* Without the names, the downloaded vocabulary.
LoadTagNames ==
    /\ worker.at = "labels"
    /\ worker' = [worker EXCEPT !.at = "categories",
                    !.labels["tags"] = IF names["tags"] = NoFile THEN Defaults ELSE names["tags"]]
    /\ UNCHANGED <<writer, calm>> /\ WorkerOnly

\* With both files they are loaded; else the worker computes them, if there is a row.
LoadCategoryVectors ==
    /\ worker.at = "categories"
    /\ calm' = (calm /\ ~Computing("categories") /\ (seeded \/ rows["categories"] = <<>>))
    /\ IF vectors["categories"] # NoFile /\ names["categories"] # NoFile
       THEN /\ worker' = [worker EXCEPT !.at = "category_names",
                                        !.features["categories"] = vectors["categories"]]
            /\ UNCHANGED writer
       ELSE IF rows["categories"] = <<>>  \* and so is the legacy table, taken here as empty
       THEN worker' = [worker EXCEPT !.at = "serving"] /\ UNCHANGED writer
       ELSE /\ worker' = [worker EXCEPT !.at = "computing"]
            /\ writer' = [writer EXCEPT ![Clip] =
                            [at |-> "vectors", kind |-> "categories", list |-> rows["categories"]]]
    /\ WorkerOnly

LoadCategoryNames ==
    /\ worker.at = "category_names"
    /\ worker' = [worker EXCEPT !.at = "serving", !.labels["categories"] = names["categories"]]
    /\ UNCHANGED <<writer, calm>> /\ WorkerOnly

LoadComputed ==
    /\ worker.at = "computing" /\ writer[Clip].at = "hash"
    /\ worker' = [worker EXCEPT !.at = "serving",
                                !.features["categories"] = vectors["categories"],
                                !.labels["categories"] = writer[Clip].list]
    /\ writer' = [writer EXCEPT ![Clip] = Idle]
    /\ UNCHANGED calm /\ WorkerOnly

\* warmup_clip_model: what was loaded is dropped.
Warmup ==
    /\ worker.at = "serving"
    /\ worker' = [at |-> "features", features |-> Nothing, labels |-> Nothing]
    /\ UNCHANGED <<writer, calm>> /\ WorkerOnly

--------------------------------------------------------------------------------
(* The application or the installer ends, in whatever step it is *)
Stop ==
    /\ api # "down" \/ boot.at # "none"
    /\ faultsLeft > 0 /\ faultsLeft' = faultsLeft - 1
    /\ api' = "down" /\ boot' = NoBoot
    /\ writer' = [w \in Writer |-> Idle]
    /\ worker' = [at |-> "down", features |-> Nothing, labels |-> Nothing]
    /\ calm' = (calm /\ \A w \in Writer : writer[w].at = "none")
    /\ cut' = (cut \/ \E j \in Thread : writer[j].at # "none")
    /\ UNCHANGED <<tables, files, status, model, editsLeft, switchesLeft>>

SwitchModel(m) ==
    /\ api = "down" /\ boot.at = "none" /\ switchesLeft > 0 /\ m # model
    /\ model' = m /\ switchesLeft' = switchesLeft - 1
    /\ UNCHANGED <<tables, files, status, api, boot, writer, worker, calm, cut,
                   editsLeft, faultsLeft>>

Next ==
    \/ StartApi \/ StartInstaller
    \/ SeedRow("categories", "categories") \/ SeedRow("tags", "tags")
    \/ SeedRow("tags", "vocabulary")
    \/ CategoriesSeeded \/ TagsSeeded \/ EnsureTagNames \/ EnsureCategoryNames
    \/ CheckCaches \/ VocabularySeeded \/ InstallerGoesOn
    \/ \E k \in Kind :
          \/ \E n \in Name : CreateTemplate(k, n)
          \/ \E i \in DOMAIN rows[k] :
                DeleteTemplate(k, i) \/ \E n \in Name : UpdateTemplate(k, i, n)
    \/ \E j \in Thread : RecomputeStarts(j) \/ ImportFails(j) \/ RecomputeFails(j)
    \/ \E w \in Writer : ReadRows(w) \/ SaveVectors(w) \/ SaveNames(w) \/ SaveHash(w)
    \/ LoadTagVectors \/ LoadTagNames \/ LoadCategoryVectors \/ LoadCategoryNames
    \/ LoadComputed \/ Warmup
    \/ Stop \/ \E m \in Model : SwitchModel(m)

Spec == Init /\ [][Next]_vars

--------------------------------------------------------------------------------
(* Properties *)
\* Whether a backend serves or not, the vectors of a kind and its names are of one list,
\* and that list is the table, unless a computation failed, was cut short, or met another
\* one, a load of the same files or the first seeding, or a table was emptied.
FilesAgree ==
    calm => \A k \in Kind : vectors[k] # NoFile /\ ~Computing(k) =>
                vectors[k].list = names[k] /\ names[k] = rows[k]

\* Under the same conditions the worker gives every vector its own name, whatever
\* edits, restarts, installs and warmups there were since it loaded them.
WorkerPairs ==
    calm /\ worker.at = "serving" =>
        \A k \in Kind : worker.features[k] # NoFile =>
            worker.features[k].list = worker.labels[k]

\* A hash file beside vectors names the model they were computed with, so a cache the
\* installer keeps is a cache of the current model.
HashNamesModel ==
    calm => \A k \in Kind : vectors[k] # NoFile /\ hash[k] # NoModel /\ ~Computing(k) =>
                hash[k] = vectors[k].of

\* A vocabulary is shown as recomputing only while a thread recomputes it, or after a
\* process that ended with one.
StatusSettles ==
    ~cut => \A k \in Kind : status[k] = "recomputing" =>
                \E j \in Thread : writer[j].at \notin {"none", "new"} /\ writer[j].kind = k

================================================================================
