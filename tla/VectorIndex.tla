------------------------------ MODULE VectorIndex ------------------------------
(***************************************************************************)
(* The semantic index: the rows of photo_embedding_map, the vectors of     *)
(* photo_embeddings_vss that share their row numbers, and the writers that *)
(* replace the vector of a photo (vector_db_services.py,                   *)
(* tasks/embedding_tasks.py).                                              *)
(*                                                                         *)
(* A store is several transactions: the vectors and rows of the photo are  *)
(* dropped, a new row is inserted, the vector is inserted under the number *)
(* of that row.  Row numbers are reused: SQLite gives a new row the number *)
(* after the largest one in the table.  A writer of Run works for an       *)
(* admitted run, of which PipelineQueue allows one per photo; the others   *)
(* are the re-index requests, which nothing serialises.  A vector carries  *)
(* the photo and which of its texts it was made from: the text of a        *)
(* document is stored through the same operation as the description.  The  *)
(* model's name in a row of the map is left out, as no code reads it.      *)
(***************************************************************************)
EXTENDS Integers, FiniteSets

CONSTANTS
    MaxPhotos,  \* photo ids are 1 .. MaxPhotos
    MaxRows,    \* bound: row numbers of the map and of the vectors
    Writer,     \* tasks that may store a vector at the same time
    Run,        \* those among them that belong to an admitted run
    Model,      \* embedding models
    Width,      \* dimension of the vectors a model makes
    TableWidth, \* dimension the table of known models has for it
    None

ASSUME BoundsAssumption == MaxPhotos \in Nat /\ MaxRows \in Nat
ASSUME WriterAssumption == Run \subseteq Writer
ASSUME WidthAssumption == Width \in [Model -> Nat] /\ TableWidth \in [Model -> Nat]

VARIABLES
    photos,    \* ids that have a row of photos
    counted,   \* those that have a description and are not archived
    model,     \* configured embedding model
    map,       \* rows of photo_embedding_map
    vss,       \* rows of photo_embeddings_vss
    dim,       \* dimension photo_embeddings_vss was created with
    job,       \* what each writer is doing
    mishap     \* history: what has gone wrong so far, of Mishap

vars == <<photos, counted, model, map, vss, dim, job, mishap>>

PhotoId == 1 .. MaxPhotos
Row == 1 .. MaxRows

\* What is embedded: description, tags, categories and place; or the text of a document.
Text == {"description", "document"}

\* The photo and text of a vector; a row of the map is its photo.
Vector == [photo : PhotoId, of : Text]

\* A store ended between its row and its vector; a photo was deleted, or a store met a rebuild
\* or another store of its photo.
Mishap == {"halted", "clash"}

Stage == {"idle", "read", "embedded", "found", "cleared", "linked", "mismatch", "rebuilt"}

ASSUME NoneAssumption == None \notin Model \cup PhotoId \cup Vector

\* A task's photo and text, the model its vector was made with, the rows of the photo it found
\* and the row it added.
Job == [stage : Stage, photo : PhotoId \cup {None}, of : Text, model : Model \cup {None},
        rows : SUBSET Row, row : Nat]

Idle == [stage |-> "idle", photo |-> None, of |-> "description", model |-> None,
         rows |-> {}, row |-> 0]

TypeOK ==
    /\ photos \subseteq PhotoId /\ counted \subseteq photos
    /\ model \in Model
    /\ map \in [Row -> PhotoId \cup {None}]
    /\ vss \in [Row -> Vector \cup {None}]
    /\ dim \in Nat
    /\ job \in [Writer -> Job]
    /\ mishap \subseteq Mishap

(***************************************************************************)
(* The tables.                                                             *)
(***************************************************************************)
RowsOf(p) == {i \in Row : map[i] = p}

\* The number SQLite gives the next row of the map.
IsNextRow(i) ==
    /\ \A j \in Row : map[j] # None => j < i
    /\ i > 1 => map[i - 1] # None

\* Between the first look at the photo's rows and the insertion of its vector.
Storing(w) == job[w].stage \in {"found", "cleared", "linked", "mismatch", "rebuilt"}

Empty == [i \in Row |-> None]

\* What a search can answer: the rows that have a vector under their number.
Found == {i \in Row : map[i] # None /\ vss[i] # None}

Init ==
    /\ photos = {} /\ counted = {}
    /\ model \in Model
    /\ map = Empty
    /\ vss = Empty
    /\ dim = TableWidth[model]
    /\ job = [w \in Writer |-> Idle]
    /\ mishap = {}

(***************************************************************************)
(* The photos.                                                             *)
(***************************************************************************)
\* A new photo has no description yet; SQLite gives it the number after the largest one.
AddPhoto(p) ==
    /\ p \notin photos
    /\ \A q \in photos : q < p
    /\ p > 1 => p - 1 \in photos
    /\ photos' = photos \cup {p}
    /\ UNCHANGED <<counted, model, map, vss, dim, job, mishap>>

\* The description is committed, by its task or by an edit, which may empty it; or the photo is
\* archived or brought back.  None of them touches the index: after an edit the re-embedding is
\* called with a keyword it does not have and without await.
UpdatePhoto(p) ==
    /\ p \in photos
    /\ counted' = IF p \in counted THEN counted \ {p} ELSE counted \cup {p}
    /\ UNCHANGED <<photos, model, map, vss, dim, job, mishap>>

\* The vector that goes is the one whose row number equals the photo's id.
DeletePhoto(p) ==
    /\ p \in photos
    /\ photos' = photos \ {p} /\ counted' = counted \ {p}
    /\ map' = [i \in Row |-> IF i \in RowsOf(p) THEN None ELSE map[i]]
    /\ vss' = [i \in Row |-> IF i = p THEN None ELSE vss[i]]
    /\ mishap' = mishap \cup {"clash"}
    /\ UNCHANGED <<model, dim, job>>

(***************************************************************************)
(* A writer.                                                               *)
(***************************************************************************)
\* The task reads the text.  A run starts no second task for a photo another run works on;
\* a re-index embeds the description only.
ReadText(w, p, of) ==
    /\ job[w].stage = "idle"
    /\ p \in photos
    /\ w \in Run => \A v \in Run : job[v].photo # p
    /\ of = "document" => w \in Run
    /\ job' = [job EXCEPT ![w] = [Idle EXCEPT !.stage = "read", !.photo = p, !.of = of]]
    /\ UNCHANGED <<photos, counted, model, map, vss, dim, mishap>>

\* The model call answers with a vector of the model configured when it was made.
Embed(w) ==
    /\ job[w].stage = "read"
    /\ job' = [job EXCEPT ![w].stage = "embedded", ![w].model = model]
    /\ UNCHANGED <<photos, counted, model, map, vss, dim, mishap>>

\* Mutant: nothing is looked up, as in the version that left duplicates behind.
FindNothing(w) ==
    /\ job[w].stage = "embedded"
    /\ job' = [job EXCEPT ![w].stage = "cleared"]
    /\ mishap' = IF \E v \in Writer \ {w} : job[v].photo = job[w].photo /\ Storing(v)
                 THEN mishap \cup {"clash"} ELSE mishap
    /\ UNCHANGED <<photos, counted, model, map, vss, dim>>

\* The rows of the photo are looked up before the transaction that deletes them begins.
FindExisting(w) ==
    /\ job[w].stage = "embedded"
    /\ LET rows == RowsOf(job[w].photo)
       IN job' = [job EXCEPT ![w].rows = rows,
                             ![w].stage = IF rows = {} THEN "cleared" ELSE "found"]
    /\ mishap' = IF \E v \in Writer \ {w} : job[v].photo = job[w].photo /\ Storing(v)
                 THEN mishap \cup {"clash"} ELSE mishap
    /\ UNCHANGED <<photos, counted, model, map, vss, dim>>

\* Mutant: the vectors of the dropped rows stay.
DropRowsOnly(w) ==
    /\ job[w].stage = "found"
    /\ map' = [i \in Row |-> IF i \in RowsOf(job[w].photo) THEN None ELSE map[i]]
    /\ job' = [job EXCEPT ![w].stage = "cleared"]
    /\ UNCHANGED <<photos, counted, model, vss, dim, mishap>>

DropExisting(w) ==
    /\ job[w].stage = "found"
    /\ vss' = [i \in Row |-> IF i \in job[w].rows THEN None ELSE vss[i]]
    /\ map' = [i \in Row |-> IF i \in RowsOf(job[w].photo) THEN None ELSE map[i]]
    /\ job' = [job EXCEPT ![w].stage = "cleared"]
    /\ UNCHANGED <<photos, counted, model, dim, mishap>>

LinkPhotoEmbedding(w) ==
    /\ job[w].stage = "cleared"
    /\ \E i \in Row :
        /\ IsNextRow(i)
        /\ map' = [map EXCEPT ![i] = job[w].photo]
        /\ job' = [job EXCEPT ![w].stage = "linked", ![w].row = i]
    /\ UNCHANGED <<photos, counted, model, vss, dim, mishap>>

NewVector(w) == [photo |-> job[w].photo, of |-> job[w].of]

Fits(w) == Width[job[w].model] = dim

\* The insertion of the vector, in the table as it is or in the one just rebuilt.
Inserts(w, stages) ==
    /\ job[w].stage \in stages
    /\ Fits(w) /\ vss[job[w].row] = None
    /\ vss' = [vss EXCEPT ![job[w].row] = NewVector(w)]
    /\ job' = [job EXCEPT ![w] = Idle]
    /\ UNCHANGED <<photos, counted, model, map, dim, mishap>>

SaveEmbedding(w) == Inserts(w, {"linked"})

SaveMismatch(w) ==
    /\ job[w].stage = "linked"
    /\ ~Fits(w)
    /\ job' = [job EXCEPT ![w].stage = "mismatch"]
    /\ UNCHANGED <<photos, counted, model, map, vss, dim, mishap>>

\* The table is created anew with the width of the vector, and the whole map is cleared.
Rebuild(w) ==
    /\ job[w].stage = "mismatch"
    /\ map' = Empty
    /\ vss' = Empty
    /\ dim' = Width[job[w].model]
    /\ job' = [job EXCEPT ![w].stage = "rebuilt"]
    /\ mishap' = mishap \cup {"clash"}
    /\ UNCHANGED <<photos, counted, model>>

SaveAfterRebuild(w) == Inserts(w, {"rebuilt"})

\* A model call, a database write or an insertion that fails ends the task where it is; a row
\* number already taken by a vector always does.
Abandon(w) ==
    /\ job[w].stage # "idle"
    /\ job' = [job EXCEPT ![w] = Idle]
    /\ mishap' = IF job[w].row # 0 THEN mishap \cup {"halted"} ELSE mishap
    /\ UNCHANGED <<photos, counted, model, map, vss, dim>>

(***************************************************************************)
(* The configuration.                                                      *)
(***************************************************************************)
\* Mutant: the vectors go with the change of width, the map does not.
UpdateModelKeepsMap(m) ==
    /\ \A w \in Run : job[w].stage = "idle"
    /\ m # model
    /\ model' = m
    /\ IF TableWidth[m] = dim
       THEN UNCHANGED <<vss, dim>>
       ELSE vss' = Empty /\ dim' = TableWidth[m]
    /\ mishap' = IF TableWidth[m] # dim /\ \E w \in Writer : Storing(w)
                 THEN mishap \cup {"clash"} ELSE mishap
    /\ UNCHANGED <<photos, counted, map, job>>

\* The model is saved, and the index rebuilt when its width changes, in one transaction that
\* is refused while a run is running.
UpdateModel(m) ==
    /\ \A w \in Run : job[w].stage = "idle"
    /\ m # model
    /\ model' = m
    /\ IF TableWidth[m] = dim
       THEN UNCHANGED <<map, vss, dim, mishap>>
       ELSE /\ map' = Empty
            /\ vss' = Empty
            /\ dim' = TableWidth[m]
            /\ mishap' = IF \E w \in Writer : Storing(w) THEN mishap \cup {"clash"} ELSE mishap
    /\ UNCHANGED <<photos, counted, job>>

\* Of the rows of a photo the oldest stays.
Deduplicated ==
    [i \in Row |-> IF map[i] # None /\ (\E j \in RowsOf(map[i]) : j < i) THEN None ELSE map[i]]

\* A stop at any moment and a start, with a model the setup wizard may have written.
Restart(m) ==
    /\ model' = m
    /\ job' = [w \in Writer |-> Idle]
    /\ IF TableWidth[m] = dim
       THEN map' = Deduplicated /\ UNCHANGED <<vss, dim>>
       ELSE map' = Empty /\ vss' = Empty /\ dim' = TableWidth[m]
    /\ mishap' = IF \E w \in Writer : job[w].row # 0 THEN mishap \cup {"halted"} ELSE mishap
    /\ UNCHANGED <<photos, counted>>

\* What the renderer is told: the rows of the map, of whatever photo, are fewer than the
\* described photos that are not archived.
ReindexNeeded == Cardinality({i \in Row : map[i] # None}) < Cardinality(counted)

Work(w) ==
    \/ Embed(w) \/ FindExisting(w) \/ DropExisting(w) \/ LinkPhotoEmbedding(w)
    \/ SaveEmbedding(w) \/ SaveMismatch(w) \/ Rebuild(w) \/ SaveAfterRebuild(w) \/ Abandon(w)

Next ==
    \/ \E p \in PhotoId : AddPhoto(p) \/ UpdatePhoto(p) \/ DeletePhoto(p)
    \/ \E w \in Writer, p \in PhotoId, of \in Text : ReadText(w, p, of)
    \/ \E w \in Writer : Work(w)
    \/ \E m \in Model : UpdateModel(m) \/ Restart(m)

Spec == Init /\ [][Next]_vars

-----------------------------------------------------------------------------
(***************************************************************************)
(* Properties.                                                             *)
(***************************************************************************)
\* As long as no photo was deleted and no store met a rebuild or another store of its photo,
\* a search answers with the photo the vector was made from: row numbers
\* are reused by both tables, and stores are cut short between their transactions.
SearchIsHonest ==
    mishap \subseteq {"halted"} => \A i \in Found : vss[i].photo = map[i]

\* Under the same condition a photo has one row at most: a store drops what all earlier ones
\* left, whether they ended well or not.
OneRowPerPhoto ==
    mishap \subseteq {"halted"} => \A p \in PhotoId : \A i, j \in RowsOf(p) : i = j

\* store_photo_embedding: "a photo never has more than one vector".  A store that ends well
\* leaves, for its photo, what it stored and nothing older, of either text: the vector of a
\* document takes the place of the description's, though its task calls it "a second search
\* vector" (README, section 6).
StoreReplaces ==
    [][\A w \in Writer :
         SaveEmbedding(w) /\ mishap \subseteq {"halted"} =>
             {<<i, vss'[i]>> : i \in {j \in Found' : map'[j] = job[w].photo}}
                 = {<<job[w].row, NewVector(w)>>}]_vars

\* Counted photos that no search finds, and rows that find none of them: rows of photos the
\* report does not count, and rows without a vector.
Missing == {p \in counted : \A i \in Found : map[i] # p}
Bare == {i \in Row : map[i] # None /\ vss[i] = None}
Uncounted == {i \in Row : map[i] # None /\ map[i] \notin counted}

\* The report compares two counts, of different photos.  When it says that no re-index is
\* needed, a search misses at most as many described photos as the map has rows that find
\* none: none at all, unless photos with a row were archived or lost their description, or
\* stores were cut short.  Only those leave a row without a vector, and only while they run.
StatusIsHonest ==
    /\ mishap \subseteq {"halted"} /\ ~ReindexNeeded =>
           Cardinality(Missing) <= Cardinality(Bare \cup Uncounted)
    /\ mishap = {} /\ (\A w \in Writer : ~Storing(w)) => Bare = {}

=============================================================================
