------------------------------- MODULE StartProofs -------------------------------
(***************************************************************************)
(* What a start of the application leaves in order: the vocabularies that   *)
(* the start seeds and the CLIP worker loads (Vocabulary), for any entries, *)
(* models, edits and failures, and the shell that launches the backend      *)
(* (Desktop), for any number of launches, crashes, downloads and processes  *)
(* a cleanup cannot stop: its typing, that a backend is spawned on Windows  *)
(* beside nothing that could be stopped, and that a download under way is   *)
(* the one a cancel reaches.                                                *)
(***************************************************************************)
EXTENDS Vocabulary, Desktop, SequenceTheorems, TLAPS

USE DEF tables, files, bounds

--------------------------------------------------------------------------------
(* Vocabulary: the lists of the tables *)

\* What a list of entries is.
LEMMA ListFacts ==
    ASSUME NEW s \in Lists
    PROVE  /\ s \in Seq(Name) /\ Len(s) \in Nat /\ DOMAIN s = 1 .. Len(s)
           /\ \A i \in DOMAIN s : s[i] \in Name
           /\ \A i, j \in DOMAIN s : i # j => s[i] # s[j]
           /\ s # NoFile
  BY VocabularyAssumption DEF Lists

\* The empty list is one.
LEMMA EmptyList == <<>> \in Lists
  BY DEF Lists

\* A row is added with a name that is not taken.
LEMMA AppendedList ==
    ASSUME NEW s \in Lists, NEW n \in Name, n \notin Listed(s)
    PROVE  Append(s, n) \in Lists /\ Append(s, n) # <<>>
  <1>1. /\ Append(s, n) \in Seq(Name) /\ Len(Append(s, n)) = Len(s) + 1
        /\ \A i \in 1 .. Len(s) : Append(s, n)[i] = s[i]
        /\ Append(s, n)[Len(s) + 1] = n
    BY ListFacts
  <1>2. \A i \in DOMAIN s : s[i] # n
    BY DEF Listed
  <1>3. ASSUME NEW i \in DOMAIN Append(s, n), NEW j \in DOMAIN Append(s, n), i # j
        PROVE  Append(s, n)[i] # Append(s, n)[j]
    <2>1. i \in 1 .. Len(s) + 1 /\ j \in 1 .. Len(s) + 1 /\ Len(s) \in Nat
      BY <1>1, ListFacts
    <2> QED
      BY <1>1, <1>2, <1>3, <2>1, ListFacts
  <1>4. Append(s, n) # <<>>
    BY <1>1, ListFacts
  <1> HIDE DEF Listed
  <1> QED
    BY <1>1, <1>3, <1>4 DEF Lists

\* So with an entry there is again a list, which is not empty.
LEMMA SeededList ==
    ASSUME NEW s \in Lists, NEW n \in Name
    PROVE  WithEntry(s, n) \in Lists /\ WithEntry(s, n) # <<>>
  <1>1. CASE n \in Listed(s)
    BY <1>1, ListFacts DEF WithEntry, Listed
  <1>2. CASE n \notin Listed(s)
    BY <1>2, AppendedList DEF WithEntry
  <1> QED
    BY <1>1, <1>2

\* A row is renamed.
LEMMA UpdatedList ==
    ASSUME NEW s \in Lists, NEW n \in Name, n \notin Listed(s), NEW i \in DOMAIN s
    PROVE  [s EXCEPT ![i] = n] \in Lists
  <1>1. [s EXCEPT ![i] = n] \in Seq(Name) /\ DOMAIN [s EXCEPT ![i] = n] = DOMAIN s
    BY ListFacts
  <1>2. \A j \in DOMAIN s : s[j] # n
    BY DEF Listed
  <1> QED
    BY <1>1, <1>2, ListFacts DEF Lists

\* A row is deleted.
LEMMA ShortenedList ==
    ASSUME NEW s \in Lists, NEW i \in DOMAIN s
    PROVE  RemoveAt(s, i) \in Lists
  <1> DEFINE front == SubSeq(s, 1, i - 1)
             back == SubSeq(s, i + 1, Len(s))
             rest == RemoveAt(s, i)
  <1>1. i \in Nat /\ 1 <= i /\ i <= Len(s) /\ Len(s) \in Nat
    BY ListFacts
  <1>2. /\ front \in Seq(Name) /\ Len(front) = i - 1
        /\ \A j \in 1 .. i - 1 : front[j] = s[j]
    BY <1>1, ListFacts
  <1>3. /\ back \in Seq(Name) /\ Len(back) = Len(s) - i
        /\ \A j \in 1 .. Len(s) - i : back[j] = s[i + j]
    BY <1>1, ListFacts
  <1>4. rest = front \o back
    BY DEF RemoveAt
  <1> HIDE DEF front, back, rest
  <1>5. /\ rest \in Seq(Name) /\ Len(rest) = Len(s) - 1
        /\ \A j \in 1 .. Len(s) - 1 : rest[j] = IF j <= i - 1 THEN front[j] ELSE back[j - (i - 1)]
    BY <1>1, <1>2, <1>3, <1>4, ConcatProperties
  <1>6. ASSUME NEW j \in 1 .. Len(s) - 1
        PROVE  rest[j] = s[IF j < i THEN j ELSE j + 1]
    <2>1. CASE j < i
      BY <1>1, <1>2, <1>5, <2>1
    <2>2. CASE ~(j < i)
      <3>1. j - (i - 1) \in 1 .. Len(s) - i /\ i + (j - (i - 1)) = j + 1
        BY <1>1, <2>2
      <3>2. rest[j] = back[j - (i - 1)]
        BY <1>1, <1>5, <2>2
      <3> QED
        BY <1>3, <2>2, <3>1, <3>2
    <2> QED
      BY <2>1, <2>2
  <1>7. ASSUME NEW j \in 1 .. Len(s) - 1, NEW k \in 1 .. Len(s) - 1, j # k
        PROVE  rest[j] # rest[k]
    <2> DEFINE a == IF j < i THEN j ELSE j + 1
               b == IF k < i THEN k ELSE k + 1
    <2>1. a \in 1 .. Len(s) /\ b \in 1 .. Len(s) /\ a # b
      BY <1>1, <1>7
    <2>2. rest[j] = s[a] /\ rest[k] = s[b]
      BY <1>6
    <2> HIDE DEF a, b
    <2> QED
      BY <2>1, <2>2, ListFacts
  <1>8. DOMAIN rest = 1 .. Len(s) - 1
    BY <1>1, <1>5
  <1> QED
    BY <1>5, <1>7, <1>8 DEF Lists, rest

\* What is left to seed gets shorter.
LEMMA RestOfList ==
    ASSUME NEW s \in Lists, s # <<>>
    PROVE  Head(s) \in Name /\ Tail(s) \in Lists
  <1>1. s \in Seq(Name) /\ Len(s) \in Nat \ {0}
    BY ListFacts, EmptySeq
  <1>2. /\ Head(s) \in Name /\ Tail(s) \in Seq(Name) /\ Len(Tail(s)) = Len(s) - 1
        /\ \A j \in 1 .. Len(s) - 1 : Tail(s)[j] = s[j + 1]
    BY <1>1, HeadTailProperties
  <1>3. \A j, k \in 1 .. Len(s) - 1 : j # k => Tail(s)[j] # Tail(s)[k]
    BY <1>1, <1>2, ListFacts
  <1>4. DOMAIN Tail(s) = 1 .. Len(s) - 1
    BY <1>1, <1>2
  <1> QED
    BY <1>2, <1>3, <1>4 DEF Lists

--------------------------------------------------------------------------------
(* Vocabulary: typing *)

\* Threads, the installer and the worker compute under numbers of their own.
LEMMA Numbers ==
    /\ Thread \subseteq Writer /\ Installer \in Writer /\ Clip \in Writer
    /\ Installer \notin Thread /\ Clip \notin Thread /\ Installer # Clip
    /\ \A w \in Writer : w \in Thread \/ w = Installer \/ w = Clip
  BY VocabularyAssumption DEF Thread, Installer, Clip, Writer

\* What is written down at a begin.
LEMMA Beginnings ==
    /\ Idle \in Tasks /\ NoBoot \in Boots
    /\ Nothing \in [Kind -> Vectors \cup {NoFile}] /\ Nothing \in [Kind -> Lists \cup {NoFile}]
    /\ [at |-> "down", features |-> Nothing, labels |-> Nothing] \in Workers
    /\ [at |-> "features", features |-> Nothing, labels |-> Nothing] \in Workers
  <1>1. Nothing \in [Kind -> Vectors \cup {NoFile}] /\ Nothing \in [Kind -> Lists \cup {NoFile}]
    BY DEF Nothing
  <1>2. Idle \in Tasks /\ NoBoot \in Boots
    BY EmptyList DEF Idle, Tasks, WriterStage, Kind, NoBoot, Boots, BootStage
  <1> QED
    BY <1>1, <1>2 DEF Workers, WorkerStage

\* The parts of a task.
LEMMA TaskFacts ==
    ASSUME TypeOK, NEW w \in Writer
    PROVE  /\ writer[w].at \in WriterStage /\ writer[w].kind \in Kind /\ writer[w].list \in Lists
           /\ writer[w] \in Tasks
  BY DEF TypeOK, Tasks

\* The parts of a boot.
LEMMA BootFacts ==
    ASSUME TypeOK
    PROVE  boot.at \in BootStage /\ boot.for \in {"api", "installer"} /\ boot.todo \in Lists
  BY DEF TypeOK, Boots

\* The parts of the worker.
LEMMA WorkerFacts ==
    ASSUME TypeOK
    PROVE  /\ worker.at \in WorkerStage /\ worker.features \in [Kind -> Vectors \cup {NoFile}]
           /\ worker.labels \in [Kind -> Lists \cup {NoFile}]
           /\ worker = [at |-> worker.at, features |-> worker.features, labels |-> worker.labels]
  BY DEF TypeOK, Workers

\* A step of the seeding leaves a boot.
LEMMA BootTyped ==
    ASSUME TypeOK, NEW at \in BootStage, NEW todo \in Lists, BootStep(at, todo)
    PROVE  /\ boot' \in Boots
           /\ boot' = [at |-> at, for |-> boot.for, todo |-> todo]
  BY DEF TypeOK, BootStep, Boots

\* A step of the seeding moves on, for whom it is.
LEMMA BootMoves ==
    ASSUME TypeOK, NEW at, NEW todo, BootStep(at, todo)
    PROVE  boot'.at = at /\ boot'.for = boot.for /\ boot'.todo = todo
  BY DEF TypeOK, BootStep, Boots

\* A step of a task leaves a task.
LEMMA StepTyped ==
    ASSUME TypeOK, NEW w \in Writer, NEW next \in Tasks, writer' = [writer EXCEPT ![w] = next]
    PROVE  /\ writer' \in [Writer -> Tasks] /\ writer'[w] = next
           /\ \A v \in Writer : v # w => writer'[v] = writer[v]
  BY DEF TypeOK

\* The steps of a computation write a task.
LEMMA WriterTyped ==
    ASSUME TypeOK, NEW w \in Writer, NEW at \in WriterStage, WriterStep(w, at)
    PROVE  /\ writer' \in [Writer -> Tasks]
           /\ writer'[w] = [at |-> at, kind |-> writer[w].kind, list |-> writer[w].list]
           /\ \A v \in Writer : v # w => writer'[v] = writer[v]
  BY DEF TypeOK, WriterStep, Tasks

\* Every action writes values of the variables' types, and an edit starts a new thread.
LEMMA TypeStep == TypeOK /\ [Next]_vars => TypeOK'
  <1> SUFFICES ASSUME TypeOK, [Next]_vars
               PROVE  TypeOK'
    OBVIOUS
  <1>1. CASE StartApi \/ StartInstaller
    <2>1. boot' \in Boots
      <3>1. PICK todo \in Lists : todo = IF seeded THEN <<>> ELSE Defaults
        <4>1. CASE seeded
          BY <4>1, EmptyList
        <4>2. CASE ~seeded
          BY <4>2, VocabularyAssumption
        <4> QED
          BY <4>1, <4>2
      <3>2. \/ boot' = [at |-> "categories", for |-> "api", todo |-> todo]
            \/ boot' = [at |-> "categories", for |-> "installer", todo |-> todo]
        BY <1>1, <3>1 DEF StartApi, StartInstaller
      <3>3. \A who \in {"api", "installer"} : [at |-> "categories", for |-> who, todo |-> todo] \in Boots
        BY DEF Boots, BootStage
      <3> QED
        BY <3>2, <3>3
    <2> QED
      BY <1>1, <2>1, Beginnings DEF StartApi, StartInstaller, TypeOK
  <1>2. ASSUME NEW k \in Kind, NEW at \in BootStage, SeedRow(k, at)
        PROVE  TypeOK'
    <2>1. Head(boot.todo) \in Name /\ Tail(boot.todo) \in Lists
      BY <1>2, BootFacts, RestOfList DEF SeedRow
    <2>2. rows' \in [Kind -> Lists]
      BY <1>2, <2>1, SeededList DEF SeedRow, TypeOK
    <2>3. boot' \in Boots
      BY <1>2, <2>1, BootTyped DEF SeedRow
    <2> QED
      BY <1>2, <2>2, <2>3 DEF SeedRow, TypeOK
  <1>3. CASE CategoriesSeeded \/ TagsSeeded
    <2>1. boot' \in Boots
      <3>1. <<>> \in Lists /\ Defaults \in Lists /\ "tags" \in BootStage /\ "tag_names" \in BootStage
        BY EmptyList, VocabularyAssumption DEF BootStage
      <3> QED
        BY <1>3, <3>1, BootTyped DEF CategoriesSeeded, TagsSeeded
    <2> QED
      BY <1>3, <2>1 DEF CategoriesSeeded, TagsSeeded, TypeOK
  <1>4. CASE EnsureTagNames \/ EnsureCategoryNames
    <2>1. names' \in [Kind -> Lists \cup {NoFile}]
      BY <1>4 DEF EnsureTagNames, EnsureCategoryNames, EnsureNames, TypeOK, Kind
    <2>2. boot' \in Boots
      <3>1. <<>> \in Lists /\ "category_names" \in BootStage /\ "check" \in BootStage
        BY EmptyList DEF BootStage
      <3> QED
        BY <1>4, <3>1, BootTyped, Beginnings DEF EnsureTagNames, EnsureCategoryNames
    <2>3. api' \in {"down", "starting", "up"}
      BY <1>4 DEF EnsureTagNames, EnsureCategoryNames, TypeOK
    <2> QED
      BY <1>4, <2>1, <2>2, <2>3 DEF EnsureTagNames, EnsureCategoryNames, TypeOK
  <1>5. CASE CheckCaches
    <2>1. boot' \in Boots
      <3>1. <<>> \in Lists /\ Defaults \in Lists /\ "compute_categories" \in BootStage
            /\ "vocabulary" \in BootStage
        BY EmptyList, VocabularyAssumption DEF BootStage
      <3> QED
        BY <1>5, <3>1, BootTyped DEF CheckCaches
    <2>2. vectors' \in [Kind -> Vectors \cup {NoFile}] /\ hash' \in [Kind -> Model \cup {NoModel}]
      BY <1>5 DEF CheckCaches, TypeOK
    <2> QED
      BY <1>5, <2>1, <2>2 DEF CheckCaches, TypeOK
  <1>6. CASE VocabularySeeded \/ InstallerGoesOn
    <2>1. boot' \in Boots
      <3>1. <<>> \in Lists /\ "compute_tags" \in BootStage /\ "compute_categories" \in BootStage
        BY EmptyList DEF BootStage
      <3> QED
        BY <1>6, <3>1, BootTyped, Beginnings DEF VocabularySeeded, InstallerGoesOn, TypeOK
    <2>2. \A k \in Kind : [at |-> "read", kind |-> k, list |-> <<>>] \in Tasks
      BY EmptyList DEF Tasks, WriterStage
    <2>3. writer' \in [Writer -> Tasks]
      BY <1>6, <2>2, Beginnings, Numbers
         DEF VocabularySeeded, InstallerGoesOn, Compute, TypeOK, Kind
    <2> QED
      BY <1>6, <2>1, <2>3 DEF VocabularySeeded, InstallerGoesOn, TypeOK
  <1>e. ASSUME NEW k \in Kind, NEW list \in Lists, Editing, Edit(k, list)
        PROVE  TypeOK'
    <2>1. editsLeft \in Thread /\ editsLeft' \in 0 .. MaxEdits
      BY <1>e, VocabularyAssumption DEF Editing, Thread, TypeOK
    <2>2. [at |-> "new", kind |-> k, list |-> <<>>] \in Tasks
      BY EmptyList DEF Tasks, WriterStage
    <2>3. writer' \in [Writer -> Tasks]
      BY <1>e, <2>1, <2>2, Numbers DEF Edit, TypeOK
    <2>4. rows' \in [Kind -> Lists] /\ calm' \in BOOLEAN
      BY <1>e DEF Edit, TypeOK
    <2> QED
      BY <1>e, <2>1, <2>3, <2>4 DEF Edit, Editing, TypeOK
  <1>7. ASSUME NEW k \in Kind, NEW n \in Name, CreateTemplate(k, n)
        PROVE  TypeOK'
    <2>1. Append(rows[k], n) \in Lists
      BY <1>7, AppendedList DEF CreateTemplate, TypeOK
    <2> QED
      BY <1>7, <1>e, <2>1 DEF CreateTemplate
  <1>8. ASSUME NEW k \in Kind, NEW i \in DOMAIN rows[k], DeleteTemplate(k, i)
        PROVE  TypeOK'
    <2>1. RemoveAt(rows[k], i) \in Lists
      BY <1>8, ShortenedList DEF TypeOK
    <2> QED
      BY <1>8, <1>e, <2>1 DEF DeleteTemplate
  <1>9. ASSUME NEW k \in Kind, NEW i \in DOMAIN rows[k], NEW n \in Name, UpdateTemplate(k, i, n)
        PROVE  TypeOK'
    <2>1. [rows[k] EXCEPT ![i] = n] \in Lists
      BY <1>9, UpdatedList DEF UpdateTemplate, TypeOK
    <2> QED
      BY <1>9, <1>e, <2>1 DEF UpdateTemplate
  <1>10. ASSUME NEW j \in Thread, RecomputeStarts(j) \/ ImportFails(j) \/ RecomputeFails(j)
         PROVE  TypeOK'
    <2>1. j \in Writer /\ writer[j].kind \in Kind
      BY Numbers, TaskFacts
    <2>2. writer' \in [Writer -> Tasks]
      <3>1. CASE RecomputeStarts(j)
        BY <2>1, <3>1, WriterTyped DEF RecomputeStarts, WriterStep, WriterStage
      <3>2. CASE ImportFails(j) \/ RecomputeFails(j)
        BY <2>1, <3>2, StepTyped, Beginnings DEF ImportFails, RecomputeFails
      <3> QED
        BY <1>10, <3>1, <3>2
    <2>3. status' \in [Kind -> {"ready", "recomputing", "error"}] /\ calm' \in BOOLEAN
      BY <1>10, <2>1 DEF RecomputeStarts, ImportFails, RecomputeFails, TypeOK
    <2>4. faultsLeft' \in 0 .. MaxFaults
      BY <1>10, VocabularyAssumption DEF RecomputeStarts, ImportFails, RecomputeFails, TypeOK
    <2> QED
      BY <1>10, <2>2, <2>3, <2>4 DEF RecomputeStarts, ImportFails, RecomputeFails, TypeOK
  <1>11. ASSUME NEW w \in Writer, ReadRows(w)
         PROVE  TypeOK'
    <2>1. writer' \in [Writer -> Tasks]
      BY <1>11, TaskFacts DEF ReadRows, TypeOK, Tasks, WriterStage
    <2> QED
      BY <1>11, <2>1 DEF ReadRows, TypeOK
  <1>12. ASSUME NEW w \in Writer, SaveVectors(w) \/ SaveNames(w) \/ SaveHash(w)
         PROVE  TypeOK'
    <2>1. writer[w].kind \in Kind /\ writer[w].list \in Lists
      BY TaskFacts
    <2>2. writer' \in [Writer -> Tasks]
      BY <1>12, WriterTyped DEF SaveVectors, SaveNames, SaveHash, WriterStage
    <2>3. [list |-> writer[w].list, of |-> model] \in Vectors
      BY <2>1 DEF Vectors, TypeOK
    <2>4. /\ vectors' \in [Kind -> Vectors \cup {NoFile}] /\ names' \in [Kind -> Lists \cup {NoFile}]
          /\ hash' \in [Kind -> Model \cup {NoModel}]
          /\ status' \in [Kind -> {"ready", "recomputing", "error"}]
      BY <1>12, <2>1, <2>3 DEF SaveVectors, SaveNames, SaveHash, TypeOK
    <2> QED
      BY <1>12, <2>2, <2>4 DEF SaveVectors, SaveNames, SaveHash, TypeOK
  <1>13. CASE LoadTagVectors \/ LoadTagNames \/ LoadCategoryNames \/ Warmup
    <2>1. worker' \in Workers
      <3>1. CASE LoadTagVectors
        BY <3>1, WorkerFacts DEF LoadTagVectors, TypeOK, Workers, WorkerStage, Kind
      <3>2. CASE LoadTagNames
        <4>1. (IF names["tags"] = NoFile THEN Defaults ELSE names["tags"]) \in Lists \cup {NoFile}
          BY VocabularyAssumption DEF TypeOK, Kind
        <4> QED
          BY <3>2, <4>1, WorkerFacts DEF LoadTagNames, Workers, WorkerStage, Kind
      <3>3. CASE LoadCategoryNames
        BY <3>3, WorkerFacts DEF LoadCategoryNames, TypeOK, Workers, WorkerStage, Kind
      <3>4. CASE Warmup
        BY <3>4, Beginnings DEF Warmup
      <3> QED
        BY <1>13, <3>1, <3>2, <3>3, <3>4
    <2> QED
      BY <1>13, <2>1 DEF LoadTagVectors, LoadTagNames, LoadCategoryNames, Warmup, WorkerOnly, TypeOK
  <1>14. CASE LoadCategoryVectors \/ LoadComputed
    <2>1. worker' \in Workers
      <3>1. CASE LoadCategoryVectors
        <4>1. \A at \in WorkerStage : [worker EXCEPT !.at = at] \in Workers
          BY WorkerFacts DEF Workers
        <4>2. [worker EXCEPT !.at = "category_names", !.features["categories"] = vectors["categories"]]
                 \in Workers
          BY WorkerFacts DEF TypeOK, Workers, WorkerStage, Kind
        <4> QED
          BY <3>1, <4>1, <4>2 DEF LoadCategoryVectors, WorkerStage
      <3>2. CASE LoadComputed
        <4>1. writer[Clip].list \in Lists
          BY Numbers, TaskFacts
        <4> QED
          BY <3>2, <4>1, WorkerFacts DEF LoadComputed, TypeOK, Workers, WorkerStage, Kind
      <3> QED
        BY <1>14, <3>1, <3>2
    <2>2. [at |-> "vectors", kind |-> "categories", list |-> rows["categories"]] \in Tasks
      BY DEF TypeOK, Tasks, WriterStage, Kind
    <2>3. writer' \in [Writer -> Tasks] /\ calm' \in BOOLEAN
      BY <1>14, <2>2, Beginnings, Numbers DEF LoadCategoryVectors, LoadComputed, TypeOK
    <2> QED
      BY <1>14, <2>1, <2>3 DEF LoadCategoryVectors, LoadComputed, WorkerOnly, TypeOK
  <1>15. CASE Stop
    <2>1. worker' \in Workers /\ boot' \in Boots /\ writer' \in [Writer -> Tasks]
          /\ calm' \in BOOLEAN /\ cut' \in BOOLEAN
      BY <1>15, Beginnings DEF Stop, TypeOK
    <2>2. faultsLeft' \in 0 .. MaxFaults
      BY <1>15, VocabularyAssumption DEF Stop, TypeOK
    <2> QED
      BY <1>15, <2>1, <2>2 DEF Stop, TypeOK
  <1>16. ASSUME NEW m \in Model, SwitchModel(m)
         PROVE  TypeOK'
    BY <1>16, VocabularyAssumption DEF SwitchModel, TypeOK
  <1>17. CASE UNCHANGED vars
    BY <1>17 DEF vars, TypeOK
  <1>18. /\ "categories" \in Kind /\ "tags" \in Kind
         /\ "categories" \in BootStage /\ "tags" \in BootStage /\ "vocabulary" \in BootStage
    BY DEF Kind, BootStage
  <1> QED
    BY <1>1, <1>2, <1>3, <1>4, <1>5, <1>6, <1>7, <1>8, <1>9, <1>10, <1>11, <1>12, <1>13, <1>14,
       <1>15, <1>16, <1>17, <1>18 DEF Next

--------------------------------------------------------------------------------
(* Vocabulary: the status *)

Active(w) == writer[w].at # "none"

\* A recomputing vocabulary has its thread, and no two edits start the same thread.
Unused == \A j \in Thread : j <= editsLeft => ~Active(j)
StatusInv == TypeOK /\ Unused /\ StatusSettles

\* Everything but an edit, a recomputation and a stop leaves the threads and the status alone.
LEMMA OtherSteps ==
    ASSUME TypeOK,
           \/ StartApi \/ StartInstaller \/ CategoriesSeeded \/ TagsSeeded
           \/ EnsureTagNames \/ EnsureCategoryNames \/ CheckCaches \/ VocabularySeeded
           \/ InstallerGoesOn \/ LoadTagVectors \/ LoadTagNames \/ LoadCategoryVectors
           \/ LoadCategoryNames \/ LoadComputed \/ Warmup \/ UNCHANGED vars
           \/ \E k \in Kind, at \in BootStage : SeedRow(k, at)
           \/ \E m \in Model : SwitchModel(m)
    PROVE  UNCHANGED <<status, cut, editsLeft>> /\ \A j \in Thread : writer'[j] = writer[j]
  <1>1. CASE \/ StartApi \/ StartInstaller \/ CategoriesSeeded \/ TagsSeeded
             \/ EnsureTagNames \/ EnsureCategoryNames \/ CheckCaches
    BY <1>1 DEF StartApi, StartInstaller, CategoriesSeeded, TagsSeeded, EnsureTagNames,
       EnsureCategoryNames, CheckCaches
  <1>2. CASE VocabularySeeded \/ InstallerGoesOn
    BY <1>2, Numbers DEF VocabularySeeded, InstallerGoesOn, Compute, TypeOK
  <1>3. CASE LoadTagVectors \/ LoadTagNames \/ LoadCategoryNames \/ Warmup
    BY <1>3 DEF LoadTagVectors, LoadTagNames, LoadCategoryNames, Warmup, WorkerOnly
  <1>4. CASE LoadCategoryVectors \/ LoadComputed
    BY <1>4, Numbers DEF LoadCategoryVectors, LoadComputed, WorkerOnly, TypeOK
  <1>5. CASE \E k \in Kind, at \in BootStage : SeedRow(k, at)
    BY <1>5 DEF SeedRow
  <1>6. CASE UNCHANGED vars \/ \E m \in Model : SwitchModel(m)
    BY <1>6 DEF vars, SwitchModel
  <1> QED
    BY <1>1, <1>2, <1>3, <1>4, <1>5, <1>6

\* Editing takes the next number, and only a thread of its own.
LEMMA EditTakes ==
    ASSUME TypeOK, NEW k \in Kind, NEW list, Editing, Edit(k, list)
    PROVE  /\ editsLeft \in Thread /\ editsLeft' = editsLeft - 1
           /\ writer'[editsLeft] = [at |-> "new", kind |-> k, list |-> <<>>]
           /\ \A w \in Writer : w # editsLeft => writer'[w] = writer[w]
           /\ UNCHANGED <<status, cut>>
  <1>1. editsLeft \in Thread
    BY VocabularyAssumption DEF Editing, Thread, TypeOK
  <1> QED
    BY <1>1, Numbers DEF Editing, Edit, TypeOK

\* The three edits.
AnEdit == \E k \in Kind, list \in Lists : Editing /\ Edit(k, list)

\* Next, with the three edits taken together.
LEMMA Steps ==
    ASSUME TypeOK, [Next]_vars
    PROVE  \/ StartApi \/ StartInstaller \/ CategoriesSeeded \/ TagsSeeded
           \/ EnsureTagNames \/ EnsureCategoryNames \/ CheckCaches \/ VocabularySeeded
           \/ InstallerGoesOn \/ LoadTagVectors \/ LoadTagNames \/ LoadCategoryVectors
           \/ LoadCategoryNames \/ LoadComputed \/ Warmup \/ UNCHANGED vars
           \/ SeedRow("categories", "categories") \/ SeedRow("tags", "tags")
           \/ SeedRow("tags", "vocabulary")
           \/ \E m \in Model : SwitchModel(m)
           \/ AnEdit
           \/ \E j \in Thread : RecomputeStarts(j) \/ ImportFails(j) \/ RecomputeFails(j)
           \/ \E w \in Writer : ReadRows(w) \/ SaveVectors(w) \/ SaveNames(w) \/ SaveHash(w)
           \/ Stop
  <1>1. ASSUME NEW k \in Kind, NEW n \in Name, CreateTemplate(k, n)
        PROVE  AnEdit
    BY <1>1, AppendedList DEF CreateTemplate, TypeOK, AnEdit
  <1>2. ASSUME NEW k \in Kind, NEW i \in DOMAIN rows[k], DeleteTemplate(k, i)
        PROVE  AnEdit
    BY <1>2, ShortenedList DEF DeleteTemplate, TypeOK, AnEdit
  <1>3. ASSUME NEW k \in Kind, NEW i \in DOMAIN rows[k], NEW n \in Name, UpdateTemplate(k, i, n)
        PROVE  AnEdit
    BY <1>3, UpdatedList DEF UpdateTemplate, TypeOK, AnEdit
  <1> QED
    BY <1>1, <1>2, <1>3 DEF Next

\* No two edits start the same thread: the numbers up to the edits that are left are unused.
LEMMA UnusedStep == TypeOK /\ Unused /\ [Next]_vars => Unused'
  <1> SUFFICES ASSUME TypeOK, Unused, [Next]_vars
               PROVE  Unused'
    OBVIOUS
  <1>a. ASSUME editsLeft' = editsLeft, \A j \in Thread : writer'[j].at # "none" => writer[j].at # "none"
        PROVE  Unused'
    BY <1>a DEF Unused, Active
  <1>1. CASE AnEdit
    <2>1. PICK k \in Kind, list \in Lists : Editing /\ Edit(k, list)
      BY <1>1 DEF AnEdit
    <2>2. /\ editsLeft \in Thread /\ editsLeft' = editsLeft - 1
          /\ \A w \in Writer : w # editsLeft => writer'[w] = writer[w]
      BY <2>1, EditTakes
    <2>3. \A j \in Thread : j <= editsLeft - 1 => j <= editsLeft /\ j # editsLeft
      BY <2>2, VocabularyAssumption DEF Thread
    <2> QED
      BY <2>2, <2>3, Numbers DEF Unused, Active
  <1>2. ASSUME NEW j \in Thread, RecomputeStarts(j) \/ ImportFails(j) \/ RecomputeFails(j)
        PROVE  Unused'
    BY <1>2, <1>a, Numbers DEF RecomputeStarts, ImportFails, RecomputeFails, TypeOK, Idle
  <1>3. ASSUME NEW w \in Writer, ReadRows(w) \/ SaveVectors(w) \/ SaveNames(w) \/ SaveHash(w)
        PROVE  Unused'
    BY <1>3, <1>a, Numbers DEF ReadRows, SaveVectors, SaveNames, SaveHash, WriterStep, TypeOK
  <1>4. CASE Stop
    BY <1>4, <1>a, Numbers DEF Stop, Idle
  <1> QED
    BY <1>1, <1>2, <1>3, <1>4, <1>a, OtherSteps, Steps DEF Kind, BootStage

\* The status is "recomputing" from the first to the last step of a thread.
LEMMA StatusStep == StatusInv /\ [Next]_vars => StatusSettles'
  <1> SUFFICES ASSUME StatusInv, [Next]_vars, ~cut', NEW k \in Kind, status'[k] = "recomputing"
               PROVE  \E j \in Thread : writer'[j].at \notin {"none", "new"} /\ writer'[j].kind = k
    BY DEF StatusSettles
  <1>t. TypeOK /\ Unused
    BY DEF StatusInv
  <1>a. ASSUME cut' = cut, status'[k] = status[k],
               \A j \in Thread : writer[j].at \notin {"none", "new"} /\ writer[j].kind = k =>
                  writer'[j].at \notin {"none", "new"} /\ writer'[j].kind = k
        PROVE  \E j \in Thread : writer'[j].at \notin {"none", "new"} /\ writer'[j].kind = k
    BY <1>a DEF StatusInv, StatusSettles
  <1>1. CASE AnEdit
    <2>1. PICK q \in Kind, list \in Lists : Editing /\ Edit(q, list)
      BY <1>1 DEF AnEdit
    <2>2. /\ editsLeft \in Thread /\ UNCHANGED <<status, cut>>
          /\ \A w \in Writer : w # editsLeft => writer'[w] = writer[w]
      BY <2>1, <1>t, EditTakes
    <2>3. writer[editsLeft].at = "none"
      <3>1. editsLeft <= editsLeft
        BY <2>2, VocabularyAssumption DEF Thread
      <3> QED
        BY <1>t, <2>2, <3>1 DEF Unused, Active
    <2> QED
      BY <2>2, <2>3, <1>a, Numbers
  <1>2. ASSUME NEW j \in Thread, RecomputeStarts(j)
        PROVE  \E i \in Thread : writer'[i].at \notin {"none", "new"} /\ writer'[i].kind = k
    <2>1. j \in Writer
      BY Numbers
    <2>2. /\ writer'[j].at = "read" /\ writer'[j].kind = writer[j].kind
          /\ \A i \in Writer : i # j => writer'[i] = writer[i]
      <3>1. WriterStep(j, "read") /\ "read" \in WriterStage
        BY <1>2 DEF RecomputeStarts, WriterStep, WriterStage
      <3>2. /\ writer'[j] = [at |-> "read", kind |-> writer[j].kind, list |-> writer[j].list]
            /\ \A i \in Writer : i # j => writer'[i] = writer[i]
        BY <1>t, <2>1, <3>1, WriterTyped
      <3> QED
        BY <3>2
    <2>3. CASE k = writer[j].kind
      BY <2>2, <2>3
    <2>4. CASE k # writer[j].kind
      <3>1. status'[k] = status[k] /\ cut' = cut
        BY <1>2, <1>t, <2>4 DEF RecomputeStarts, TypeOK
      <3> QED
        BY <3>1, <2>2, <2>4, <1>a, Numbers
    <2> QED
      BY <2>3, <2>4
  <1>3. ASSUME NEW j \in Thread, ImportFails(j)
        PROVE  \E i \in Thread : writer'[i].at \notin {"none", "new"} /\ writer'[i].kind = k
    <2>1. \A i \in Writer : i # j => writer'[i] = writer[i]
      BY <1>3, <1>t DEF ImportFails, TypeOK
    <2> QED
      BY <1>3, <2>1, <1>a, Numbers DEF ImportFails
  <1>4. ASSUME NEW j \in Thread, RecomputeFails(j)
        PROVE  \E i \in Thread : writer'[i].at \notin {"none", "new"} /\ writer'[i].kind = k
    <2>1. \A i \in Writer : i # j => writer'[i] = writer[i]
      BY <1>4, <1>t DEF RecomputeFails, TypeOK
    <2>2. writer[j].kind # k /\ status'[k] = status[k] /\ cut' = cut
      BY <1>4, <1>t DEF RecomputeFails, TypeOK
    <2> QED
      BY <2>1, <2>2, <1>a, Numbers
  <1>5. ASSUME NEW w \in Writer, ReadRows(w) \/ SaveVectors(w) \/ SaveNames(w)
        PROVE  \E i \in Thread : writer'[i].at \notin {"none", "new"} /\ writer'[i].kind = k
    <2>1. /\ \A i \in Writer : i # w => writer'[i] = writer[i]
          /\ writer'[w].at \notin {"none", "new"} /\ writer'[w].kind = writer[w].kind
      BY <1>5, <1>t DEF ReadRows, SaveVectors, SaveNames, WriterStep, TypeOK, Tasks
    <2> QED
      BY <1>5, <2>1, <1>a, Numbers DEF ReadRows, SaveVectors, SaveNames
  <1>6. ASSUME NEW w \in Writer, SaveHash(w)
        PROVE  \E i \in Thread : writer'[i].at \notin {"none", "new"} /\ writer'[i].kind = k
    <2>1. \A i \in Writer : i # w => writer'[i] = writer[i]
      BY <1>6, <1>t DEF SaveHash, WriterStep, TypeOK
    <2>2. CASE w \in Thread
      <3>1. writer[w].kind # k /\ status'[k] = status[k] /\ cut' = cut
        BY <1>6, <1>t, <2>2 DEF SaveHash, TypeOK
      <3> QED
        BY <2>1, <3>1, <1>a, Numbers
    <2>3. CASE w \notin Thread
      BY <1>6, <2>1, <2>3, <1>a, Numbers DEF SaveHash
    <2> QED
      BY <2>2, <2>3
  <1>7. CASE Stop
    BY <1>7 DEF Stop, StatusInv, StatusSettles
  <1> QED
    BY <1>t, <1>1, <1>2, <1>3, <1>4, <1>5, <1>6, <1>7, <1>a, OtherSteps, Steps DEF Kind, BootStage

--------------------------------------------------------------------------------
(* Vocabulary: the invariant of the files *)

Clips == writer[Clip]
Pairs(k) == worker.features[k] # NoFile => worker.features[k].list = worker.labels[k]

\* Who computes when: threads while the API is up, the installer in its last stages, the
\* worker while it says so; and who seeds, seeds for one of the two.
WhoWorks ==
    /\ \A j \in Thread : Active(j) => api = "up"
    /\ Active(Installer) => boot.at \in {"compute_tags", "compute_categories"}
    /\ Active(Clip) <=> worker.at = "computing"
    /\ Active(Clip) => Clips.kind = "categories" /\ Clips.at \notin {"new", "read"}
    /\ worker.at # "down" => api # "down"
    /\ api = "up" => boot.at = "none"
    /\ boot.at # "none" => api = IF boot.for = "installer" THEN "down" ELSE "starting"
    /\ boot.at \in {"check", "vocabulary", "compute_tags", "compute_categories"} =>
          boot.for = "installer"

\* A table is seeded before anything is computed from it.
SeededFirst ==
    /\ api = "up" \/ boot.at \notin {"none", "categories"} => seeded
    /\ boot.at = "vocabulary" => vectors["tags"] = NoFile
    /\ boot.at = "categories" /\ seeded => boot.todo = <<>>
SeedsAlone ==
    /\ ~seeded => vectors["categories"] = NoFile /\ ~Computing("categories")
    /\ boot.at = "tags" /\ boot.todo # <<>> => vectors["tags"] = NoFile
    /\ seeded => rows["categories"] # <<>>
    /\ boot.at = "categories" /\ ~seeded /\ boot.todo = <<>> => rows["categories"] # <<>>
    /\ \A k \in Kind : rows[k] = <<>> => vectors[k] = NoFile

\* The files of a vocabulary nobody computes.
Settled(k) ==
    vectors[k] # NoFile =>
        /\ vectors[k].list = names[k] /\ names[k] = rows[k]
        /\ hash[k] \in {NoModel, vectors[k].of}

\* What the one who computes has written so far, from the table as it is.
OneWriter == \A v, w \in Writer :
                Active(v) /\ Active(w) /\ writer[v].kind = writer[w].kind => v = w
Written(x) ==
    /\ x.at \in {"vectors", "names", "hash"} => x.list = rows[x.kind]
    /\ x.at \in {"vectors", "names"} => x.list # <<>>
    /\ x.at \in {"names", "hash"} /\ x.list # <<>> =>
          vectors[x.kind] = [list |-> x.list, of |-> model]
    /\ x.at = "hash" /\ x.list # <<>> => names[x.kind] = x.list

\* The worker leaves no hash, and needs none: without vectors there is none.
NoHash == vectors["categories"] = NoFile \/ Active(Clip) => hash["categories"] = NoModel

\* What the worker has loaded at each of its steps.
Loaded ==
    /\ worker.at = "labels" => ~Computing("tags") /\ worker.features["tags"] = vectors["tags"]
    /\ worker.at \in {"categories", "category_names", "computing", "serving"} => Pairs("tags")
    /\ worker.at \in {"features", "labels", "categories", "computing"} =>
          worker.features["categories"] = NoFile
    /\ worker.at = "category_names" =>
          ~Computing("categories") /\ worker.features["categories"] = vectors["categories"]
    /\ worker.at = "serving" => Pairs("categories")

Calm ==
    /\ SeedsAlone /\ OneWriter /\ NoHash /\ Loaded
    /\ \A w \in Writer : Written(writer[w])
    /\ \A k \in Kind : ~Computing(k) => Settled(k)

FilesInv == TypeOK /\ Unused /\ WhoWorks /\ SeededFirst /\ (calm => Calm)

\* Who may be computing.
LEMMA Computers ==
    ASSUME WhoWorks, NEW w \in Writer, Active(w)
    PROVE  \/ w \in Thread /\ api = "up" /\ boot.at = "none"
           \/ w = Installer /\ api = "down" /\ boot.at \in {"compute_tags", "compute_categories"}
           \/ w = Clip /\ api # "down" /\ worker.at = "computing"
  BY Numbers DEF WhoWorks

\* Of a computation only the stage changes, and the list when the table is read.
LEMMA WriterSteps ==
    ASSUME TypeOK, NEW w \in Writer, ReadRows(w) \/ SaveVectors(w) \/ SaveNames(w) \/ SaveHash(w)
    PROVE  /\ \A v \in Writer : v # w => writer'[v] = writer[v]
           /\ Active(w) /\ writer'[w].kind = writer[w].kind /\ writer[w].at # "new"
           /\ writer'[w].at \in {"none", "vectors", "names", "hash"}
           /\ writer'[w].at = "none" <=> SaveHash(w)
           /\ UNCHANGED <<tables, model, api, boot, worker, calm, cut, bounds>>
  BY DEF ReadRows, SaveVectors, SaveNames, SaveHash, WriterStep, TypeOK, Tasks, Active

\* Nobody computes outside the time for it.
LEMMA WhoWorksStep == TypeOK /\ Unused /\ WhoWorks /\ [Next]_vars => WhoWorks'
  <1> SUFFICES ASSUME TypeOK, Unused, WhoWorks, [Next]_vars
               PROVE  WhoWorks'
    OBVIOUS
  <1>1. CASE StartApi \/ StartInstaller
    <2>1. \A w \in Writer : ~Active(w)
      BY <1>1, Computers DEF StartApi, StartInstaller, WhoWorks
    <2>2. UNCHANGED writer /\ api = "down" /\ boot.at = "none" /\ worker.at = "down"
      BY <1>1 DEF StartApi, StartInstaller, WhoWorks
    <2>3. /\ boot'.at = "categories" /\ boot'.for \in {"api", "installer"}
          /\ api' = IF boot'.for = "installer" THEN "down" ELSE "starting"
          /\ worker'.at = IF boot'.for = "installer" THEN "down" ELSE "features"
      BY <1>1, <2>2 DEF StartApi, StartInstaller
    <2>4. \A w \in Writer : ~Active(w)'
      BY <2>1, <2>2 DEF Active
    <2> QED
      BY <2>3, <2>4, Numbers DEF WhoWorks
  <1>2. ASSUME NEW k \in Kind, NEW at \in {"categories", "tags", "vocabulary"}, SeedRow(k, at)
        PROVE  WhoWorks'
    <2>1. boot'.at = boot.at /\ boot'.for = boot.for
      BY <1>2 DEF SeedRow, BootStep, TypeOK, Boots
    <2> QED
      BY <1>2, <2>1 DEF SeedRow, WhoWorks, Active, Clips
  <1>3. CASE CategoriesSeeded \/ TagsSeeded \/ EnsureTagNames \/ CheckCaches
    <2>1. /\ boot'.for = boot.for /\ boot'.at # "none" /\ boot.at # "none"
          /\ boot'.at \in {"vocabulary", "compute_categories"} => boot.at = "check"
          /\ boot'.at \notin {"check", "compute_tags"}
          /\ boot.at \notin {"compute_tags", "compute_categories"}
      BY <1>3 DEF CategoriesSeeded, TagsSeeded, EnsureTagNames, CheckCaches, BootStep, TypeOK, Boots
    <2>2. UNCHANGED <<api, writer, worker>>
      BY <1>3 DEF CategoriesSeeded, TagsSeeded, EnsureTagNames, CheckCaches
    <2> QED
      BY <2>1, <2>2 DEF WhoWorks, Active, Clips
  <1>4. CASE EnsureCategoryNames
    <2>1. CASE boot.for = "api"
      <3>1. boot'.at = "none" /\ api' = "up" /\ boot.at = "category_names"
            /\ UNCHANGED <<writer, worker>>
        <4>1. api' = "up" /\ boot' = NoBoot /\ boot.at = "category_names"
          BY <1>4, <2>1 DEF EnsureCategoryNames
        <4>2. UNCHANGED writer /\ UNCHANGED worker
          BY <1>4 DEF EnsureCategoryNames
        <4> QED
          BY <4>1, <4>2 DEF NoBoot
      <3>2. ~Active(Installer)' /\ \A w \in Writer : Active(w)' = Active(w)
        BY <3>1 DEF WhoWorks, Active
      <3>3. (Active(Clip)' <=> worker'.at = "computing") /\ Clips' = Clips
            /\ Active(Clip)' = Active(Clip)
        BY <3>1, <3>2, Numbers DEF WhoWorks, Clips
      <3> QED
        BY <3>1, <3>2, <3>3 DEF WhoWorks
    <2>2. CASE boot.for # "api"
      <3>1. boot'.at = "check" /\ boot'.for = boot.for /\ boot.for = "installer"
        BY <1>4, <2>2, BootFacts DEF EnsureCategoryNames, BootStep, TypeOK, Boots
      <3> QED
        BY <1>4, <2>2, <3>1 DEF EnsureCategoryNames, WhoWorks, Active, Clips
    <2> QED
      BY <2>1, <2>2
  <1>5. CASE VocabularySeeded \/ InstallerGoesOn
    <2>1. boot.at # "none" /\ boot.for = "installer" /\ api = "down" /\ worker.at = "down"
      BY <1>5 DEF VocabularySeeded, InstallerGoesOn, WhoWorks
    <2>2. /\ writer'[Clip] = writer[Clip] /\ \A j \in Thread : writer'[j] = writer[j]
      BY <1>5, Numbers DEF VocabularySeeded, InstallerGoesOn, Compute, TypeOK
    <2>3. UNCHANGED <<api, worker>>
      BY <1>5 DEF VocabularySeeded, InstallerGoesOn
    <2>4. \/ boot' = NoBoot /\ ~Active(Installer)'
          \/ boot'.at \in {"compute_tags", "compute_categories"} /\ boot'.for = boot.for
      <3>1. CASE boot' = NoBoot /\ writer' = [writer EXCEPT ![Installer] = Idle]
        BY <3>1, Numbers DEF TypeOK, Active, Idle
      <3>2. CASE UNCHANGED boot \/ \E at \in {"compute_tags", "compute_categories"} : BootStep(at, <<>>)
        BY <1>5, <3>2 DEF InstallerGoesOn, VocabularySeeded, BootStep, TypeOK, Boots
      <3> QED
        BY <1>5, <3>1, <3>2 DEF InstallerGoesOn, VocabularySeeded
    <2>5. (\A j \in Thread : Active(j)' = Active(j)) /\ Active(Clip)' = Active(Clip) /\ Clips' = Clips
      BY <2>2 DEF Active, Clips
    <2>6. CASE boot' = NoBoot /\ ~Active(Installer)'
      <3>1. boot'.at = "none"
        BY <2>6 DEF NoBoot
      <3> QED
        BY <2>1, <2>3, <2>5, <2>6, <3>1 DEF WhoWorks
    <2>7. CASE boot'.at \in {"compute_tags", "compute_categories"} /\ boot'.for = boot.for
      BY <2>1, <2>3, <2>5, <2>7 DEF WhoWorks
    <2> QED
      BY <2>4, <2>6, <2>7
  <1>6. CASE AnEdit
    <2>1. PICK k \in Kind, list \in Lists : Editing /\ Edit(k, list)
      BY <1>6 DEF AnEdit
    <2>2. editsLeft \in Thread /\ \A w \in Writer : w # editsLeft => writer'[w] = writer[w]
      BY <2>1, EditTakes
    <2>3. UNCHANGED <<api, boot, worker>> /\ api = "up"
      BY <2>1 DEF Editing
    <2>4. writer'[Installer] = writer[Installer] /\ writer'[Clip] = writer[Clip]
      BY <2>2, Numbers
    <2> QED
      BY <2>2, <2>3, <2>4 DEF WhoWorks, Active, Clips
  <1>7. ASSUME NEW j \in Thread, RecomputeStarts(j) \/ ImportFails(j) \/ RecomputeFails(j)
        PROVE  WhoWorks'
    <2>1. \A w \in Writer : w # j => writer'[w] = writer[w]
      BY <1>7 DEF RecomputeStarts, ImportFails, RecomputeFails, TypeOK
    <2>2. Active(j) /\ UNCHANGED <<api, boot, worker>>
      BY <1>7 DEF RecomputeStarts, ImportFails, RecomputeFails, Active
    <2>3. writer'[Installer] = writer[Installer] /\ writer'[Clip] = writer[Clip]
      BY <2>1, Numbers
    <2>4. \A i \in Thread : Active(i)' => api = "up"
      BY <2>2 DEF WhoWorks
    <2> QED
      BY <2>2, <2>3, <2>4 DEF WhoWorks, Active, Clips
  <1>8. ASSUME NEW w \in Writer, ReadRows(w) \/ SaveVectors(w) \/ SaveNames(w) \/ SaveHash(w)
        PROVE  WhoWorks'
    <2>1. /\ \A v \in Writer : v # w => writer'[v] = writer[v]
          /\ Active(w) /\ writer'[w].kind = writer[w].kind
          /\ writer'[w].at \in {"none", "vectors", "names", "hash"}
          /\ writer'[w].at = "none" <=> SaveHash(w)
          /\ UNCHANGED <<api, boot, worker>>
      BY <1>8, WriterSteps
    <2>2. \A v \in Writer : Active(v)' => Active(v)
      BY <2>1 DEF Active
    <2>3. (Active(Clip)' <=> Active(Clip)) /\ writer'[Clip].kind = writer[Clip].kind
          /\ (Active(Clip)' => Clips'.at \notin {"new", "read"})
      <3>1. CASE w = Clip
        BY <2>1, <3>1 DEF Active, Clips, SaveHash
      <3>2. CASE w # Clip
        BY <2>1, <3>2, Numbers DEF Active, Clips, WhoWorks
      <3> QED
        BY <3>1, <3>2
    <2> QED
      BY <2>1, <2>2, <2>3, Numbers DEF WhoWorks, Clips
  <1>9. CASE LoadTagVectors \/ LoadTagNames \/ LoadCategoryNames \/ Warmup
    <2>1. UNCHANGED <<writer, api, boot>>
      BY <1>9 DEF LoadTagVectors, LoadTagNames, LoadCategoryNames, Warmup, WorkerOnly
    <2>2. worker.at \notin {"computing", "down"} /\ worker'.at \notin {"computing", "down"}
      <3>1. CASE LoadTagVectors
        BY <3>1, WorkerFacts DEF LoadTagVectors
      <3>2. CASE LoadTagNames
        BY <3>2, WorkerFacts DEF LoadTagNames
      <3>3. CASE LoadCategoryNames
        BY <3>3, WorkerFacts DEF LoadCategoryNames
      <3>4. CASE Warmup
        BY <3>4 DEF Warmup
      <3> QED
        BY <1>9, <3>1, <3>2, <3>3, <3>4
    <2> QED
      BY <2>1, <2>2 DEF WhoWorks, Active, Clips
  <1>10. CASE LoadCategoryVectors \/ LoadComputed
    <2>1. UNCHANGED <<api, boot>> /\ worker.at # "down" /\ worker'.at # "down"
      BY <1>10, WorkerFacts DEF LoadCategoryVectors, LoadComputed, WorkerOnly
    <2>2. \A w \in Writer : w # Clip => writer'[w] = writer[w]
      BY <1>10 DEF LoadCategoryVectors, LoadComputed, TypeOK
    <2>3. /\ Active(Clip)' <=> worker'.at = "computing"
          /\ Active(Clip)' => Clips'.kind = "categories" /\ Clips'.at \notin {"new", "read"}
      <3>1. CASE LoadCategoryVectors
        <4>1. worker.at = "categories" /\ ~Active(Clip)
          BY <3>1 DEF LoadCategoryVectors, WhoWorks
        <4>2. CASE worker'.at # "computing" /\ UNCHANGED writer
          BY <4>1, <4>2 DEF Active
        <4>3. CASE /\ worker' = [worker EXCEPT !.at = "computing"]
                   /\ writer' = [writer EXCEPT ![Clip] =
                        [at |-> "vectors", kind |-> "categories", list |-> rows["categories"]]]
          BY <4>3, WorkerFacts, Numbers DEF Active, Clips, TypeOK
        <4> QED
          BY <3>1, <4>2, <4>3, WorkerFacts DEF LoadCategoryVectors
      <3>2. CASE LoadComputed
        BY <3>2, WorkerFacts, Numbers DEF LoadComputed, Active, Clips, TypeOK, Idle
      <3> QED
        BY <1>10, <3>1, <3>2
    <2>4. writer'[Installer] = writer[Installer] /\ \A j \in Thread : writer'[j] = writer[j]
      BY <2>2, Numbers
    <2> QED
      BY <2>1, <2>3, <2>4 DEF WhoWorks, Active
  <1>11. CASE Stop
    <2>1. \A w \in Writer : ~Active(w)'
      BY <1>11 DEF Stop, Active, Idle
    <2> QED
      BY <1>11, <2>1, Numbers DEF Stop, WhoWorks, NoBoot
  <1>12. CASE UNCHANGED vars \/ \E m \in Model : SwitchModel(m)
    BY <1>12 DEF vars, SwitchModel, WhoWorks, Active, Clips
  <1> QED
    BY <1>1, <1>2, <1>3, <1>4, <1>5, <1>6, <1>7, <1>8, <1>9, <1>10, <1>11, <1>12, Steps DEF Kind

\* A table is seeded before anything is computed from it.
LEMMA SeededFirstStep == TypeOK /\ WhoWorks /\ SeededFirst /\ [Next]_vars => SeededFirst'
  <1> SUFFICES ASSUME TypeOK, WhoWorks, SeededFirst, [Next]_vars
               PROVE  SeededFirst'
    OBVIOUS
  <1>1. CASE StartApi \/ StartInstaller
    <2>1. /\ boot'.at = "categories" /\ (seeded => boot'.todo = <<>>) /\ seeded' = seeded
          /\ api' # "up"
      BY <1>1 DEF StartApi, StartInstaller
    <2> QED
      BY <2>1 DEF SeededFirst
  <1>2. ASSUME NEW k \in Kind, NEW at \in {"categories", "tags", "vocabulary"}, SeedRow(k, at)
        PROVE  SeededFirst'
    <2>1. boot'.at = boot.at /\ boot.todo # <<>> /\ UNCHANGED <<seeded, vectors, api>>
      BY <1>2 DEF SeedRow, BootStep, TypeOK, Boots
    <2> QED
      BY <2>1 DEF SeededFirst
  <1>3. CASE CategoriesSeeded \/ TagsSeeded \/ EnsureTagNames \/ CheckCaches
    <2>1. /\ boot'.at \notin {"none", "categories"}
          /\ boot'.at = "vocabulary" => CheckCaches /\ ~CacheValid("tags")
      BY <1>3 DEF CategoriesSeeded, TagsSeeded, EnsureTagNames, CheckCaches, BootStep, TypeOK, Boots
    <2>2. CheckCaches /\ ~CacheValid("tags") => vectors'["tags"] = NoFile
      BY DEF CheckCaches, Kind
    <2>3. seeded'
      BY <1>3 DEF CategoriesSeeded, TagsSeeded, EnsureTagNames, CheckCaches, SeededFirst
    <2> QED
      BY <2>1, <2>2, <2>3 DEF SeededFirst
  <1>4. CASE EnsureCategoryNames
    <2>1. boot' = NoBoot \/ BootStep("check", <<>>)
      BY <1>4 DEF EnsureCategoryNames
    <2>2. boot'.at \in {"none", "check"}
      BY <2>1, BootMoves DEF NoBoot
    <2>3. seeded' = seeded /\ seeded
      BY <1>4 DEF EnsureCategoryNames, SeededFirst
    <2> QED
      BY <2>2, <2>3 DEF SeededFirst
  <1>5. CASE VocabularySeeded \/ InstallerGoesOn
    <2>1. seeded' = seeded /\ seeded
      BY <1>5 DEF VocabularySeeded, InstallerGoesOn, SeededFirst
    <2>3. boot'.at \notin {"categories", "vocabulary"}
      <3>1. CASE BootStep("compute_tags", <<>>) \/ BootStep("compute_categories", <<>>)
        BY <3>1, BootMoves
      <3>2. CASE boot' = NoBoot
        BY <3>2 DEF NoBoot
      <3>3. CASE UNCHANGED boot /\ boot.at = "compute_categories"
        BY <3>3
      <3> QED
        BY <1>5, <3>1, <3>2, <3>3, Zenon DEF VocabularySeeded, InstallerGoesOn
    <2> QED
      BY <2>1, <2>3 DEF SeededFirst
  <1>6. CASE AnEdit
    BY <1>6 DEF AnEdit, Editing, Edit, SeededFirst
  <1>7. ASSUME NEW j \in Thread, RecomputeStarts(j) \/ ImportFails(j) \/ RecomputeFails(j)
        PROVE  SeededFirst'
    BY <1>7 DEF RecomputeStarts, ImportFails, RecomputeFails, SeededFirst
  <1>8. ASSUME NEW w \in Writer, ReadRows(w) \/ SaveVectors(w) \/ SaveNames(w) \/ SaveHash(w)
        PROVE  SeededFirst'
    <2>1. Active(w) /\ UNCHANGED <<seeded, boot, api>>
      BY <1>8, WriterSteps
    <2>2. boot.at # "vocabulary"
      BY <2>1, Computers DEF WhoWorks
    <2> QED
      BY <2>1, <2>2 DEF SeededFirst
  <1>9. CASE LoadTagVectors \/ LoadTagNames \/ LoadCategoryVectors \/ LoadCategoryNames
             \/ LoadComputed \/ Warmup
    <2>1. WorkerOnly
      BY <1>9 DEF LoadTagVectors, LoadTagNames, LoadCategoryVectors, LoadCategoryNames,
         LoadComputed, Warmup
    <2> QED
      BY <2>1 DEF WorkerOnly, SeededFirst
  <1>10. CASE Stop
    BY <1>10 DEF Stop, SeededFirst, NoBoot
  <1>11. CASE UNCHANGED vars \/ \E m \in Model : SwitchModel(m)
    BY <1>11 DEF vars, SwitchModel, SeededFirst
  <1> QED
    BY <1>1, <1>2, <1>3, <1>4, <1>5, <1>6, <1>7, <1>8, <1>9, <1>10, <1>11, Steps DEF Kind

\* Nothing makes up for what went wrong.
LEMMA CalmBefore ==
    ASSUME TypeOK, [Next]_vars, calm'
    PROVE  calm
  BY Steps DEF StartApi, StartInstaller, SeedRow, CategoriesSeeded, TagsSeeded, EnsureTagNames,
     EnsureCategoryNames, CheckCaches, VocabularySeeded, InstallerGoesOn, AnEdit, Edit,
     RecomputeStarts, ImportFails, RecomputeFails, ReadRows, SaveVectors, SaveNames, SaveHash,
     LoadTagVectors, LoadTagNames, LoadCategoryVectors, LoadCategoryNames, LoadComputed, Warmup,
     Stop, SwitchModel, vars

--------------------------------------------------------------------------------
(* Vocabulary: what stays true of the files while nothing goes wrong *)

\* The parts of the invariant while nothing went wrong.
LEMMA CalmParts ==
    ASSUME FilesInv, calm
    PROVE  /\ TypeOK /\ Unused /\ WhoWorks /\ SeededFirst
           /\ SeedsAlone /\ OneWriter /\ NoHash /\ Loaded
           /\ \A w \in Writer : Written(writer[w])
           /\ \A k \in Kind : ~Computing(k) => Settled(k)
  BY DEF FilesInv, Calm

\* What nobody computes stays settled when its files and its table stay.
LEMMA SettledFrame ==
    ASSUME NEW k \in Kind, UNCHANGED <<vectors[k], names[k], rows[k], hash[k]>>
    PROVE  Settled(k)' = Settled(k)
  BY DEF Settled

\* What was computed stays written when its files and its table stay.
LEMMA WrittenFrame ==
    ASSUME NEW w \in Writer, writer'[w] = writer[w], UNCHANGED model, writer[w].kind \in Kind,
           UNCHANGED <<vectors[writer[w].kind], names[writer[w].kind], rows[writer[w].kind]>>
    PROVE  Written(writer[w])' = Written(writer[w])
  BY DEF Written

\* Who computes stays the same with the tasks.
LEMMA SameComputers ==
    ASSUME UNCHANGED writer
    PROVE  /\ \A w \in Writer : Active(w)' = Active(w)
           /\ \A k \in Kind : Computing(k)' = Computing(k)
           /\ OneWriter' = OneWriter
  BY Numbers DEF Active, Computing, OneWriter

\* The worker has loaded the vectors of a vocabulary and not yet its names.
Between(k) == \/ k = "tags" /\ worker.at = "labels"
              \/ k = "categories" /\ worker.at = "category_names"

\* What the worker has loaded stays so when its files and who computes stay.
LEMMA LoadedFrame ==
    ASSUME Loaded, UNCHANGED worker,
           \A k \in Kind : Between(k) => vectors'[k] = vectors[k] /\ (Computing(k)' => Computing(k))
    PROVE  Loaded'
  <1>1. "tags" \in Kind /\ "categories" \in Kind
    BY DEF Kind
  <1> QED
    BY <1>1 DEF Loaded, Between, Pairs

\* A start: the seeding begins, or is skipped, and nobody computes.
LEMMA StartCalm ==
    ASSUME FilesInv, calm, StartApi \/ StartInstaller
    PROVE  Calm'
  <1>1. UNCHANGED <<tables, files, writer, model>>
    BY DEF StartApi, StartInstaller
  <1>2. boot'.at = "categories" /\ (boot'.todo = <<>> => seeded)
    <2>1. CASE StartApi
      BY <2>1, VocabularyAssumption DEF StartApi
    <2>2. CASE StartInstaller
      BY <2>2, VocabularyAssumption DEF StartInstaller
    <2> QED
      BY <2>1, <2>2
  <1>3. SeedsAlone' /\ NoHash' /\ OneWriter'
    BY <1>1, <1>2, CalmParts, SameComputers, Numbers DEF SeedsAlone, NoHash, Kind, Clips
  <1>4. Loaded'
    <2>1. CASE UNCHANGED worker
      BY <1>1, <2>1, CalmParts, SameComputers, LoadedFrame
    <2>2. CASE worker' = [at |-> "features", features |-> Nothing, labels |-> Nothing]
      BY <2>2 DEF Loaded, Nothing, Kind
    <2> QED
      BY <2>1, <2>2 DEF StartApi, StartInstaller
  <1>5. \A w \in Writer : Written(writer[w])'
    BY <1>1, CalmParts, TaskFacts DEF Written
  <1>6. \A k \in Kind : ~Computing(k)' => Settled(k)'
    BY <1>1, CalmParts, SameComputers DEF Settled
  <1> QED
    BY <1>3, <1>4, <1>5, <1>6 DEF Calm

\* A row is seeded: there are no vectors of its table yet, and nobody computes them.
LEMMA SeedCalm ==
    ASSUME FilesInv, calm,
           NEW k \in Kind, NEW at \in {"categories", "tags", "vocabulary"},
           k = IF at = "categories" THEN "categories" ELSE "tags", SeedRow(k, at)
    PROVE  Calm'
  <1>1. /\ UNCHANGED <<seeded, files, writer, model, worker>>
        /\ boot.at = at /\ boot'.at = at /\ boot.todo # <<>>
        /\ rows' = [rows EXCEPT ![k] = WithEntry(@, Head(boot.todo))]
    <2>1. boot'.at = at
      BY CalmParts, BootMoves DEF SeedRow
    <2> QED
      BY <2>1 DEF SeedRow
  <1>2. rows'[k] # <<>> /\ \A q \in Kind : q # k => rows'[q] = rows[q]
    <2>1. Head(boot.todo) \in Name /\ rows[k] \in Lists
      BY <1>1, CalmParts, BootFacts, RestOfList DEF TypeOK
    <2> QED
      BY <1>1, <2>1, CalmParts, SeededList DEF TypeOK
  <1>3. vectors[k] = NoFile /\ ~Computing(k)
    <2>1. CASE at = "categories"
      BY <1>1, <2>1, CalmParts DEF SeedsAlone, SeededFirst
    <2>2. CASE at # "categories"
      <3>1. vectors["tags"] = NoFile /\ k = "tags"
        BY <1>1, <2>2, CalmParts DEF SeedsAlone, SeededFirst
      <3>2. ASSUME NEW w \in Writer, Active(w), writer[w].kind = "tags"
            PROVE  FALSE
        BY <1>1, <3>2, CalmParts, Computers DEF WhoWorks, Clips
      <3> QED
        BY <3>1, <3>2 DEF Computing, Active
    <2> QED
      BY <2>1, <2>2
  <1>4. SeedsAlone' /\ NoHash' /\ OneWriter' /\ Loaded'
    <2>1. Loaded'
      BY <1>1, CalmParts, SameComputers, LoadedFrame
    <2>2. NoHash' /\ OneWriter'
      BY <1>1, CalmParts, SameComputers, Numbers DEF NoHash
    <2>3. ~seeded' => vectors'["categories"] = NoFile /\ ~Computing("categories")'
      BY <1>1, CalmParts, SameComputers DEF SeedsAlone, Kind
    <2>4. boot'.at = "tags" => vectors'["tags"] = NoFile
      BY <1>1, <1>3
    <2>5. seeded' => rows'["categories"] # <<>>
      BY <1>1, <1>2, CalmParts DEF SeedsAlone, Kind
    <2>6. \A q \in Kind : rows'[q] = <<>> => vectors'[q] = NoFile
      BY <1>1, <1>2, CalmParts DEF SeedsAlone
    <2>7. boot'.at = "categories" => rows'["categories"] # <<>>
      BY <1>1, <1>2
    <2> QED
      BY <2>1, <2>2, <2>3, <2>4, <2>5, <2>6, <2>7 DEF SeedsAlone
  <1>5. ASSUME NEW w \in Writer
        PROVE  Written(writer[w])'
    <2>1. CASE Active(w)
      <3>1. writer[w].kind # k /\ writer[w].kind \in Kind
        BY <1>3, <2>1, CalmParts, TaskFacts DEF Computing, Active
      <3> QED
        BY <1>1, <1>2, <3>1, CalmParts, WrittenFrame
    <2>2. CASE ~Active(w)
      BY <1>1, <2>2 DEF Active, Written
    <2> QED
      BY <2>1, <2>2
  <1>6. ASSUME NEW q \in Kind, ~Computing(q)'
        PROVE  Settled(q)'
    <2>1. CASE q = k
      BY <1>1, <1>3, <2>1 DEF Settled
    <2>2. CASE q # k
      BY <1>1, <1>2, <1>6, <2>2, CalmParts, SameComputers, SettledFrame
    <2> QED
      BY <2>1, <2>2
  <1> QED
    BY <1>4, <1>5, <1>6 DEF Calm

\* The seeding goes on: what comes next finds tables with rows.
LEMMA SeededCalm ==
    ASSUME FilesInv, calm, CategoriesSeeded \/ TagsSeeded
    PROVE  Calm'
  <1>1. /\ UNCHANGED <<rows, files, writer, model, worker>>
        /\ (seeded => seeded') /\ boot.todo = <<>> /\ boot.at \in {"categories", "tags"}
    <2>1. CASE CategoriesSeeded
      BY <2>1 DEF CategoriesSeeded
    <2>2. CASE TagsSeeded
      BY <2>2 DEF TagsSeeded
    <2> QED
      BY <2>1, <2>2
  <1>2. seeded' => rows["categories"] # <<>>
    BY <1>1, CalmParts DEF SeedsAlone, SeededFirst, CategoriesSeeded, TagsSeeded
  <1>3. /\ boot'.at # "categories"
        /\ boot'.at = "tags" /\ boot'.todo # <<>> => rows["tags"] = <<>>
    <2>1. CASE CategoriesSeeded
      BY <2>1, CalmParts, BootMoves DEF CategoriesSeeded
    <2>2. CASE TagsSeeded
      BY <2>2, CalmParts, BootMoves DEF TagsSeeded
    <2> QED
      BY <2>1, <2>2
  <1>4. SeedsAlone'
    <2>1. \A k \in Kind : rows[k] = <<>> => vectors[k] = NoFile
      BY CalmParts DEF SeedsAlone
    <2>2. ~seeded' => vectors'["categories"] = NoFile /\ ~Computing("categories")'
      BY <1>1, CalmParts, SameComputers DEF SeedsAlone, Kind
    <2> QED
      BY <1>1, <1>2, <1>3, <2>1, <2>2 DEF SeedsAlone, Kind
  <1>5. Loaded' /\ NoHash' /\ OneWriter'
    BY <1>1, CalmParts, SameComputers, LoadedFrame, Numbers DEF NoHash
  <1>6. \A w \in Writer : Written(writer[w])'
    BY <1>1, CalmParts, TaskFacts DEF Written
  <1>7. \A k \in Kind : ~Computing(k)' => Settled(k)'
    BY <1>1, CalmParts, SameComputers DEF Settled
  <1> QED
    BY <1>4, <1>5, <1>6, <1>7 DEF Calm

\* The names of a table are written from the table: beside vectors they are the same names.
LEMMA EnsureCalm ==
    ASSUME FilesInv, calm, EnsureTagNames \/ EnsureCategoryNames
    PROVE  Calm'
  <1>1. /\ UNCHANGED <<tables, vectors, hash, writer, model, worker>>
        /\ boot'.at \notin {"tags", "categories"}
        /\ \A k \in Kind : names'[k] = names[k] \/ (rows[k] # <<>> /\ names'[k] = rows[k])
    <2>1. \A k \in Kind : names'[k] = names[k] \/ (rows[k] # <<>> /\ names'[k] = rows[k])
      BY CalmParts DEF EnsureTagNames, EnsureCategoryNames, EnsureNames, Kind, TypeOK
    <2>2. CASE EnsureTagNames
      BY <2>1, <2>2, CalmParts, BootMoves DEF EnsureTagNames
    <2>3. CASE EnsureCategoryNames
      <3>1. boot'.at \in {"none", "check"}
        <4>1. CASE boot' = NoBoot
          BY <4>1 DEF NoBoot
        <4>2. CASE BootStep("check", <<>>)
          BY <4>2, CalmParts, BootMoves
        <4> QED
          BY <2>3, <4>1, <4>2 DEF EnsureCategoryNames
      <3> QED
        BY <2>1, <2>3, <3>1 DEF EnsureCategoryNames
    <2> QED
      BY <2>2, <2>3
  <1>2. SeedsAlone'
    <2>1. (~seeded)' => vectors'["categories"] = NoFile /\ ~Computing("categories")'
      BY <1>1, CalmParts, SameComputers DEF SeedsAlone, Kind
    <2> QED
      BY <1>1, <2>1, CalmParts DEF SeedsAlone
  <1>3. Loaded' /\ NoHash' /\ OneWriter'
    BY <1>1, CalmParts, SameComputers, LoadedFrame, Numbers DEF NoHash
  <1>4. ASSUME NEW w \in Writer
        PROVE  Written(writer[w])'
    <2>1. writer[w].kind \in Kind /\ Written(writer[w])
      BY CalmParts, TaskFacts
    <2> QED
      BY <1>1, <2>1 DEF Written
  <1>5. \A k \in Kind : ~Computing(k)' => Settled(k)'
    BY <1>1, CalmParts, SameComputers DEF Settled
  <1> QED
    BY <1>2, <1>3, <1>4, <1>5 DEF Calm

\* The installer finds nobody computing, and drops files as a whole.
LEMMA CheckCalm ==
    ASSUME FilesInv, calm, CheckCaches
    PROVE  Calm'
  <1>1. /\ UNCHANGED <<tables, names, writer, model, worker>>
        /\ boot.at = "check" /\ boot'.at \notin {"tags", "categories"}
        /\ \A k \in Kind : \/ vectors'[k] = vectors[k] /\ hash'[k] = hash[k]
                           \/ vectors'[k] = NoFile /\ hash'[k] = NoModel
    <2>1. \A k \in Kind : \/ vectors'[k] = vectors[k] /\ hash'[k] = hash[k]
                          \/ vectors'[k] = NoFile /\ hash'[k] = NoModel
      BY DEF CheckCaches
    <2>2. boot'.at \in {"compute_categories", "vocabulary"}
      BY CalmParts, BootMoves DEF CheckCaches
    <2> QED
      BY <2>1, <2>2 DEF CheckCaches
  <1>2. \A w \in Writer : ~Active(w)
    BY <1>1, CalmParts, Computers DEF WhoWorks
  <1>3. worker.at = "down"
    BY <1>1, CalmParts DEF WhoWorks
  <1>4. SeedsAlone'
    <2>1. (~seeded)' => vectors'["categories"] = NoFile /\ ~Computing("categories")'
      BY <1>1, CalmParts, SameComputers DEF SeedsAlone, Kind
    <2>2. \A k \in Kind : rows'[k] = <<>> => vectors'[k] = NoFile
      BY <1>1, CalmParts DEF SeedsAlone
    <2> QED
      BY <1>1, <2>1, <2>2, CalmParts DEF SeedsAlone
  <1>5. NoHash'
    BY <1>1, <1>2, Numbers, CalmParts DEF NoHash, Active, Kind
  <1>6. Loaded' /\ OneWriter'
    BY <1>1, <1>3, CalmParts, SameComputers DEF Loaded
  <1>7. \A w \in Writer : Written(writer[w])'
    BY <1>1, <1>2 DEF Written, Active
  <1>8. \A k \in Kind : ~Computing(k)' => Settled(k)'
    BY <1>1, CalmParts, SameComputers DEF Settled
  <1> QED
    BY <1>4, <1>5, <1>6, <1>7, <1>8 DEF Calm

\* The installer takes up one vocabulary after the other, alone.
LEMMA InstallCalm ==
    ASSUME FilesInv, calm, VocabularySeeded \/ InstallerGoesOn
    PROVE  Calm'
  <1>1. /\ UNCHANGED <<tables, files, model, worker>> /\ boot.at # "none"
        /\ boot.for = "installer" /\ seeded
    BY CalmParts DEF VocabularySeeded, InstallerGoesOn, WhoWorks, SeededFirst
  <1>2. /\ \A w \in Writer : w # Installer => writer'[w] = writer[w] /\ ~Active(w)
        /\ worker.at = "down"
    <2>1. worker.at = "down" /\ api = "down"
      BY <1>1, CalmParts DEF WhoWorks
    <2>2. \A w \in Writer : w # Installer => ~Active(w)
      BY <1>1, <2>1, CalmParts, Computers
    <2>3. \A w \in Writer : w # Installer => writer'[w] = writer[w]
      BY CalmParts DEF VocabularySeeded, InstallerGoesOn, Compute, TypeOK
    <2> QED
      BY <2>1, <2>2, <2>3
  <1>3. writer'[Installer].at \in {"none", "read"}
    <2>1. CASE Compute(Installer, "tags") \/ Compute(Installer, "categories")
      BY <2>1, CalmParts, Numbers DEF Compute, TypeOK
    <2>2. CASE UNCHANGED writer /\ writer[Installer].at = "none"
      BY <2>2
    <2>3. CASE writer' = [writer EXCEPT ![Installer] = Idle]
      BY <2>3, CalmParts, Numbers DEF Idle, TypeOK
    <2> QED
      BY <2>1, <2>2, <2>3 DEF VocabularySeeded, InstallerGoesOn
  <1>4. boot'.at \notin {"tags", "categories"}
    <2>1. CASE BootStep("compute_tags", <<>>) \/ BootStep("compute_categories", <<>>)
      BY <2>1, CalmParts, BootMoves
    <2>2. CASE boot' = NoBoot
      BY <2>2 DEF NoBoot
    <2>3. CASE UNCHANGED boot /\ boot.at = "compute_categories"
      BY <2>3
    <2> QED
      BY <2>1, <2>2, <2>3 DEF VocabularySeeded, InstallerGoesOn
  <1>5. ~Active(Installer)
    BY CalmParts, Computers, Numbers DEF VocabularySeeded, InstallerGoesOn, Active, WhoWorks
  <1>6. SeedsAlone' /\ OneWriter' /\ Loaded'
    BY <1>1, <1>2, <1>4, CalmParts DEF SeedsAlone, OneWriter, Loaded, Active
  <1>7. NoHash'
    BY <1>1, <1>2, Numbers, CalmParts DEF NoHash, Active
  <1>8. \A w \in Writer : Written(writer[w])'
    BY <1>2, <1>3 DEF Written, Active
  <1>9. \A k \in Kind : Settled(k)'
    <2>1. \A k \in Kind : ~Computing(k)
      BY <1>2, <1>5 DEF Computing, Active
    <2> QED
      BY <1>1, <2>1, CalmParts DEF Settled
  <1> QED
    BY <1>6, <1>7, <1>8, <1>9 DEF Calm

\* An edit that meets nobody on its vocabulary, and its thread.
LEMMA EditCalm ==
    ASSUME FilesInv, calm, AnEdit, calm'
    PROVE  Calm'
  <1>1. PICK k \in Kind, list \in Lists : Editing /\ Edit(k, list)
    BY DEF AnEdit
  <1>2. /\ rows' = [rows EXCEPT ![k] = list] /\ ~Computing(k) /\ ~Loading(k) /\ list # <<>>
        /\ UNCHANGED <<seeded, files, model, worker, boot, api>> /\ api = "up"
    BY <1>1 DEF Editing, Edit
  <1>3. /\ editsLeft \in Thread
        /\ writer'[editsLeft] = [at |-> "new", kind |-> k, list |-> <<>>]
        /\ \A w \in Writer : w # editsLeft => writer'[w] = writer[w]
    BY <1>1, CalmParts, EditTakes
  <1>4. seeded /\ boot.at = "none"
    BY <1>2, CalmParts DEF SeededFirst, WhoWorks
  <1>5. rows'[k] = list /\ \A q \in Kind : q # k => rows'[q] = rows[q]
    BY <1>2, CalmParts DEF TypeOK
  <1>6. \A w \in Writer : Active(w) => writer[w].kind # k /\ writer[w].kind \in Kind
    BY <1>2, CalmParts, TaskFacts DEF Computing, Active
  <1>7. \A q \in Kind : q # k => (Computing(q)' => Computing(q))
    BY <1>3, Numbers DEF Computing
  <1>8. SeedsAlone'
    BY <1>2, <1>4, <1>5, CalmParts DEF SeedsAlone, Kind
  <1>9. OneWriter'
    <2>1. \A w \in Writer : w # editsLeft /\ Active(w)' => Active(w) /\ writer'[w].kind # k
      BY <1>3, <1>6 DEF Active
    <2>2. \A v, w \in Writer : v # editsLeft /\ w # editsLeft /\ Active(v)' /\ Active(w)'
             /\ writer'[v].kind = writer'[w].kind => v = w
      BY <1>3, <2>1, CalmParts DEF OneWriter
    <2> QED
      BY <1>3, <2>1, <2>2 DEF OneWriter
  <1>10. NoHash'
    BY <1>2, <1>3, Numbers, CalmParts DEF NoHash, Active
  <1>11. Loaded'
    <2>1. \A q \in Kind : Between(q) => (Computing(q)' => Computing(q))
      BY <1>2, <1>7 DEF Between, Loading
    <2> QED
      BY <1>2, <2>1, CalmParts, LoadedFrame
  <1>12. ASSUME NEW w \in Writer
         PROVE  Written(writer[w])'
    <2>1. CASE w = editsLeft
      BY <1>3, <2>1 DEF Written
    <2>2. CASE w # editsLeft /\ Active(w)
      BY <1>2, <1>3, <1>5, <1>6, <2>2, CalmParts, WrittenFrame
    <2>3. CASE w # editsLeft /\ ~Active(w)
      BY <1>3, <2>3 DEF Active, Written
    <2> QED
      BY <2>1, <2>2, <2>3
  <1>13. ASSUME NEW q \in Kind, ~Computing(q)'
         PROVE  Settled(q)'
    <2>1. q # k
      BY <1>3, <1>13, Numbers DEF Computing
    <2>2. ~Computing(q)
      <3>1. ASSUME NEW w \in Writer, Active(w), writer[w].kind = q
            PROVE  FALSE
        <4>1. w # editsLeft
          <5>1. editsLeft <= editsLeft
            BY <1>3, VocabularyAssumption DEF Thread
          <5> QED
            BY <1>3, <3>1, <5>1, CalmParts DEF Unused
        <4> QED
          BY <1>3, <1>13, <3>1, <4>1 DEF Computing, Active
      <3> QED
        BY <3>1 DEF Computing, Active
    <2> QED
      BY <1>2, <1>5, <2>1, <2>2, CalmParts, SettledFrame
  <1> QED
    BY <1>8, <1>9, <1>10, <1>11, <1>12, <1>13 DEF Calm

\* A thread that begins writes no file.
LEMMA BeginCalm ==
    ASSUME FilesInv, calm, NEW j \in Thread, RecomputeStarts(j)
    PROVE  Calm'
  <1>1. UNCHANGED <<tables, files, model, api, boot, worker>> /\ j \in Writer /\ Active(j)
    BY Numbers DEF RecomputeStarts, Active
  <1>2. /\ writer'[j].at = "read" /\ writer'[j].kind = writer[j].kind
        /\ \A w \in Writer : w # j => writer'[w] = writer[w]
    <2>1. WriterStep(j, "read") /\ "read" \in WriterStage
      BY DEF RecomputeStarts, WriterStep, WriterStage
    <2>2. /\ writer'[j] = [at |-> "read", kind |-> writer[j].kind, list |-> writer[j].list]
          /\ \A w \in Writer : w # j => writer'[w] = writer[w]
      BY <1>1, <2>1, CalmParts, WriterTyped
    <2> QED
      BY <2>2
  <1>3. \A w \in Writer : Active(w)' = Active(w) /\ writer'[w].kind = writer[w].kind
    BY <1>1, <1>2 DEF Active
  <1>4. \A k \in Kind : Computing(k)' = Computing(k)
    BY <1>3 DEF Computing, Active
  <1>5. SeedsAlone' /\ OneWriter' /\ NoHash' /\ Loaded'
    BY <1>1, <1>3, <1>4, CalmParts, LoadedFrame, Numbers DEF SeedsAlone, OneWriter, NoHash, Kind
  <1>6. ASSUME NEW w \in Writer
        PROVE  Written(writer[w])'
    <2>1. CASE w = j
      BY <1>2, <2>1 DEF Written
    <2>2. CASE w # j
      BY <1>1, <1>2, <2>2, CalmParts DEF Written
    <2> QED
      BY <2>1, <2>2
  <1>7. \A k \in Kind : ~Computing(k)' => Settled(k)'
    BY <1>1, <1>4, CalmParts DEF Settled
  <1> QED
    BY <1>5, <1>6, <1>7 DEF Calm

\* The steps of a computation leave the others, which are at another vocabulary.
LEMMA WriterFrame ==
    ASSUME FilesInv, calm, NEW w \in Writer,
           ReadRows(w) \/ SaveVectors(w) \/ SaveNames(w) \/ SaveHash(w),
           \A k \in Kind : k # writer[w].kind =>
              UNCHANGED <<vectors[k], names[k], hash[k]>>
    PROVE  /\ UNCHANGED <<tables, model, api, boot, worker, bounds>> /\ Active(w)
           /\ \A v \in Writer : v # w => writer'[v] = writer[v]
           /\ writer[w].kind \in Kind /\ writer'[w].kind = writer[w].kind /\ Written(writer[w])
           /\ \A k \in Kind : Computing(k)' => Computing(k)
           /\ Computing(writer[w].kind)
           /\ OneWriter'
           /\ \A v \in Writer : v # w => Written(writer[v])'
           /\ \A k \in Kind : k # writer[w].kind /\ ~Computing(k)' => Settled(k)'
           /\ writer[w].kind = "tags" \/ seeded
  <1>1. /\ \A v \in Writer : v # w => writer'[v] = writer[v]
        /\ Active(w) /\ writer'[w].kind = writer[w].kind
        /\ UNCHANGED <<tables, model, api, boot, worker, bounds>>
    BY CalmParts, WriterSteps
  <1>2. writer[w].kind \in Kind /\ Written(writer[w])
    BY CalmParts, TaskFacts
  <1>3. \A v \in Writer : Active(v)' => Active(v) /\ writer'[v].kind = writer[v].kind
    BY <1>1 DEF Active
  <1>4. \A k \in Kind : Computing(k)' => Computing(k)
    BY <1>3 DEF Computing, Active
  <1>5. OneWriter'
    BY <1>3, CalmParts DEF OneWriter
  <1>6. Computing(writer[w].kind)
    BY <1>1 DEF Computing, Active
  <1>7. ASSUME NEW v \in Writer, v # w
        PROVE  Written(writer[v])'
    <2>1. CASE Active(v)
      <3>1. writer[v].kind \in Kind /\ writer[v].kind # writer[w].kind
        BY <1>1, <1>7, <2>1, CalmParts, TaskFacts DEF OneWriter
      <3> QED
        BY <1>1, <1>7, <3>1, CalmParts, WrittenFrame
    <2>2. CASE ~Active(v)
      BY <1>1, <1>7, <2>2 DEF Active, Written
    <2> QED
      BY <2>1, <2>2
  <1>8. ASSUME NEW k \in Kind, k # writer[w].kind, ~Computing(k)'
        PROVE  Settled(k)'
    <2>1. ~Computing(k)
      <3>1. ASSUME NEW v \in Writer, writer[v].at # "none", writer[v].kind = k
            PROVE  FALSE
        BY <1>1, <1>8, <3>1 DEF Computing
      <3> QED
        BY <3>1 DEF Computing
    <2> QED
      BY <1>1, <1>8, <2>1, CalmParts, SettledFrame
  <1>9. writer[w].kind = "tags" \/ seeded
    BY <1>2, <1>6, CalmParts DEF SeedsAlone, Kind
  <1> QED
    BY <1>1, <1>2, <1>4, <1>5, <1>6, <1>7, <1>8, <1>9

\* The table is read as it is.
LEMMA ReadCalm ==
    ASSUME FilesInv, calm, NEW w \in Writer, ReadRows(w)
    PROVE  Calm'
  <1> DEFINE k == writer[w].kind
  <1>1. UNCHANGED files
    BY DEF ReadRows
  <1>2. /\ UNCHANGED <<tables, model, api, boot, worker, bounds>> /\ Active(w)
        /\ k \in Kind /\ writer'[w].kind = k
        /\ \A q \in Kind : Computing(q)' => Computing(q)
        /\ OneWriter' /\ \A v \in Writer : v # w => Written(writer[v])'
        /\ \A v \in Writer : v # w => writer'[v] = writer[v]
        /\ \A q \in Kind : q # k /\ ~Computing(q)' => Settled(q)'
    BY <1>1, WriterFrame
  <1>3. /\ writer'[w].list = rows[k]
        /\ writer'[w].at = IF rows[k] = <<>> THEN "hash" ELSE "vectors"
    BY CalmParts DEF ReadRows, TypeOK, Tasks
  <1>4. Computing(k)'
    BY <1>2, <1>3 DEF Computing
  <1>5. SeedsAlone' /\ Loaded'
    BY <1>1, <1>2, CalmParts, LoadedFrame DEF SeedsAlone, Kind
  <1>6. NoHash'
    <2>1. Active(Clip)' => Active(Clip)
      BY <1>2, Numbers DEF Active
    <2> QED
      BY <1>1, <2>1, CalmParts DEF NoHash
  <1>7. Written(writer[w])'
    BY <1>2, <1>3 DEF Written
  <1> QED
    BY <1>2, <1>4, <1>5, <1>6, <1>7 DEF Calm

\* The vectors are saved: of the table, with the model.
LEMMA VectorsCalm ==
    ASSUME FilesInv, calm, NEW w \in Writer, SaveVectors(w)
    PROVE  Calm'
  <1> DEFINE k == writer[w].kind
             saved == [list |-> writer[w].list, of |-> model]
  <1>1. /\ UNCHANGED <<names, hash>> /\ \A q \in Kind : q # k => vectors'[q] = vectors[q]
    BY CalmParts DEF SaveVectors, TypeOK
  <1>2. /\ UNCHANGED <<tables, model, api, boot, worker, bounds>> /\ Active(w)
        /\ k \in Kind /\ writer'[w].kind = k /\ Written(writer[w]) /\ Computing(k)
        /\ \A q \in Kind : Computing(q)' => Computing(q)
        /\ OneWriter' /\ \A v \in Writer : v # w => Written(writer[v])'
        /\ \A v \in Writer : v # w => writer'[v] = writer[v]
        /\ \A q \in Kind : q # k /\ ~Computing(q)' => Settled(q)'
        /\ k = "tags" \/ seeded
    BY <1>1, WriterFrame
  <1>3. vectors'[k] = saved
    BY <1>2, CalmParts DEF SaveVectors, TypeOK
  <1>4. writer'[w].list = writer[w].list /\ writer'[w].at = "names"
    <2>1. WriterStep(w, "names") /\ "names" \in WriterStage
      BY DEF SaveVectors, WriterStage
    <2>2. writer'[w] = [at |-> "names", kind |-> k, list |-> writer[w].list]
      BY <2>1, CalmParts, WriterTyped
    <2> QED
      BY <2>2
  <1>5. Computing(k)'
    BY <1>2, <1>4 DEF Computing
  <1>6. writer[w].list = rows[k] /\ writer[w].list # <<>>
    BY <1>2 DEF SaveVectors, Written
  <1>7. saved # NoFile
    <2>1. saved \in Vectors
      BY CalmParts, TaskFacts DEF Vectors, TypeOK
    <2> QED
      BY <2>1, VocabularyAssumption DEF Vectors
  <1>8. SeedsAlone'
    <2>1. boot.at = "tags" => k # "tags"
      BY <1>2, CalmParts, Computers DEF WhoWorks, Clips
    <2>2. \A q \in Kind : rows'[q] = <<>> => vectors'[q] = NoFile
      BY <1>1, <1>2, <1>6, CalmParts DEF SeedsAlone
    <2>3. ~seeded' => vectors'["categories"] = NoFile /\ ~Computing("categories")'
      BY <1>1, <1>2, CalmParts DEF SeedsAlone, Kind
    <2>4. boot'.at = "tags" /\ boot'.todo # <<>> => vectors'["tags"] = NoFile
      BY <1>1, <1>2, <2>1, CalmParts DEF SeedsAlone, Kind
    <2> QED
      BY <1>2, <2>2, <2>3, <2>4, CalmParts DEF SeedsAlone
  <1>9. Loaded'
    <2>1. \A q \in Kind : Between(q) => ~Computing(q)
      BY CalmParts DEF Between, Loaded
    <2>2. \A q \in Kind : Between(q) => vectors'[q] = vectors[q]
      BY <1>1, <1>2, <2>1
    <2> QED
      BY <1>2, <2>2, CalmParts, LoadedFrame
  <1>10. NoHash'
    <2>1. Active(Clip)' => Active(Clip)
      BY <1>2, Numbers DEF Active
    <2>2. vectors'["categories"] = NoFile => vectors["categories"] = NoFile
      BY <1>1, <1>3, <1>7, CalmParts DEF Kind
    <2> QED
      BY <1>1, <2>1, <2>2, CalmParts DEF NoHash
  <1>11. Written(writer[w])'
    BY <1>2, <1>3, <1>4, <1>6 DEF Written
  <1> QED
    BY <1>2, <1>5, <1>8, <1>9, <1>10, <1>11 DEF Calm

\* The names are saved beside the vectors, of the same list.
LEMMA NamesCalm ==
    ASSUME FilesInv, calm, NEW w \in Writer, SaveNames(w)
    PROVE  Calm'
  <1> DEFINE k == writer[w].kind
  <1>1. /\ UNCHANGED <<vectors, hash>> /\ \A q \in Kind : q # k => names'[q] = names[q]
    BY CalmParts DEF SaveNames, TypeOK
  <1>2. /\ UNCHANGED <<tables, model, api, boot, worker, bounds>> /\ Active(w)
        /\ k \in Kind /\ writer'[w].kind = k /\ Written(writer[w])
        /\ \A q \in Kind : Computing(q)' => Computing(q)
        /\ OneWriter' /\ \A v \in Writer : v # w => Written(writer[v])'
        /\ \A v \in Writer : v # w => writer'[v] = writer[v]
        /\ \A q \in Kind : q # k /\ ~Computing(q)' => Settled(q)'
    BY <1>1, WriterFrame
  <1>3. names'[k] = writer[w].list
    BY <1>2, CalmParts DEF SaveNames, TypeOK
  <1>4. writer'[w].list = writer[w].list /\ writer'[w].at = "hash"
    <2>1. WriterStep(w, "hash") /\ "hash" \in WriterStage
      BY DEF SaveNames, WriterStage
    <2>2. writer'[w] = [at |-> "hash", kind |-> k, list |-> writer[w].list]
      BY <2>1, CalmParts, WriterTyped
    <2> QED
      BY <2>2
  <1>5. Computing(k)'
    BY <1>2, <1>4 DEF Computing
  <1>6. SeedsAlone' /\ Loaded'
    BY <1>1, <1>2, CalmParts, LoadedFrame DEF SeedsAlone, Kind
  <1>7. NoHash'
    <2>1. Active(Clip)' => Active(Clip)
      BY <1>2, Numbers DEF Active
    <2> QED
      BY <1>1, <2>1, CalmParts DEF NoHash
  <1>8. Written(writer[w])'
    <2>1. writer[w].list = rows[k] /\ vectors[k] = [list |-> writer[w].list, of |-> model]
      BY <1>2 DEF SaveNames, Written
    <2> QED
      BY <1>1, <1>2, <1>3, <1>4, <2>1 DEF Written
  <1> QED
    BY <1>2, <1>5, <1>6, <1>7, <1>8 DEF Calm

\* The hash is saved last, by a thread or the installer: what they computed is settled.
LEMMA HashCalm ==
    ASSUME FilesInv, calm, NEW w \in Writer, SaveHash(w)
    PROVE  Calm'
  <1> DEFINE k == writer[w].kind
  <1>1. /\ UNCHANGED <<vectors, names>> /\ \A q \in Kind : q # k => hash'[q] = hash[q]
    BY CalmParts DEF SaveHash, TypeOK
  <1>2. /\ UNCHANGED <<tables, model, api, boot, worker, bounds>> /\ Active(w)
        /\ k \in Kind /\ writer'[w].kind = k /\ Written(writer[w]) /\ Computing(k)
        /\ \A q \in Kind : Computing(q)' => Computing(q)
        /\ OneWriter' /\ \A v \in Writer : v # w => Written(writer[v])'
        /\ \A v \in Writer : v # w => writer'[v] = writer[v]
        /\ \A q \in Kind : q # k /\ ~Computing(q)' => Settled(q)'
        /\ k = "tags" \/ seeded
    BY <1>1, WriterFrame
  <1>3. hash'[k] = model /\ w # Clip
    BY <1>2, CalmParts DEF SaveHash, TypeOK
  <1>4. writer'[w].at = "none"
    BY CalmParts, WriterSteps
  <1>5. /\ writer[w].list = rows[k]
        /\ rows[k] # <<>> => /\ vectors[k] = [list |-> rows[k], of |-> model]
                             /\ names[k] = rows[k]
    BY <1>2 DEF SaveHash, Written
  <1>6. rows[k] = <<>> => vectors[k] = NoFile
    BY <1>2, CalmParts DEF SeedsAlone
  <1>7. SeedsAlone' /\ Loaded'
    BY <1>1, <1>2, CalmParts, LoadedFrame DEF SeedsAlone, Kind
  <1>8. NoHash'
    <2>1. Active(Clip)' => Active(Clip) /\ Clip \in Writer
      BY <1>2, <1>3, Numbers DEF Active
    <2>2. CASE k = "tags"
      BY <1>1, <2>1, <2>2, CalmParts DEF NoHash, Kind
    <2>3. CASE k = "categories"
      <3>1. ~Active(Clip)'
        BY <1>2, <1>3, <2>1, <2>3, CalmParts DEF OneWriter, WhoWorks, Clips
      <3>2. rows[k] # <<>> /\ rows[k] \in Lists /\ model \in Model
        BY <1>2, <2>3, CalmParts DEF SeedsAlone, TypeOK
      <3>3. vectors[k] # NoFile
        BY <1>5, <3>2, VocabularyAssumption
      <3> QED
        BY <1>1, <2>3, <3>1, <3>3 DEF NoHash
    <2> QED
      BY <1>2, <2>2, <2>3 DEF Kind
  <1>9. Written(writer[w])'
    BY <1>4 DEF Written
  <1>10. Settled(k)'
    <2>1. vectors'[k] = vectors[k] /\ names'[k] = names[k] /\ rows'[k] = rows[k]
      BY <1>1, <1>2
    <2>2. vectors[k] # NoFile => /\ vectors[k].list = names[k] /\ names[k] = rows[k]
                                 /\ vectors[k].of = model
      BY <1>5, <1>6
    <2> QED
      BY <1>2, <1>3, <2>1, <2>2 DEF Settled
  <1>11. \A v \in Writer : Written(writer[v])'
    BY <1>2, <1>9
  <1>12. \A q \in Kind : ~Computing(q)' => Settled(q)'
    BY <1>2, <1>10
  <1> QED
    BY <1>2, <1>7, <1>8, <1>11, <1>12 DEF Calm

\* A step of the worker that computes nothing leaves all but what it has loaded.
LEMMA WorkerFrame ==
    ASSUME FilesInv, calm, UNCHANGED <<tables, files, model, boot, writer>>
    PROVE  /\ SeedsAlone' /\ OneWriter' /\ NoHash'
           /\ \A w \in Writer : Written(writer[w])'
           /\ \A k \in Kind : ~Computing(k)' => Settled(k)'
  <1>1. SeedsAlone'
    BY CalmParts, SameComputers DEF SeedsAlone, Kind
  <1>2. NoHash' /\ OneWriter'
    BY CalmParts, SameComputers, Numbers DEF NoHash
  <1>3. \A w \in Writer : Written(writer[w])'
    BY CalmParts, TaskFacts DEF Written
  <1>4. \A k \in Kind : ~Computing(k)' => Settled(k)'
    BY CalmParts, SameComputers DEF Settled
  <1> QED
    BY <1>1, <1>2, <1>3, <1>4

\* The files of a vocabulary nobody computes are of one list, or there are no vectors.
LEMMA SettledFiles ==
    ASSUME FilesInv, calm, NEW k \in Kind, ~Computing(k), vectors[k] # NoFile
    PROVE  vectors[k].list = names[k] /\ names[k] # NoFile
  BY CalmParts, VocabularyAssumption DEF Settled, TypeOK

\* The worker loads the vectors of the tags, and their names in the next step.
LEMMA LoadTagsCalm ==
    ASSUME FilesInv, calm, calm', LoadTagVectors \/ LoadTagNames
    PROVE  Calm'
  <1>1. UNCHANGED <<tables, files, model, boot, writer>>
    BY DEF LoadTagVectors, LoadTagNames, WorkerOnly
  <1>2. "tags" \in Kind /\ "categories" \in Kind
    BY DEF Kind
  <1>3. CASE LoadTagVectors
    <2>1. /\ worker'.at = "labels" /\ worker'.features["tags"] = vectors["tags"]
          /\ worker'.features["categories"] = worker.features["categories"]
      BY <1>2, <1>3, CalmParts, WorkerFacts DEF LoadTagVectors
    <2>2. ~Computing("tags") /\ worker.features["categories"] = NoFile
      BY <1>3, CalmParts DEF LoadTagVectors, Loaded
    <2>3. Loaded'
      BY <1>1, <1>2, <2>1, <2>2, SameComputers DEF Loaded
    <2> QED
      BY <1>1, <2>3, WorkerFrame DEF Calm
  <1>4. CASE LoadTagNames
    <2>1. /\ worker'.at = "categories" /\ worker'.features = worker.features
          /\ worker'.labels["tags"] = IF names["tags"] = NoFile THEN Defaults ELSE names["tags"]
      BY <1>2, <1>4, CalmParts, WorkerFacts DEF LoadTagNames
    <2>2. /\ ~Computing("tags") /\ worker.features["tags"] = vectors["tags"]
          /\ worker.features["categories"] = NoFile
      BY <1>4, CalmParts DEF LoadTagNames, Loaded
    <2>3. Pairs("tags")'
      BY <1>2, <2>1, <2>2, SettledFiles DEF Pairs
    <2>4. Loaded'
      BY <2>1, <2>2, <2>3 DEF Loaded
    <2> QED
      BY <1>1, <2>4, WorkerFrame DEF Calm
  <1> QED
    BY <1>3, <1>4

\* The worker finds both files of the categories, or no row, and computes nothing.
LEMMA LoadCategoriesCalm ==
    ASSUME FilesInv, calm, calm', LoadCategoryVectors, UNCHANGED writer
    PROVE  Calm'
  <1>1. UNCHANGED <<tables, files, model, boot, writer>>
    BY DEF LoadCategoryVectors, WorkerOnly
  <1>2. "tags" \in Kind /\ "categories" \in Kind
    BY DEF Kind
  <1>3. ~Computing("categories") /\ Pairs("tags") /\ worker.features["categories"] = NoFile
    BY CalmParts DEF LoadCategoryVectors, Loaded
  <1>4. CASE worker' = [worker EXCEPT !.at = "category_names",
                                      !.features["categories"] = vectors["categories"]]
    <2>1. /\ worker'.at = "category_names" /\ worker'.labels = worker.labels
          /\ worker'.features["categories"] = vectors["categories"]
          /\ worker'.features["tags"] = worker.features["tags"]
      BY <1>2, <1>4, CalmParts, WorkerFacts
    <2>2. Loaded'
      BY <1>1, <1>2, <1>3, <2>1, SameComputers DEF Loaded, Pairs
    <2> QED
      BY <1>1, <2>2, WorkerFrame DEF Calm
  <1>5. CASE worker' = [worker EXCEPT !.at = "serving"]
    <2>1. /\ worker'.at = "serving" /\ worker'.labels = worker.labels
          /\ worker'.features = worker.features
      BY <1>5, CalmParts, WorkerFacts
    <2>2. Loaded'
      BY <1>3, <2>1 DEF Loaded, Pairs
    <2> QED
      BY <1>1, <2>2, WorkerFrame DEF Calm
  <1>6. worker' # [worker EXCEPT !.at = "computing"]
    <2>1. SUFFICES ASSUME worker' = [worker EXCEPT !.at = "computing"]
                   PROVE  FALSE
      OBVIOUS
    <2>2. worker'.at = "computing"
      BY <2>1, CalmParts, WorkerFacts
    <2>3. writer' = [writer EXCEPT ![Clip] =
                       [at |-> "vectors", kind |-> "categories", list |-> rows["categories"]]]
      <3>1. CASE worker' = [worker EXCEPT !.at = "category_names",
                                          !.features["categories"] = vectors["categories"]]
        BY <2>2, <3>1, CalmParts, WorkerFacts
      <3>2. CASE worker' = [worker EXCEPT !.at = "serving"]
        BY <2>2, <3>2, CalmParts, WorkerFacts
      <3> QED
        BY <3>1, <3>2 DEF LoadCategoryVectors
    <2>4. writer[Clip].at = "vectors" /\ writer[Clip].kind = "categories"
      BY <2>3, CalmParts, Numbers DEF TypeOK
    <2> QED
      BY <1>3, <2>4, Numbers DEF Computing
  <1> QED
    BY <1>4, <1>5, <1>6 DEF LoadCategoryVectors

\* The worker finds no files of the categories and begins to compute them, of all the rows.
LEMMA ComputeCalm ==
    ASSUME FilesInv, calm, calm', LoadCategoryVectors,
           vectors["categories"] = NoFile \/ names["categories"] = NoFile,
           rows["categories"] # <<>>
    PROVE  Calm'
  <1> DEFINE begun == [at |-> "vectors", kind |-> "categories", list |-> rows["categories"]]
  <1>1. UNCHANGED <<tables, files, model, boot>> /\ ~Computing("categories") /\ seeded
    BY DEF LoadCategoryVectors, WorkerOnly
  <1>2. "tags" \in Kind /\ "categories" \in Kind
    BY DEF Kind
  <1>3. worker' = [worker EXCEPT !.at = "computing"] /\ writer' = [writer EXCEPT ![Clip] = begun]
    BY DEF LoadCategoryVectors
  <1>4. writer'[Clip] = begun /\ \A w \in Writer : w # Clip => writer'[w] = writer[w]
    BY <1>3, CalmParts, Numbers DEF TypeOK
  <1>5. SeedsAlone'
    BY <1>1, CalmParts DEF SeedsAlone
  <1>6. \A w \in Writer : w # Clip => writer[w].kind # "categories" \/ ~Active(w)
    BY <1>1 DEF Computing, Active
  <1>7. OneWriter'
    <2>1. \A w \in Writer : w # Clip /\ Active(w)' => Active(w) /\ writer'[w].kind # "categories"
      BY <1>4, <1>6 DEF Active
    <2>2. \A v, w \in Writer : v # Clip /\ w # Clip /\ Active(v)' /\ Active(w)'
             /\ writer'[v].kind = writer'[w].kind => v = w
      BY <1>4, <2>1, CalmParts DEF OneWriter
    <2> QED
      BY <1>4, <2>1, <2>2 DEF OneWriter
  <1>8. vectors["categories"] = NoFile
    BY <1>1, <1>2, SettledFiles
  <1>9. NoHash'
    BY <1>1, <1>8, CalmParts DEF NoHash
  <1>10. Loaded'
    <2>1. /\ worker'.at = "computing" /\ worker'.features = worker.features
          /\ worker'.labels = worker.labels
      BY <1>3, CalmParts, WorkerFacts
    <2>2. Pairs("tags") /\ worker.features["categories"] = NoFile
      BY CalmParts DEF LoadCategoryVectors, Loaded
    <2> QED
      BY <2>1, <2>2 DEF Loaded, Pairs
  <1>11. ASSUME NEW w \in Writer
         PROVE  Written(writer[w])'
    <2>1. CASE w = Clip
      BY <1>1, <1>4, <2>1 DEF Written
    <2>2. CASE w # Clip
      BY <1>1, <1>4, <2>2, CalmParts, TaskFacts, WrittenFrame
    <2> QED
      BY <2>1, <2>2
  <1>12. ASSUME NEW k \in Kind, ~Computing(k)'
         PROVE  Settled(k)'
    <2>1. k # "categories"
      BY <1>4, <1>12, Numbers DEF Computing
    <2>2. ASSUME NEW w \in Writer, Active(w), writer[w].kind = k
          PROVE  FALSE
      <3>1. w # Clip
        BY <2>2, CalmParts, Computers, <1>1, <1>2 DEF WhoWorks, Computing, Active, Clips,
           LoadCategoryVectors
      <3> QED
        BY <1>4, <1>12, <2>2, <3>1 DEF Computing, Active
    <2>3. ~Computing(k)
      BY <2>2 DEF Computing, Active
    <2> QED
      BY <1>1, <2>3, CalmParts, SettledFrame
  <1> QED
    BY <1>5, <1>7, <1>9, <1>10, <1>11, <1>12 DEF Calm

\* The worker loads the names of the categories, or begins again.
LEMMA ServeCalm ==
    ASSUME FilesInv, calm, LoadCategoryNames \/ Warmup
    PROVE  Calm'
  <1>1. UNCHANGED <<tables, files, model, boot, writer>>
    BY DEF LoadCategoryNames, Warmup, WorkerOnly
  <1>2. "tags" \in Kind /\ "categories" \in Kind
    BY DEF Kind
  <1>3. CASE LoadCategoryNames
    <2>1. /\ worker'.at = "serving" /\ worker'.features = worker.features
          /\ worker'.labels["categories"] = names["categories"]
          /\ worker'.labels["tags"] = worker.labels["tags"]
      BY <1>2, <1>3, CalmParts, WorkerFacts DEF LoadCategoryNames
    <2>2. /\ ~Computing("categories") /\ worker.features["categories"] = vectors["categories"]
          /\ Pairs("tags")
      BY <1>3, CalmParts DEF LoadCategoryNames, Loaded
    <2>3. Pairs("categories")' /\ Pairs("tags")'
      BY <1>2, <2>1, <2>2, SettledFiles DEF Pairs
    <2>4. Loaded'
      BY <2>1, <2>3 DEF Loaded
    <2> QED
      BY <1>1, <2>4, WorkerFrame DEF Calm
  <1>4. CASE Warmup
    <2>1. worker'.at = "features" /\ worker'.features["categories"] = NoFile
      BY <1>2, <1>4 DEF Warmup, Nothing
    <2>2. Loaded'
      BY <2>1 DEF Loaded
    <2> QED
      BY <1>1, <2>2, WorkerFrame DEF Calm
  <1> QED
    BY <1>3, <1>4

\* The worker loads what it computed, and its files are settled without a hash.
LEMMA LoadComputedCalm ==
    ASSUME FilesInv, calm, LoadComputed
    PROVE  Calm'
  <1>1. UNCHANGED <<tables, files, model, boot>>
    BY DEF LoadComputed, WorkerOnly
  <1>2. "tags" \in Kind /\ "categories" \in Kind
    BY DEF Kind
  <1>3. /\ writer'[Clip].at = "none" /\ \A w \in Writer : w # Clip => writer'[w] = writer[w]
    BY CalmParts, Numbers DEF LoadComputed, TypeOK, Idle
  <1>4. /\ Active(Clip) /\ writer[Clip].kind = "categories" /\ writer[Clip].at = "hash"
        /\ Computing("categories")
    BY CalmParts, Numbers DEF LoadComputed, WhoWorks, Clips, Computing, Active
  <1>5. rows["categories"] # <<>>
    BY <1>4, CalmParts DEF SeedsAlone
  <1>6. /\ writer[Clip].list = rows["categories"] /\ names["categories"] = rows["categories"]
        /\ vectors["categories"] = [list |-> rows["categories"], of |-> model]
    BY <1>4, <1>5, CalmParts, Numbers DEF Written
  <1>7. hash["categories"] = NoModel
    BY <1>4, CalmParts DEF NoHash
  <1>8. \A k \in Kind : Computing(k)' => Computing(k)
    BY <1>3 DEF Computing
  <1>9. SeedsAlone'
    BY <1>1, <1>2, <1>8, CalmParts DEF SeedsAlone
  <1>10. OneWriter' /\ NoHash'
    BY <1>1, <1>3, <1>7, CalmParts DEF OneWriter, NoHash, Active
  <1>11. Loaded'
    <2>1. /\ worker'.at = "serving" /\ worker'.features["tags"] = worker.features["tags"]
          /\ worker'.labels["tags"] = worker.labels["tags"]
          /\ worker'.features["categories"] = vectors["categories"]
          /\ worker'.labels["categories"] = writer[Clip].list
      BY <1>2, CalmParts, WorkerFacts DEF LoadComputed
    <2>2. Pairs("tags")
      BY CalmParts DEF LoadComputed, Loaded
    <2>3. Pairs("tags")' /\ Pairs("categories")'
      BY <1>6, <2>1, <2>2 DEF Pairs
    <2> QED
      BY <2>1, <2>3 DEF Loaded
  <1>12. ASSUME NEW w \in Writer
         PROVE  Written(writer[w])'
    <2>1. CASE w = Clip
      BY <1>3, <2>1 DEF Written
    <2>2. CASE w # Clip
      BY <1>1, <1>3, <2>2, CalmParts, TaskFacts, WrittenFrame
    <2> QED
      BY <2>1, <2>2
  <1>13. ASSUME NEW k \in Kind, ~Computing(k)'
         PROVE  Settled(k)'
    <2>1. CASE k = "categories"
      BY <1>1, <1>6, <1>7, <2>1 DEF Settled
    <2>2. CASE k # "categories"
      <3>1. ASSUME NEW w \in Writer, Active(w), writer[w].kind = k
            PROVE  FALSE
        BY <1>3, <1>4, <1>13, <2>2, <3>1 DEF Computing, Active
      <3>2. ~Computing(k)
        BY <3>1 DEF Computing, Active
      <3> QED
        BY <1>1, <3>2, CalmParts, SettledFrame
    <2> QED
      BY <2>1, <2>2
  <1> QED
    BY <1>9, <1>10, <1>11, <1>12, <1>13 DEF Calm

\* An end that meets no computation, and a new model between two runs.
LEMMA StopCalm ==
    ASSUME FilesInv, calm, calm', Stop \/ \E m \in Model : SwitchModel(m)
    PROVE  Calm'
  <1>1. UNCHANGED <<tables, files>> /\ boot'.at = "none" /\ worker'.at = "down"
    <2>1. CASE Stop
      BY <2>1 DEF Stop, NoBoot
    <2>2. CASE \E m \in Model : SwitchModel(m)
      BY <2>2, CalmParts DEF SwitchModel, WhoWorks
    <2> QED
      BY <2>1, <2>2
  <1>2. \A w \in Writer : ~Active(w)
    <2>1. CASE Stop
      BY <2>1 DEF Stop, Active
    <2>2. CASE \E m \in Model : SwitchModel(m)
      BY <2>2, CalmParts, Computers DEF SwitchModel, WhoWorks
    <2> QED
      BY <2>1, <2>2
  <1>3. \A w \in Writer : writer'[w].at = "none"
    <2>1. CASE Stop
      BY <2>1 DEF Stop, Idle
    <2>2. CASE \E m \in Model : SwitchModel(m)
      BY <1>2, <2>2 DEF SwitchModel, Active
    <2> QED
      BY <2>1, <2>2
  <1>4. SeedsAlone'
    BY <1>1, <1>3, CalmParts DEF SeedsAlone, Computing
  <1>5. OneWriter' /\ Loaded' /\ NoHash'
    BY <1>1, <1>3, CalmParts, Numbers DEF OneWriter, Loaded, NoHash, Active
  <1>6. \A w \in Writer : Written(writer[w])'
    BY <1>3 DEF Written
  <1>7. \A k \in Kind : Settled(k)'
    BY <1>1, <1>2, CalmParts DEF Settled, Computing, Active
  <1> QED
    BY <1>4, <1>5, <1>6, <1>7 DEF Calm

\* While nothing goes wrong, every step keeps the files and what is loaded in order.
LEMMA CalmStep == FilesInv /\ calm /\ calm' /\ [Next]_vars => Calm'
  <1> SUFFICES ASSUME FilesInv, calm, calm', [Next]_vars
               PROVE  Calm'
    OBVIOUS
  <1>1. CASE StartApi \/ StartInstaller
    BY <1>1, StartCalm
  <1>2. CASE \/ SeedRow("categories", "categories") \/ SeedRow("tags", "tags")
             \/ SeedRow("tags", "vocabulary")
    <2>1. /\ "categories" \in Kind /\ "tags" \in Kind
          /\ {"categories", "tags", "vocabulary"} = {"categories"} \cup {"tags", "vocabulary"}
      BY DEF Kind
    <2>2. CASE SeedRow("categories", "categories")
      BY <2>1, <2>2, SeedCalm
    <2>3. CASE SeedRow("tags", "tags")
      BY <2>1, <2>3, SeedCalm
    <2>4. CASE SeedRow("tags", "vocabulary")
      BY <2>1, <2>4, SeedCalm
    <2> QED
      BY <1>2, <2>2, <2>3, <2>4
  <1>3. CASE CategoriesSeeded \/ TagsSeeded
    BY <1>3, SeededCalm
  <1>4. CASE EnsureTagNames \/ EnsureCategoryNames
    BY <1>4, EnsureCalm
  <1>5. CASE CheckCaches
    BY <1>5, CheckCalm
  <1>6. CASE VocabularySeeded \/ InstallerGoesOn
    BY <1>6, InstallCalm
  <1>7. CASE AnEdit
    BY <1>7, EditCalm
  <1>8. ASSUME NEW j \in Thread, RecomputeStarts(j) \/ ImportFails(j) \/ RecomputeFails(j)
        PROVE  Calm'
    BY <1>8, BeginCalm DEF ImportFails, RecomputeFails
  <1>9. ASSUME NEW w \in Writer, ReadRows(w) \/ SaveVectors(w) \/ SaveNames(w) \/ SaveHash(w)
        PROVE  Calm'
    BY <1>9, ReadCalm, VectorsCalm, NamesCalm, HashCalm
  <1>10. CASE LoadTagVectors \/ LoadTagNames
    BY <1>10, LoadTagsCalm
  <1>11. CASE LoadCategoryVectors
    <2>1. CASE UNCHANGED writer
      BY <1>11, <2>1, LoadCategoriesCalm
    <2>2. CASE ~UNCHANGED writer
      <3>1. /\ rows["categories"] # <<>>
            /\ vectors["categories"] = NoFile \/ names["categories"] = NoFile
        BY <1>11, <2>2 DEF LoadCategoryVectors
      <3> QED
        BY <1>11, <3>1, ComputeCalm
    <2> QED
      BY <2>1, <2>2
  <1>12. CASE LoadCategoryNames \/ Warmup
    BY <1>12, ServeCalm
  <1>13. CASE LoadComputed
    BY <1>13, LoadComputedCalm
  <1>14. CASE Stop \/ \E m \in Model : SwitchModel(m)
    BY <1>14, StopCalm
  <1>15. CASE UNCHANGED vars
    <2>1. UNCHANGED <<tables, files, model, boot, writer, worker>>
      BY <1>15 DEF vars
    <2>2. Loaded'
      BY <2>1, CalmParts, SameComputers, LoadedFrame
    <2> QED
      BY <2>1, <2>2, WorkerFrame DEF Calm
  <1> QED
    BY <1>1, <1>2, <1>3, <1>4, <1>5, <1>6, <1>7, <1>8, <1>9, <1>10, <1>11, <1>12, <1>13, <1>14,
       <1>15, CalmParts, Steps

--------------------------------------------------------------------------------
(* Vocabulary: the theorems *)

\* The invariants hold at the beginning: no table has a row, and there is no file.
LEMMA Beginning == Init => StatusInv /\ FilesInv
  <1> SUFFICES ASSUME Init
               PROVE  StatusInv /\ FilesInv
    OBVIOUS
  <1>1. TypeOK
    <2>1. /\ boot \in Boots /\ worker \in Workers /\ writer \in [Writer -> Tasks]
          /\ vectors \in [Kind -> Vectors \cup {NoFile}]
          /\ names \in [Kind -> Lists \cup {NoFile}]
      BY Beginnings DEF Init
    <2>2. rows \in [Kind -> Lists] /\ status \in [Kind -> {"ready", "recomputing", "error"}]
      BY EmptyList DEF Init
    <2>3. /\ hash \in [Kind -> Model \cup {NoModel}] /\ model \in Model
          /\ api \in {"down", "starting", "up"}
          /\ seeded \in BOOLEAN /\ calm \in BOOLEAN /\ cut \in BOOLEAN
      BY VocabularyAssumption DEF Init
    <2>4. /\ editsLeft \in 0..MaxEdits /\ switchesLeft \in 0..MaxSwitches
          /\ faultsLeft \in 0..MaxFaults
      BY VocabularyAssumption DEF Init
    <2> QED
      BY <2>1, <2>2, <2>3, <2>4 DEF TypeOK
  <1>2. \A w \in Writer : writer[w].at = "none"
    BY DEF Init, Idle
  <1>3. Unused /\ StatusSettles
    BY <1>2, Numbers DEF Init, Unused, Active, StatusSettles
  <1>4. /\ boot.at = "none" /\ worker.at = "down" /\ api = "down" /\ ~seeded
        /\ \A k \in Kind : vectors[k] = NoFile /\ hash[k] = NoModel
    BY DEF Init, NoBoot, Nothing
  <1>5. WhoWorks /\ SeededFirst
    BY <1>2, <1>4, Numbers DEF WhoWorks, SeededFirst, Active
  <1>6. SeedsAlone /\ OneWriter /\ NoHash /\ Loaded
    BY <1>2, <1>4 DEF SeedsAlone, OneWriter, NoHash, Loaded, Active, Computing, Kind
  <1>7. \A w \in Writer : Written(writer[w])
    BY <1>2 DEF Written
  <1>8. \A k \in Kind : Settled(k)
    BY <1>4 DEF Settled
  <1> QED
    BY <1>1, <1>3, <1>5, <1>6, <1>7, <1>8 DEF StatusInv, FilesInv, Calm

\* The state keeps its type, the numbers of threads to come are unused, and a vocabulary
\* that is shown as recomputing has its thread (recompute_tasks.py: the status is written
\* by the thread's own first and last steps).
THEOREM StatusInvariance == Spec => []StatusInv
  <1>1. Init => StatusInv
    BY Beginning
  <1>2. StatusInv /\ [Next]_vars => StatusInv'
    BY TypeStep, UnusedStep, StatusStep DEF StatusInv
  <1> QED
    BY <1>1, <1>2, PTL DEF Spec

\* Until a process ends with a recomputation under way, a vocabulary is shown as
\* recomputing only while a thread recomputes it: no failure leaves the status behind.
THEOREM RecomputingIsTrue == Spec => []StatusSettles
  <1>1. StatusInv => StatusSettles
    BY DEF StatusInv
  <1> QED
    BY <1>1, StatusInvariance, PTL

\* The order the files are written in, the seeding and the loads of the worker keep the
\* files of each vocabulary in order as long as nothing is said to have gone wrong.
THEOREM FilesInvariance == Spec => []FilesInv
  <1>1. Init => FilesInv
    BY Beginning
  <1>2. FilesInv /\ [Next]_vars => FilesInv'
    <2> SUFFICES ASSUME FilesInv, [Next]_vars
                 PROVE  FilesInv'
      OBVIOUS
    <2>1. TypeOK /\ Unused /\ WhoWorks /\ SeededFirst
      BY DEF FilesInv
    <2>2. TypeOK' /\ Unused' /\ WhoWorks' /\ SeededFirst'
      BY <2>1, TypeStep, UnusedStep, WhoWorksStep, SeededFirstStep
    <2>3. calm' => Calm'
      BY <2>1, CalmBefore, CalmStep
    <2> QED
      BY <2>2, <2>3 DEF FilesInv
  <1> QED
    BY <1>1, <1>2, PTL DEF Spec

\* The vectors of a vocabulary nobody computes and its names are of one list, which is the
\* table, for every number of entries, edits, models and faults.
THEOREM FilesAreOfTheTable == Spec => []FilesAgree
  <1>1. FilesInv => FilesAgree
    BY DEF FilesInv, Calm, FilesAgree, Settled
  <1> QED
    BY <1>1, FilesInvariance, PTL

\* The CLIP worker gives every vector its own name: what it loaded in two steps, or computed
\* itself, is of one list.
THEOREM WorkerNamesItsVectors == Spec => []WorkerPairs
  <1>1. FilesInv => WorkerPairs
    BY DEF FilesInv, Calm, WorkerPairs, Loaded, Pairs, Kind
  <1> QED
    BY <1>1, FilesInvariance, PTL

\* A hash beside vectors is of the model they were computed with: the cache that the
\* installer takes as valid (install.py: _cache_valid) is one of the current model.
THEOREM CachesAreOfTheirModel == Spec => []HashNamesModel
  <1>1. FilesInv => HashNamesModel
    <2> SUFFICES ASSUME FilesInv, calm, NEW k \in Kind, vectors[k] # NoFile,
                        hash[k] # NoModel, ~Computing(k)
                 PROVE  hash[k] = vectors[k].of
      BY DEF HashNamesModel
    <2>1. Settled(k)
      BY CalmParts
    <2> QED
      BY <2>1 DEF Settled
  <1> QED
    BY <1>1, FilesInvariance, PTL

--------------------------------------------------------------------------------
(* Desktop: the invariant *)
USE DEF None, hostVars, setupVars, appVars, lockVars, backendVars, pullVars

\* A cleanup has run, and nothing but what it left alive has come up since.
Swept == start = "spawning" /\ windows => \A b \in Launch : Alive(b) => b \in missed

\* The launch that is up has a number.
Numbered == start # "closed" => inst \in Launch

DesktopInv == ShellTypeOK /\ Numbered /\ Swept /\ PullsAreCancellable

--------------------------------------------------------------------------------
(* Desktop: typing *)

\* The parts of the typing a step changes together.
AppType ==
    /\ windows \in BOOLEAN /\ setupDone \in BOOLEAN /\ wizard \in BOOLEAN
    /\ app \in AppState /\ inst \in 0 .. MaxLaunches /\ start \in StartStage
    /\ proc \in Launch \cup {None} /\ crashesLeft \in 0 .. MaxCrashes
LockType == fd \in BOOLEAN /\ lockFile \in BOOLEAN /\ portFile \in 0 .. MaxLaunches
BackendType ==
    /\ backend \in [Launch -> BackendState] /\ owner \in Launch \cup {None}
    /\ sweeps \in Nat /\ missed \subseteq Launch
PullType == pull \in [Pull -> PullState] /\ pulls \in Pull \cup {None}

\* The typing is its four parts.
LEMMA ShellTypeParts == ShellTypeOK <=> AppType /\ LockType /\ BackendType /\ PullType
  BY DEF ShellTypeOK, AppType, LockType, BackendType, PullType

\* A cleanup keeps the processes typed.
LEMMA SweepType ==
    ASSUME BackendType, Sweep
    PROVE  /\ backend' \in [Launch -> BackendState] /\ owner' \in Launch \cup {None}
           /\ missed' \subseteq Launch
  <1>1. CASE windows
    <2>1. PICK failed \in SUBSET {b \in Launch : Alive(b)} :
              /\ missed' = failed
              /\ backend' = [b \in Launch |-> IF Alive(b) /\ b \notin failed
                                             THEN [backend[b] EXCEPT !.st = "dead"] ELSE backend[b]]
              /\ owner' = IF owner \in failed THEN owner ELSE None
      BY <1>1 DEF Sweep
    <2>2. backend' \in [Launch -> BackendState]
      BY <2>1 DEF BackendType, BackendState
    <2> QED
      BY <2>1, <2>2 DEF BackendType
  <1>2. CASE ~windows
    BY <1>2 DEF BackendType, Sweep
  <1> QED
    BY <1>1, <1>2

\* Giving the lock back keeps the lock and the port file typed.
LEMMA ReleaseType ==
    ASSUME LockType, Release
    PROVE  LockType'
  <1>1. CASE fd
    <2>1. fd' = FALSE /\ lockFile' = FALSE /\ portFile' = 0
      BY <1>1 DEF Release
    <2>2. 0 \in 0 .. MaxLaunches
      BY BoundsAssumption
    <2> QED
      BY <2>1, <2>2 DEF LockType
  <1>2. CASE ~fd
    <2>1. fd' = FALSE /\ lockFile' = lockFile /\ portFile' = portFile
      BY <1>2 DEF Release
    <2> QED
      BY <2>1 DEF LockType
  <1> QED
    BY <1>1, <1>2

\* So does a stop, with the lock it gives back.
LEMMA StopType ==
    ASSUME ShellTypeOK, NEW n \in Nat, StopBackend(n)
    PROVE  LockType' /\ BackendType' /\ proc' = None
  <1>1. LockType'
    BY ShellTypeParts, ReleaseType DEF StopBackend
  <1>2. backend' \in [Launch -> BackendState]
    BY DEF StopBackend, ShellTypeOK, BackendState, Alive
  <1> QED
    BY <1>1, <1>2 DEF StopBackend, ShellTypeOK, BackendType

\* Downloads that end with the app are typed.
LEMMA DropType ==
    ASSUME PullType, DropPulls
    PROVE  PullType'
  BY DEF PullType, DropPulls, PullState

\* Every action writes values of the variables' types.
LEMMA ShellTypeStep == ShellTypeOK /\ Numbered /\ [ShellNext]_shellVars => ShellTypeOK'
  <1> SUFFICES ASSUME ShellTypeOK, Numbered, [ShellNext]_shellVars
               PROVE  ShellTypeOK'
    OBVIOUS
  <1>t. AppType /\ LockType /\ BackendType /\ PullType
    BY ShellTypeParts
  <1> USE BoundsAssumption
  <1>a. ASSUME AppType', UNCHANGED <<lockVars, backendVars, pullVars>>
        PROVE  ShellTypeOK'
    BY <1>t, <1>a, ShellTypeParts DEF ShellTypeOK, AppType
  <1>1. CASE LaunchApp
    <2>1. inst' \in 0 .. MaxLaunches
      BY <1>t, <1>1 DEF LaunchApp, AppType
    <2>2. app' \in AppState /\ start' \in StartStage /\ wizard' \in BOOLEAN
      BY <1>t, <1>1 DEF LaunchApp, AppType, AppState, StartStage
    <2> QED
      BY <1>1, <2>1, <2>2 DEF LaunchApp, ShellTypeOK
  <1>2. CASE CompleteSetup
    BY <1>t, <1>2, <1>a DEF CompleteSetup, AppType, StartStage
  <1>3. CASE StartStep
    <2>1. CASE AcquireLock
      BY <2>1 DEF AcquireLock, ShellTypeOK, StartStage
    <2>2. CASE Reuse \/ GiveUpReuse \/ Ready
      BY <1>t, <2>2, <1>a DEF Reuse, GiveUpReuse, Ready, AppType, StartStage
    <2>3. CASE Recover
      BY <1>t, <2>3, SweepType DEF Recover, ShellTypeOK, StartStage
    <2>4. CASE StartupSweep
      BY <1>t, <2>4, SweepType DEF StartupSweep, ShellTypeOK, StartStage
    <2>5. CASE Spawn
      <3>1. PICK port \in Launch :
                /\ backend' = [backend EXCEPT ![inst] = [st |-> "booting", port |-> port]]
                /\ portFile' = IF windows THEN port ELSE portFile
        BY <2>5 DEF Spawn
      <3>2. inst \in Launch
        BY <2>5 DEF Spawn, Numbered
      <3>3. port \in 0 .. MaxLaunches
        BY DEF Launch
      <3>4. [st |-> "booting", port |-> port] \in BackendState
        BY <3>3 DEF BackendState
      <3>5. backend' \in [Launch -> BackendState]
        BY <3>1, <3>4 DEF ShellTypeOK
      <3>6. portFile' \in 0 .. MaxLaunches
        BY <3>1, <3>3 DEF ShellTypeOK
      <3> QED
        BY <2>5, <3>2, <3>5, <3>6 DEF Spawn, ShellTypeOK, StartStage
    <2>6. CASE StartFails
      <3>1. LockType' /\ BackendType' /\ proc' = None
        BY <2>6, StopType DEF StartFails
      <3>2. PullType' /\ app' \in AppState /\ start' \in StartStage
        BY <1>t, <2>6, DropType DEF StartFails, AppType, AppState, StartStage, PullType
      <3>3. AppType'
        BY <1>t, <2>6, <3>1, <3>2 DEF StartFails, AppType
      <3> QED
        BY <3>1, <3>2, <3>3 DEF ShellTypeOK, AppType, LockType, BackendType, PullType
    <2> QED
      BY <1>3, <2>1, <2>2, <2>3, <2>4, <2>5, <2>6 DEF StartStep
  <1>4. CASE Quit
    <2>1. LockType' /\ BackendType' /\ proc' = None
      BY <1>4, StopType DEF Quit
    <2>2. PullType' /\ AppType'
      BY <1>t, <1>4, <2>1, DropType DEF Quit, AppType, AppState, StartStage
    <2> QED
      BY <2>1, <2>2 DEF ShellTypeOK, AppType, LockType, BackendType, PullType
  <1>5. CASE CrashApp
    <2>1. PullType' /\ AppType'
      BY <1>t, <1>5, DropType DEF CrashApp, AppType, AppState, StartStage
    <2> QED
      BY <1>5, <2>1 DEF CrashApp, ShellTypeOK, AppType, PullType
  <1>6. CASE LateSweep
    BY <1>t, <1>6, SweepType DEF LateSweep, ShellTypeOK
  <1>7. CASE ExitEvent
    <2>1. LockType'
      BY <1>t, <1>7, ReleaseType DEF ExitEvent
    <2> QED
      BY <1>t, <1>7, <2>1 DEF ExitEvent, ShellTypeOK, LockType
  <1>8. ASSUME NEW b \in Launch, BackendServes(b)
        PROVE  ShellTypeOK'
    BY <1>8 DEF BackendServes, ShellTypeOK, BackendState
  <1>9. ASSUME NEW b \in Launch, BackendStops(b) \/ BackendCrashes(b)
        PROVE  ShellTypeOK'
    BY <1>9 DEF BackendStops, BackendCrashes, Dies, ShellTypeOK, BackendState
  <1>10. ASSUME NEW p \in Pull, StartPull(p) \/ PullEnds(p)
         PROVE  ShellTypeOK'
    BY <1>10 DEF StartPull, PullEnds, Deregister, ShellTypeOK, PullState
  <1>11. CASE CancelPulls
    BY <1>11 DEF CancelPulls, ShellTypeOK, PullState
  <1>12. CASE UNCHANGED shellVars
    BY <1>12 DEF shellVars, ShellTypeOK
  <1> QED
    BY <1>1, <1>2, <1>3, <1>4, <1>5, <1>6, <1>7, <1>8, <1>9, <1>10, <1>11, <1>12 DEF ShellNext

--------------------------------------------------------------------------------
(* Desktop: the other parts of the invariant *)

\* A start belongs to a launch.
LEMMA NumberedStep == ShellTypeOK /\ Numbered /\ [ShellNext]_shellVars => Numbered'
  <1> SUFFICES ASSUME ShellTypeOK, Numbered, [ShellNext]_shellVars
               PROVE  Numbered'
    OBVIOUS
  <1>1. CASE LaunchApp
    BY <1>1, BoundsAssumption DEF LaunchApp, Numbered, ShellTypeOK, Launch
  <1>2. CASE start' = "closed"
    BY <1>2 DEF Numbered
  <1>3. ASSUME inst' = inst, start # "closed" \/ start' = start
        PROVE  Numbered'
    BY <1>3 DEF Numbered
  <1>4. CASE CompleteSetup \/ StartStep
    BY <1>4, <1>3, <1>2 DEF CompleteSetup, StartStep, AcquireLock, Reuse, GiveUpReuse, Recover,
       StartupSweep, Spawn, Ready, StartFails
  <1>5. CASE Quit \/ CrashApp \/ LateSweep \/ ExitEvent \/ CancelPulls \/ UNCHANGED shellVars
    BY <1>5, <1>2, <1>3 DEF Quit, CrashApp, LateSweep, ExitEvent, CancelPulls, shellVars
  <1>6. ASSUME NEW b \in Launch, BackendServes(b) \/ BackendStops(b) \/ BackendCrashes(b)
        PROVE  Numbered'
    BY <1>6, <1>3 DEF BackendServes, BackendStops, BackendCrashes, Dies
  <1>7. ASSUME NEW p \in Pull, StartPull(p) \/ PullEnds(p)
        PROVE  Numbered'
    BY <1>7, <1>3 DEF StartPull, PullEnds
  <1> QED
    BY <1>1, <1>4, <1>5, <1>6, <1>7 DEF ShellNext

\* On Windows what is alive after a cleanup is what it could not stop.
LEMMA SweepKills ==
    ASSUME ShellTypeOK, Sweep, windows
    PROVE  \A b \in Launch : Alive(b)' => b \in missed'
  BY DEF ShellTypeOK, Sweep, Alive, BackendState

\* After the cleanup nothing comes up until the spawn: only a spawn makes a process.
LEMMA SweptStep == ShellTypeOK /\ Swept /\ [ShellNext]_shellVars => Swept'
  <1> SUFFICES ASSUME ShellTypeOK, Swept, [ShellNext]_shellVars, start' = "spawning", windows'
               PROVE  \A b \in Launch : Alive(b)' => b \in missed'
    BY DEF Swept
  <1>w. windows
    BY DEF ShellNext, LaunchApp, CompleteSetup, StartStep, AcquireLock, Reuse, GiveUpReuse, Recover,
       StartupSweep, Spawn, Ready, StartFails, Quit, CrashApp, LateSweep, ExitEvent,
       BackendServes, BackendStops, BackendCrashes, Dies, StartPull, PullEnds, CancelPulls, shellVars
  <1>1. CASE StartupSweep
    BY <1>1, <1>w, SweepKills DEF StartupSweep
  <1>2. CASE LateSweep
    BY <1>2, <1>w, SweepKills DEF LateSweep
  <1>a. ASSUME start = "spawning", backend' = backend, missed' = missed
        PROVE  \A b \in Launch : Alive(b)' => b \in missed'
    BY <1>a, <1>w DEF Swept, Alive
  <1>3. CASE LaunchApp \/ CompleteSetup \/ AcquireLock \/ Reuse \/ GiveUpReuse \/ Recover
             \/ Spawn \/ Ready \/ StartFails \/ Quit \/ CrashApp
    BY <1>3 DEF LaunchApp, CompleteSetup, AcquireLock, Reuse, GiveUpReuse, Recover, Spawn,
       Ready, StartFails, Quit, CrashApp
  <1>4. CASE ExitEvent \/ CancelPulls \/ UNCHANGED shellVars
    BY <1>4, <1>a DEF ExitEvent, CancelPulls, shellVars
  <1>5. ASSUME NEW b \in Launch, BackendServes(b) \/ BackendStops(b) \/ BackendCrashes(b)
        PROVE  \A c \in Launch : Alive(c)' => c \in missed'
    <2>1. start = "spawning" /\ missed' = missed /\ Alive(b)
      BY <1>5 DEF BackendServes, BackendStops, BackendCrashes, Dies, Alive
    <2>2. \A c \in Launch : c # b => backend'[c] = backend[c]
      BY <1>5 DEF BackendServes, BackendStops, BackendCrashes, Dies, ShellTypeOK
    <2>3. \A c \in Launch : Alive(c)' => Alive(c)
      BY <2>1, <2>2 DEF Alive
    <2> QED
      BY <2>1, <2>3, <1>w DEF Swept
  <1>6. ASSUME NEW p \in Pull, StartPull(p) \/ PullEnds(p)
        PROVE  \A b \in Launch : Alive(b)' => b \in missed'
    BY <1>6, <1>a DEF StartPull, PullEnds
  <1> QED
    BY <1>1, <1>2, <1>3, <1>4, <1>5, <1>6 DEF ShellNext, StartStep

\* A download registers only when none is registered, and removes only its own entry.
LEMMA PullStep == ShellTypeOK /\ PullsAreCancellable /\ [ShellNext]_shellVars => PullsAreCancellable'
  <1> SUFFICES ASSUME ShellTypeOK, PullsAreCancellable, [ShellNext]_shellVars
               PROVE  PullsAreCancellable'
    OBVIOUS
  <1>a. ASSUME UNCHANGED pullVars
        PROVE  PullsAreCancellable'
    BY <1>a DEF PullsAreCancellable
  <1>d. ASSUME DropPulls
        PROVE  PullsAreCancellable'
    BY <1>d DEF DropPulls, PullsAreCancellable
  <1>1. CASE LaunchApp \/ CompleteSetup \/ LateSweep \/ ExitEvent \/ UNCHANGED shellVars
    BY <1>1, <1>a DEF LaunchApp, CompleteSetup, LateSweep, ExitEvent, shellVars
  <1>2. CASE StartStep
    BY <1>2, <1>a, <1>d DEF StartStep, AcquireLock, Reuse, GiveUpReuse, Recover,
       StartupSweep, Spawn, Ready, StartFails
  <1>3. CASE Quit \/ CrashApp
    BY <1>3, <1>d DEF Quit, CrashApp
  <1>4. ASSUME NEW b \in Launch, BackendServes(b) \/ BackendStops(b) \/ BackendCrashes(b)
        PROVE  PullsAreCancellable'
    BY <1>4, <1>a DEF BackendServes, BackendStops, BackendCrashes, Dies
  <1>5. ASSUME NEW p \in Pull, StartPull(p)
        PROVE  PullsAreCancellable'
    BY <1>5 DEF StartPull, PullsAreCancellable, ShellTypeOK, Pull
  <1>6. ASSUME NEW p \in Pull, PullEnds(p)
        PROVE  PullsAreCancellable'
    BY <1>6 DEF PullEnds, Deregister, PullsAreCancellable, ShellTypeOK, Pull
  <1>7. CASE CancelPulls
    BY <1>7 DEF CancelPulls, PullsAreCancellable, ShellTypeOK, Pull
  <1> QED
    BY <1>1, <1>2, <1>3, <1>4, <1>5, <1>6, <1>7 DEF ShellNext

--------------------------------------------------------------------------------
(* Desktop: the theorems *)

\* Typing, the cleanup before a spawn and the registration of downloads hold in every
\* reachable state of the app (startBackend, stopBackend, pullModel).
THEOREM DesktopInvariance == ShellSpec => []DesktopInv
  <1>1. ShellInit => DesktopInv
    <2> SUFFICES ASSUME ShellInit
                 PROVE  DesktopInv
      OBVIOUS
    <2>1. /\ 0 \in 0 .. MaxLaunches /\ crashesLeft \in 0 .. MaxCrashes
          /\ app \in AppState /\ start \in StartStage
      BY BoundsAssumption DEF ShellInit, AppState, StartStage
    <2>2. backend \in [Launch -> BackendState] /\ pull \in [Pull -> PullState]
      BY <2>1 DEF ShellInit, BackendState, PullState
    <2>3. ShellTypeOK
      BY <2>1, <2>2 DEF ShellInit, ShellTypeOK
    <2> QED
      BY <2>3 DEF ShellInit, DesktopInv, Numbered, Swept, PullsAreCancellable
  <1>2. DesktopInv /\ [ShellNext]_shellVars => DesktopInv'
    BY ShellTypeStep, NumberedStep, SweptStep, PullStep DEF DesktopInv
  <1> QED
    BY <1>1, <1>2, PTL DEF ShellSpec

\* cancelPull: whatever ended late, a download under way is the registered one.
THEOREM CancelReaches == ShellSpec => []PullsAreCancellable
  <1>1. DesktopInv => PullsAreCancellable
    BY DEF DesktopInv
  <1> QED
    BY <1>1, DesktopInvariance, PTL

\* startBackend: on Windows no process is alive at a spawn but what the cleanup of
\* this start could not stop, after any sequence of crashes, takeovers and cleanups.
THEOREM SpawnedAlone == ShellSpec => SpawnsAlone
  <1>1. DesktopInv /\ [ShellNext]_shellVars =>
            [start = "spawning" /\ start' = "waiting" /\ windows
               => \A b \in Launch : Alive(b) => b \in missed]_shellVars
    BY DEF DesktopInv, Swept
  <1> QED
    BY <1>1, DesktopInvariance, PTL DEF ShellSpec, SpawnsAlone

================================================================================
