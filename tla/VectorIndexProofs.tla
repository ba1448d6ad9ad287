--------------------------- MODULE VectorIndexProofs ---------------------------
(***************************************************************************)
(* A search answers with the photo a vector was made from, and a store      *)
(* leaves one row of its photo: for any number of photos, rows, writers and *)
(* models, however often a store is cut short, as long as nothing is        *)
(* deleted and no store meets another one of its photo or a rebuild.  The   *)
(* argument: every vector has the row of its number, so the number of a new *)
(* row, past all rows, is free in both tables.  The status compares counts: *)
(* rows inject into photos, so it misses no more than the rows in excess.   *)
(***************************************************************************)
EXTENDS VectorIndex, FiniteSetTheorems, TLAPS

\* Nothing happened but stores cut short.
Clean == mishap \subseteq {"halted"}

\* A task at work has a photo; after its model call a model; after its link a row.
JobTyped ==
    \A w \in Writer :
        /\ job[w].stage # "idle" => job[w].photo \in PhotoId
        /\ job[w].stage \notin {"idle", "read"} => job[w].model \in Model
        /\ job[w].stage \in {"linked", "mismatch", "rebuilt"} => job[w].row \in Row

\* A vector has the row of its number, and the row names its photo.
VectorsAreLinked ==
    \A i \in Row : vss[i] # None => map[i] = vss[i].photo

\* No two stores work on one photo.
StoresApart ==
    \A v, w \in Writer : Storing(v) /\ Storing(w) /\ job[v].photo = job[w].photo => v = w

RowIsUnique == \A p \in PhotoId : \A i, j \in RowsOf(p) : i = j

\* What a store knows of the tables.
StoreKnows(w) ==
    /\ job[w].stage = "found" => job[w].rows = RowsOf(job[w].photo)
    /\ job[w].stage = "cleared" => RowsOf(job[w].photo) = {}
    /\ job[w].stage \in {"linked", "mismatch"} =>
          map[job[w].row] = job[w].photo /\ vss[job[w].row] = None
    /\ job[w].stage # "rebuilt"

Tables == VectorsAreLinked /\ RowIsUnique /\ StoresApart /\ \A w \in Writer : StoreKnows(w)

IndexInv == TypeOK /\ JobTyped /\ (Clean => Tables)

--------------------------------------------------------------------------------
(* Typing *)

\* None is no vector, photo or model.
LEMMA NoneIsNoRow == /\ \A v \in Vector : v # None
                     /\ \A p \in PhotoId : p # None
                     /\ \A m \in Model : m # None
  BY NoneAssumption

\* The empty index satisfies the invariant.
LEMMA InitInv == Init => IndexInv
<1> SUFFICES ASSUME Init PROVE IndexInv
  OBVIOUS
<1> USE DEF Init
<1>1. TypeOK
  BY BoundsAssumption, WidthAssumption DEF TypeOK, Empty, Idle, Job, Text, Stage
<1>2. JobTyped
  BY DEF JobTyped, Idle
<1>3. Tables
  BY NoneIsNoRow DEF Tables, VectorsAreLinked, RowIsUnique, StoresApart, StoreKnows, RowsOf, Storing, Empty, Idle
<1> QED
  BY <1>1, <1>2, <1>3 DEF IndexInv

\* The tables and the jobs stay well typed.
LEMMA TypeStep == ASSUME TypeOK, JobTyped, Next PROVE TypeOK' /\ JobTyped'
<1> USE DEF TypeOK, Job
<1>0. Idle \in Job
  BY DEF Idle, Text, Stage
<1>1. CASE \E p \in PhotoId : AddPhoto(p) \/ UpdatePhoto(p)
  <2>1. PICK p \in PhotoId : AddPhoto(p) \/ UpdatePhoto(p)
    BY <1>1
  <2> QED
    BY <2>1 DEF AddPhoto, UpdatePhoto, JobTyped
<1>2. CASE \E p \in PhotoId : DeletePhoto(p)
  <2>1. PICK p \in PhotoId : DeletePhoto(p)
    BY <1>2
  <2>2. photos' \subseteq PhotoId /\ counted' \subseteq photos' /\ mishap' \subseteq Mishap /\ JobTyped'
    BY <2>1 DEF DeletePhoto, Mishap, JobTyped
  <2>3. map' \in [Row -> PhotoId \cup {None}] /\ vss' \in [Row -> Vector \cup {None}]
    BY <2>1 DEF DeletePhoto
  <2> QED
    BY <2>1, <2>2, <2>3 DEF DeletePhoto
<1>3. CASE \E w \in Writer, p \in PhotoId, of \in Text : ReadText(w, p, of)
  <2>1. PICK w \in Writer, p \in PhotoId, of \in Text : ReadText(w, p, of)
    BY <1>3
  <2>2. [Idle EXCEPT !.stage = "read", !.photo = p, !.of = of] \in Job
    BY <2>1 DEF Idle, Text, Stage
  <2>3. JobTyped'
    BY <2>1 DEF ReadText, JobTyped, Idle
  <2> QED
    BY <2>1, <2>2, <2>3 DEF ReadText
<1>4. CASE \E w \in Writer : Work(w)
  <2>0. PICK w \in Writer : Work(w)
    BY <1>4
  <2>a. RowsOf(job[w].photo) \subseteq Row
    BY DEF RowsOf
  <2>1. CASE Embed(w)
    <3>1. [job[w] EXCEPT !.stage = "embedded", !.model = model] \in Job
      BY DEF Stage
    <3>2. job' = [job EXCEPT ![w] = [job[w] EXCEPT !.stage = "embedded", !.model = model]]
      BY <2>1 DEF Embed
    <3>3. JobTyped'
      BY <2>1 DEF Embed, JobTyped
    <3> QED
      BY <2>1, <3>1, <3>2, <3>3 DEF Embed
  <2>2. CASE FindExisting(w)
    <3>0. PICK st \in {"cleared", "found"} :
             job' = [job EXCEPT ![w].rows = RowsOf(job[w].photo), ![w].stage = st]
      BY <2>2 DEF FindExisting
    <3>1. job' \in [Writer -> Job]
      <4>1. [job[w] EXCEPT !.rows = RowsOf(job[w].photo), !.stage = st] \in Job
        BY <2>a DEF Stage
      <4>2. job' = [job EXCEPT ![w] = [job[w] EXCEPT !.rows = RowsOf(job[w].photo), !.stage = st]]
        BY <3>0
      <4> QED
        BY <4>1, <4>2
    <3>2. JobTyped'
      BY <2>2, <2>a DEF FindExisting, JobTyped
    <3>3. mishap' \subseteq Mishap
      <4>1. mishap' = mishap \/ mishap' = mishap \cup {"clash"}
        BY <2>2 DEF FindExisting
      <4> QED
        BY <4>1 DEF Mishap
    <3> QED
      BY <2>2, <3>1, <3>2, <3>3 DEF FindExisting
  <2>3. CASE DropExisting(w)
    <3>1. job' \in [Writer -> Job]
      BY <2>3 DEF DropExisting, Stage
    <3>2. map' \in [Row -> PhotoId \cup {None}] /\ vss' \in [Row -> Vector \cup {None}]
      BY <2>3 DEF DropExisting
    <3>3. JobTyped'
      BY <2>3 DEF DropExisting, JobTyped
    <3> QED
      BY <2>3, <3>1, <3>2, <3>3 DEF DropExisting
  <2>4. CASE LinkPhotoEmbedding(w)
    <3>1. PICK i \in Row : /\ map' = [map EXCEPT ![i] = job[w].photo]
                           /\ job' = [job EXCEPT ![w].stage = "linked", ![w].row = i]
      BY <2>4 DEF LinkPhotoEmbedding
    <3>2. job[w].photo \in PhotoId
      BY <2>4 DEF LinkPhotoEmbedding, JobTyped
    <3>3. i \in Nat
      BY BoundsAssumption DEF Row
    <3>4. JobTyped'
      BY <3>1, <2>4 DEF LinkPhotoEmbedding, JobTyped
    <3>5. job' \in [Writer -> Job]
      <4>1. [job[w] EXCEPT !.stage = "linked", !.row = i] \in Job
        BY <3>3 DEF Stage
      <4>2. job' = [job EXCEPT ![w] = [job[w] EXCEPT !.stage = "linked", !.row = i]]
        BY <3>1
      <4> QED
        BY <4>1, <4>2
    <3> QED
      BY <2>4, <3>1, <3>2, <3>4, <3>5 DEF LinkPhotoEmbedding
  <2>5. CASE SaveEmbedding(w) \/ SaveAfterRebuild(w)
    <3>1. job[w].stage \in {"linked", "rebuilt"} /\ job' = [job EXCEPT ![w] = Idle]
          /\ vss' = [vss EXCEPT ![job[w].row] = NewVector(w)]
          /\ UNCHANGED <<photos, counted, model, map, dim, mishap>>
      BY <2>5 DEF SaveEmbedding, SaveAfterRebuild, Inserts
    <3>2. NewVector(w) \in Vector
      BY <3>1 DEF NewVector, Vector, JobTyped
    <3>3. JobTyped'
      BY <3>1 DEF JobTyped, Idle
    <3> QED
      BY <3>1, <3>2, <3>3, <1>0
  <2>6. CASE SaveMismatch(w)
    BY <2>6 DEF SaveMismatch, JobTyped, Stage
  <2>7. CASE Rebuild(w)
    <3>1. job' \in [Writer -> Job]
      <4>1. [job[w] EXCEPT !.stage = "rebuilt"] \in Job
        BY DEF Stage
      <4>2. job' = [job EXCEPT ![w] = [job[w] EXCEPT !.stage = "rebuilt"]]
        BY <2>7 DEF Rebuild
      <4> QED
        BY <4>1, <4>2
    <3>2. JobTyped' /\ dim' \in Nat
      BY <2>7, WidthAssumption DEF Rebuild, JobTyped
    <3>3. mishap' \subseteq Mishap
      BY <2>7 DEF Rebuild, Mishap
    <3> QED
      BY <2>7, <3>1, <3>2, <3>3 DEF Rebuild, Empty
  <2>8. CASE Abandon(w)
    <3>1. JobTyped'
      BY <2>8 DEF Abandon, JobTyped, Idle
    <3>2. mishap' \subseteq Mishap
      BY <2>8 DEF Abandon, Mishap
    <3> QED
      BY <2>8, <1>0, <3>1, <3>2 DEF Abandon
  <2> QED
    BY <2>0, <2>1, <2>2, <2>3, <2>4, <2>5, <2>6, <2>7, <2>8 DEF Work
<1>5. CASE \E m \in Model : UpdateModel(m)
  <2>1. PICK m \in Model : UpdateModel(m)
    BY <1>5
  <2>2. mishap' \subseteq Mishap
    BY <2>1 DEF UpdateModel, Mishap
  <2>3. dim' \in Nat
    BY <2>1, WidthAssumption DEF UpdateModel
  <2>4. JobTyped'
    BY <2>1 DEF UpdateModel, JobTyped
  <2> QED
    BY <2>1, <2>2, <2>3, <2>4 DEF UpdateModel, Empty
<1>6. CASE \E m \in Model : Restart(m)
  <2>1. PICK m \in Model : Restart(m)
    BY <1>6
  <2>2. mishap' \subseteq Mishap
    BY <2>1 DEF Restart, Mishap
  <2>3. dim' \in Nat
    BY <2>1, WidthAssumption DEF Restart
  <2>4. JobTyped' /\ job' \in [Writer -> Job]
    BY <2>1, <1>0 DEF Restart, JobTyped, Idle
  <2>5. map' \in [Row -> PhotoId \cup {None}]
    BY <2>1 DEF Restart, Empty, Deduplicated
  <2> QED
    BY <2>1, <2>2, <2>3, <2>4, <2>5 DEF Restart, Empty
<1> QED
  BY <1>1, <1>2, <1>3, <1>4, <1>5, <1>6 DEF Next

--------------------------------------------------------------------------------
(* The tables *)

\* A step of one writer leaves what the others know alone when their photos differ.
LEMMA WorkKeepsTables ==
    ASSUME TypeOK, JobTyped, Tables, NEW w \in Writer, Work(w), Clean' PROVE Tables'
<1> USE DEF TypeOK, Job
<1>c. mishap \subseteq mishap'
  BY DEF Work, Embed, FindExisting, DropExisting, LinkPhotoEmbedding, SaveEmbedding, SaveMismatch,
     SaveAfterRebuild, Inserts, Rebuild, Abandon
<1>1. CASE Embed(w) \/ SaveMismatch(w) \/ Abandon(w)
  <2>1. UNCHANGED <<map, vss>>
    BY <1>1 DEF Embed, SaveMismatch, Abandon
  <2>2. \A v \in Writer : v # w => job'[v] = job[v]
    BY <1>1 DEF Embed, SaveMismatch, Abandon
  <2>3. \/ job'[w].stage \in {"idle", "embedded"}
        \/ /\ job[w].stage = "linked" /\ job'[w].stage = "mismatch"
           /\ job'[w].photo = job[w].photo /\ job'[w].row = job[w].row
    BY <1>1 DEF Embed, SaveMismatch, Abandon, Idle
  <2>4. VectorsAreLinked' /\ RowIsUnique'
    BY <2>1 DEF Tables, VectorsAreLinked, RowIsUnique, RowsOf
  <2>5. StoresApart'
    BY <2>2, <2>3 DEF Tables, StoresApart, Storing
  <2>6. ASSUME NEW v \in Writer PROVE StoreKnows(v)'
    <3>1. CASE v = w
      BY <3>1, <2>1, <2>3 DEF Tables, StoreKnows
    <3>2. CASE v # w
      BY <3>2, <2>1, <2>2 DEF Tables, StoreKnows, RowsOf
    <3> QED
      BY <3>1, <3>2
  <2> QED
    BY <2>4, <2>5, <2>6 DEF Tables
<1>2. CASE FindExisting(w)
  <2>1. UNCHANGED <<map, vss>> /\ \A p : RowsOf(p)' = RowsOf(p)
    BY <1>2 DEF FindExisting, RowsOf
  <2>2. \A v \in Writer : v # w => job'[v] = job[v]
    BY <1>2 DEF FindExisting
  <2>3. job'[w].photo = job[w].photo /\ job'[w].rows = RowsOf(job[w].photo)
        /\ job'[w].stage = (IF RowsOf(job[w].photo) = {} THEN "cleared" ELSE "found")
    BY <1>2 DEF FindExisting
  <2>4. \A v \in Writer \ {w} : ~(job[v].photo = job[w].photo /\ Storing(v))
    BY <1>2 DEF FindExisting, Clean
  <2>5. StoresApart'
    BY <2>2, <2>3, <2>4 DEF Tables, StoresApart, Storing
  <2>6. ASSUME NEW v \in Writer PROVE StoreKnows(v)'
    <3>1. CASE v = w
      BY <3>1, <2>1, <2>3 DEF StoreKnows
    <3>2. CASE v # w
      BY <3>2, <2>1, <2>2 DEF Tables, StoreKnows
    <3> QED
      BY <3>1, <3>2
  <2>7. VectorsAreLinked' /\ RowIsUnique'
    BY <2>1 DEF Tables, VectorsAreLinked, RowIsUnique
  <2> QED
    BY <2>5, <2>6, <2>7 DEF Tables
<1>3. CASE DropExisting(w)
  <2>0. PICK p \in PhotoId : p = job[w].photo
    BY <1>3 DEF DropExisting, JobTyped
  <2>1. job[w].stage = "found" /\ job[w].rows = RowsOf(p) /\ p = job[w].photo
    BY <1>3, <2>0 DEF DropExisting, Tables, StoreKnows
  <2>2. /\ map' = [i \in Row |-> IF i \in RowsOf(p) THEN None ELSE map[i]]
        /\ vss' = [i \in Row |-> IF i \in RowsOf(p) THEN None ELSE vss[i]]
    BY <1>3, <2>1 DEF DropExisting
  <2>3. /\ \A v \in Writer : v # w => job'[v] = job[v]
        /\ job'[w].stage = "cleared" /\ job'[w].photo = p
    BY <1>3, <2>0 DEF DropExisting
  <2>4. RowsOf(p)' = {} /\ \A q \in PhotoId : q # p => RowsOf(q)' = RowsOf(q)
    BY <2>0, <2>2, NoneIsNoRow DEF RowsOf
  <2>5. VectorsAreLinked'
    BY <2>2 DEF Tables, VectorsAreLinked
  <2>6. RowIsUnique'
    BY <2>4 DEF Tables, RowIsUnique
  <2>7. StoresApart'
    BY <2>1, <2>3 DEF Tables, StoresApart, Storing
  <2>8. ASSUME NEW v \in Writer PROVE StoreKnows(v)'
    <3>1. CASE v = w
      BY <3>1, <2>3, <2>4 DEF StoreKnows
    <3>2. CASE v # w
      <4>1. Storing(v) => job[v].photo # p
        BY <3>2, <2>1 DEF Tables, StoresApart, Storing
      <4>2. job'[v] = job[v] /\ StoreKnows(v)
        BY <3>2, <2>3 DEF Tables
      <4>3. CASE job[v].stage \in {"linked", "mismatch"}
        <5>1. job[v].row \in Row /\ job[v].row \notin RowsOf(p)
          BY <4>1, <4>2, <4>3 DEF StoreKnows, RowsOf, Storing, JobTyped
        <5> QED
          BY <5>1, <4>2, <4>3, <2>2 DEF StoreKnows
      <4>4. CASE job[v].stage \notin {"linked", "mismatch"}
        BY <4>1, <4>2, <4>4, <2>4 DEF StoreKnows, Storing, JobTyped
      <4> QED
        BY <4>3, <4>4
    <3> QED
      BY <3>1, <3>2
  <2> QED
    BY <2>5, <2>6, <2>7, <2>8 DEF Tables
<1>4. CASE LinkPhotoEmbedding(w)
  <2>0. PICK p \in PhotoId : p = job[w].photo
    BY <1>4 DEF LinkPhotoEmbedding, JobTyped
  <2>1. PICK i \in Row : /\ IsNextRow(i)
                         /\ map' = [map EXCEPT ![i] = p]
                         /\ job' = [job EXCEPT ![w].stage = "linked", ![w].row = i]
    BY <1>4, <2>0 DEF LinkPhotoEmbedding
  <2>2. job[w].stage = "cleared" /\ RowsOf(p) = {} /\ p = job[w].photo /\ UNCHANGED vss
    BY <1>4, <2>0 DEF LinkPhotoEmbedding, Tables, StoreKnows
  <2>3. p # None
    BY <2>0, NoneIsNoRow
  <2>4. map[i] = None /\ vss[i] = None
    BY <2>1, BoundsAssumption, NoneIsNoRow DEF IsNextRow, Row, Tables, VectorsAreLinked, Vector
  <2>5. RowsOf(p)' = {i}
    BY <2>1, <2>2, <2>3 DEF RowsOf
  <2>6. \A q \in PhotoId : q # p => RowsOf(q)' = RowsOf(q)
    BY <2>1, <2>4, NoneIsNoRow DEF RowsOf
  <2>7. VectorsAreLinked'
    BY <2>1, <2>2, <2>4 DEF Tables, VectorsAreLinked
  <2>8. RowIsUnique'
    BY <2>5, <2>6 DEF Tables, RowIsUnique
  <2>9. /\ \A v \in Writer : v # w => job'[v] = job[v]
        /\ job'[w].stage = "linked" /\ job'[w].photo = p /\ job'[w].row = i
    BY <2>1, <2>2
  <2>10. StoresApart'
    BY <2>2, <2>9 DEF Tables, StoresApart, Storing
  <2>11. ASSUME NEW v \in Writer PROVE StoreKnows(v)'
    <3>1. CASE v = w
      BY <3>1, <2>1, <2>2, <2>3, <2>4, <2>9 DEF StoreKnows
    <3>2. CASE v # w
      <4>1. Storing(v) => job[v].photo # p
        BY <3>2, <2>2 DEF Tables, StoresApart, Storing
      <4>2. job'[v] = job[v] /\ StoreKnows(v)
        BY <3>2, <2>9 DEF Tables
      <4>3. CASE job[v].stage \in {"linked", "mismatch"}
        <5>1. job[v].row \in Row /\ job[v].row # i
          BY <4>2, <4>3, <2>4, NoneIsNoRow DEF StoreKnows, JobTyped
        <5> QED
          BY <5>1, <4>2, <4>3, <2>1, <2>2 DEF StoreKnows
      <4>4. CASE job[v].stage \notin {"linked", "mismatch"}
        BY <4>1, <4>2, <4>4, <2>6 DEF StoreKnows, Storing, JobTyped
      <4> QED
        BY <4>3, <4>4
    <3> QED
      BY <3>1, <3>2
  <2> QED
    BY <2>7, <2>8, <2>10, <2>11 DEF Tables
<1>5. CASE SaveEmbedding(w)
  <2> DEFINE p == job[w].photo
             i == job[w].row
  <2>1. /\ job[w].stage = "linked" /\ UNCHANGED map
        /\ vss' = [vss EXCEPT ![i] = NewVector(w)]
        /\ job' = [job EXCEPT ![w] = Idle]
    BY <1>5 DEF SaveEmbedding, Inserts
  <2>2. i \in Row /\ p \in PhotoId /\ map[i] = p
    BY <2>1 DEF Tables, StoreKnows, JobTyped
  <2>3. VectorsAreLinked'
    BY <2>1, <2>2 DEF Tables, VectorsAreLinked, NewVector
  <2>4. \A q : RowsOf(q)' = RowsOf(q)
    BY <2>1 DEF RowsOf
  <2>5. RowIsUnique'
    BY <2>4 DEF Tables, RowIsUnique
  <2>6. /\ \A v \in Writer : v # w => job'[v] = job[v]
        /\ job'[w].stage = "idle"
    BY <2>1 DEF Idle
  <2>7. StoresApart'
    BY <2>6 DEF Tables, StoresApart, Storing
  <2>8. ASSUME NEW v \in Writer PROVE StoreKnows(v)'
    <3>1. CASE v = w
      BY <3>1, <2>6 DEF StoreKnows
    <3>2. CASE v # w
      <4>1. Storing(v) => job[v].photo # p
        BY <3>2, <2>1 DEF Tables, StoresApart, Storing
      <4>2. job'[v] = job[v] /\ StoreKnows(v)
        BY <3>2, <2>6 DEF Tables
      <4>3. CASE job[v].stage \in {"linked", "mismatch"}
        <5>1. job[v].row \in Row /\ job[v].row # i
          BY <4>1, <4>2, <4>3, <2>2 DEF StoreKnows, JobTyped, Storing
        <5> QED
          BY <5>1, <4>2, <4>3, <2>1, <2>2 DEF StoreKnows
      <4>4. CASE job[v].stage \notin {"linked", "mismatch"}
        BY <4>2, <4>4, <2>4 DEF StoreKnows
      <4> QED
        BY <4>3, <4>4
    <3> QED
      BY <3>1, <3>2
  <2> QED
    BY <2>3, <2>5, <2>7, <2>8 DEF Tables
<1>6. CASE Rebuild(w)
  BY <1>6 DEF Rebuild, Clean
<1>7. CASE SaveAfterRebuild(w)
  BY <1>7 DEF SaveAfterRebuild, Inserts, Tables, StoreKnows
<1> QED
  BY <1>1, <1>2, <1>3, <1>4, <1>5, <1>6, <1>7 DEF Work

\* Where a photo has one row, the deduplication at a start drops nothing.
LEMMA DeduplicationIsIdle == ASSUME TypeOK, RowIsUnique PROVE Deduplicated = map
<1>1. ASSUME NEW i \in Row PROVE Deduplicated[i] = map[i]
  <2>1. CASE map[i] = None
    BY <2>1 DEF Deduplicated
  <2>2. CASE map[i] # None
    <3>1. map[i] \in PhotoId /\ i \in RowsOf(map[i])
      BY <2>2 DEF TypeOK, RowsOf
    <3>2. \A j \in RowsOf(map[i]) : ~(j < i)
      BY <3>1 DEF RowIsUnique, Row
    <3> QED
      BY <3>2 DEF Deduplicated
  <2> QED
    BY <2>1, <2>2
<1> QED
  BY <1>1 DEF TypeOK, Deduplicated

\* Every action keeps the tables in step while nothing was deleted and no stores met.
LEMMA TablesStep == ASSUME TypeOK, JobTyped, Clean => Tables, Next, Clean' PROVE Tables'
<1> USE DEF TypeOK, Job
<1>1. CASE \E p \in PhotoId : DeletePhoto(p)
  BY <1>1 DEF DeletePhoto, Clean
<1>2. CASE \E p \in PhotoId : AddPhoto(p) \/ UpdatePhoto(p)
  <2>1. UNCHANGED <<map, vss, job, mishap>>
    BY <1>2 DEF AddPhoto, UpdatePhoto
  <2> QED
    BY <2>1 DEF Clean, Tables, VectorsAreLinked, RowIsUnique, StoresApart, StoreKnows, RowsOf, Storing
<1>3. CASE \E w \in Writer, p \in PhotoId, of \in Text : ReadText(w, p, of)
  <2>1. PICK w \in Writer, p \in PhotoId, of \in Text : ReadText(w, p, of)
    BY <1>3
  <2>2. UNCHANGED <<map, vss, mishap>> /\ \A q : RowsOf(q)' = RowsOf(q)
    BY <2>1 DEF ReadText, RowsOf
  <2>3. (\A v \in Writer : v # w => job'[v] = job[v]) /\ job'[w].stage = "read"
    BY <2>1 DEF ReadText, Idle
  <2>4. Tables
    BY <2>2 DEF Clean
  <2>5. VectorsAreLinked' /\ RowIsUnique' /\ StoresApart'
    BY <2>2, <2>3, <2>4 DEF Tables, VectorsAreLinked, RowIsUnique, StoresApart, Storing
  <2>6. ASSUME NEW v \in Writer PROVE StoreKnows(v)'
    BY <2>2, <2>3, <2>4 DEF Tables, StoreKnows
  <2> QED
    BY <2>5, <2>6 DEF Tables
<1>4. CASE \E w \in Writer : Work(w)
  <2>1. PICK w \in Writer : Work(w)
    BY <1>4
  <2>2. mishap \subseteq mishap'
    BY <2>1 DEF Work, Embed, FindExisting, DropExisting, LinkPhotoEmbedding, SaveEmbedding,
       SaveMismatch, SaveAfterRebuild, Inserts, Rebuild, Abandon
  <2> QED
    BY <2>1, <2>2, WorkKeepsTables DEF Clean
<1>5. CASE \E m \in Model : UpdateModel(m)
  <2>1. PICK m \in Model : UpdateModel(m)
    BY <1>5
  <2>2. Tables /\ UNCHANGED job
    BY <2>1 DEF UpdateModel, Clean
  <2>3. CASE TableWidth[m] = dim
    <3>1. UNCHANGED <<map, vss, job>>
      BY <2>1, <2>3 DEF UpdateModel
    <3> QED
      BY <3>1, <2>2 DEF Tables, VectorsAreLinked, RowIsUnique, StoresApart, StoreKnows, RowsOf, Storing
  <2>4. CASE TableWidth[m] # dim
    <3>1. map' = Empty /\ vss' = Empty /\ \A w \in Writer : ~Storing(w)
      BY <2>1, <2>4 DEF UpdateModel, Clean
    <3> QED
      BY <3>1, <2>2, NoneIsNoRow DEF Tables, VectorsAreLinked, RowIsUnique, StoresApart, StoreKnows, RowsOf,
         Storing, Empty
  <2> QED
    BY <2>3, <2>4
<1>6. CASE \E m \in Model : Restart(m)
  <2>1. PICK m \in Model : Restart(m)
    BY <1>6
  <2>2. Tables /\ \A w \in Writer : job'[w].stage = "idle"
    BY <2>1 DEF Restart, Clean, Idle
  <2>3. \/ map' = Empty /\ vss' = Empty
        \/ UNCHANGED <<map, vss>>
    <3>1. Deduplicated = map
      BY <2>2, DeduplicationIsIdle DEF Tables
    <3> QED
      BY <3>1, <2>1 DEF Restart
  <2>4. VectorsAreLinked' /\ RowIsUnique'
    BY <2>2, <2>3, NoneIsNoRow DEF Tables, VectorsAreLinked, RowIsUnique, RowsOf, Empty
  <2>5. StoresApart' /\ \A w \in Writer : StoreKnows(w)'
    BY <2>2 DEF StoresApart, StoreKnows, Storing
  <2> QED
    BY <2>4, <2>5 DEF Tables
<1> QED
  BY <1>1, <1>2, <1>3, <1>4, <1>5, <1>6 DEF Next

--------------------------------------------------------------------------------
(* The theorems *)

\* The invariant holds in every reachable state.
THEOREM IndexInvariance == Spec => []IndexInv
<1>1. ASSUME IndexInv, [Next]_vars PROVE IndexInv'
  <2>1. CASE Next
    BY <1>1, <2>1, TypeStep, TablesStep DEF IndexInv
  <2>2. CASE UNCHANGED vars
    BY <1>1, <2>2 DEF vars, IndexInv, TypeOK, JobTyped, Clean, Tables, VectorsAreLinked, RowIsUnique,
       StoresApart, StoreKnows, RowsOf, Storing
  <2> QED
    BY <1>1, <2>1, <2>2
<1> QED
  BY <1>1, InitInv, PTL DEF Spec

\* Every reachable state is well typed (vector_db_services.py, tasks/embedding_tasks.py).
THEOREM IndexTypeCorrect == Spec => []TypeOK
<1>1. IndexInv => TypeOK
  BY DEF IndexInv
<1> QED
  BY <1>1, IndexInvariance, PTL

\* search_similar_photos joins vectors and rows by number; what it finds under a number is the
\* vector of the photo the row names.
THEOREM HonestSearch == Spec => []SearchIsHonest
<1>1. IndexInv => SearchIsHonest
  BY DEF IndexInv, Clean, Tables, VectorsAreLinked, SearchIsHonest, Found
<1> QED
  BY <1>1, IndexInvariance, PTL

\* store_photo_embedding: "a photo never has more than one vector".
THEOREM UniqueRow == Spec => []OneRowPerPhoto
<1>1. IndexInv => OneRowPerPhoto
  BY DEF IndexInv, Clean, Tables, RowIsUnique, OneRowPerPhoto
<1> QED
  BY <1>1, IndexInvariance, PTL

\* What a store leaves for its photo is what it stored: the rows its predecessors left, however
\* they ended, are gone.
THEOREM StoreWins == Spec => StoreReplaces
<1>1. ASSUME IndexInv, [Next]_vars
      PROVE  [\A w \in Writer :
                SaveEmbedding(w) /\ mishap \subseteq {"halted"} =>
                  {<<i, vss'[i]>> : i \in {j \in Found' : map'[j] = job[w].photo}}
                      = {<<job[w].row, NewVector(w)>>}]_vars
  <2> SUFFICES ASSUME NEW w \in Writer, SaveEmbedding(w), Clean
               PROVE  {<<i, vss'[i]>> : i \in {j \in Found' : map'[j] = job[w].photo}}
                          = {<<job[w].row, NewVector(w)>>}
    BY DEF Clean
  <2> DEFINE p == job[w].photo
             r == job[w].row
  <2>1. /\ job[w].stage = "linked" /\ UNCHANGED map
        /\ vss' = [vss EXCEPT ![r] = NewVector(w)]
    BY DEF SaveEmbedding, Inserts
  <2>2. r \in Row /\ p \in PhotoId /\ map[r] = p
    BY <1>1, <2>1 DEF IndexInv, Tables, StoreKnows, JobTyped
  <2>3. NewVector(w) # None /\ p # None
    <3>1. NewVector(w) \in Vector
      BY <1>1, <2>1 DEF IndexInv, TypeOK, Job, JobTyped, NewVector, Vector
    <3> QED
      BY <3>1, <2>2, NoneIsNoRow
  <2>4. \A j \in Row : map[j] = p => j = r
    BY <1>1, <2>2 DEF IndexInv, Tables, RowIsUnique, RowsOf
  <2>5. vss'[r] = NewVector(w)
    BY <1>1, <2>1, <2>2 DEF IndexInv, TypeOK
  <2>6. r \in Found'
    BY <2>1, <2>2, <2>3, <2>5 DEF Found
  <2>7. {j \in Found' : map'[j] = p} = {r}
    BY <2>1, <2>2, <2>4, <2>6 DEF Found
  <2> QED
    BY <2>5, <2>7
<1> QED
  BY <1>1, IndexInvariance, PTL DEF Spec, StoreReplaces

--------------------------------------------------------------------------------
(* "No re-index needed" *)

\* Writer w has a row in the map and has still to store the vector.
HasRow(w) == job[w].stage \in {"linked", "mismatch"}

\* Every row has its vector, or a writer that is about to store it.
Filled ==
    /\ \A w \in Writer : job[w].row # 0 => HasRow(w)
    /\ \A i \in Row : map[i] # None /\ vss[i] = None => \E w \in Writer : HasRow(w) /\ job[w].row = i

FillInv == mishap = {} => Filled

\* A step of a writer keeps the rows filled.
LEMMA WorkKeepsFilled ==
    ASSUME IndexInv, mishap = {}, Filled, NEW w \in Writer, Work(w), mishap' = {}
    PROVE  Filled'
<1> USE DEF IndexInv, TypeOK, Job
<1>t. Tables /\ JobTyped
  BY DEF Clean
<1>0. ASSUME UNCHANGED <<map, vss>>, ~HasRow(w) \/ HasRow(w)',
             \A v \in Writer : v # w => job'[v] = job[v],
             job'[w].row = job[w].row \/ ~HasRow(w), job'[w].row # 0 => HasRow(w)'
      PROVE  Filled'
  <2>1. \A v \in Writer : HasRow(v) => HasRow(v)' /\ job'[v].row = job[v].row
    BY <1>0 DEF HasRow
  <2>2. \A v \in Writer : job'[v].row # 0 => HasRow(v)'
    BY <1>0 DEF Filled, HasRow
  <2> QED
    BY <1>0, <2>1, <2>2 DEF Filled
<1>1. CASE Embed(w)
  <2>1. /\ job'[w].stage = "embedded" /\ job'[w].photo = job[w].photo /\ job'[w].row = job[w].row
        /\ job[w].stage = "read" /\ UNCHANGED <<map, vss>>
        /\ \A v \in Writer : v # w => job'[v] = job[v]
    BY <1>1 DEF Embed
  <2> QED
    BY <1>0, <2>1 DEF HasRow, Filled
<1>2. CASE FindExisting(w)
  <2>1. /\ job'[w].photo = job[w].photo /\ job'[w].row = job[w].row
        /\ job[w].stage = "embedded" /\ UNCHANGED <<map, vss>>
        /\ \A v \in Writer : v # w => job'[v] = job[v]
    BY <1>2 DEF FindExisting
  <2> QED
    BY <1>0, <2>1 DEF HasRow, Filled
<1>3. CASE SaveMismatch(w)
  <2>1. /\ job'[w].photo = job[w].photo /\ job'[w].row = job[w].row
        /\ job[w].stage = "linked" /\ job'[w].stage = "mismatch" /\ UNCHANGED <<map, vss>>
        /\ \A v \in Writer : v # w => job'[v] = job[v]
    BY <1>3 DEF SaveMismatch
  <2> QED
    BY <1>0, <2>1 DEF HasRow, Filled
<1>4. CASE Abandon(w)
  <2>1. /\ job'[w].stage = "idle" /\ job'[w].row = 0 /\ job[w].row = 0
        /\ job[w].stage # "idle" /\ UNCHANGED <<map, vss>>
        /\ \A v \in Writer : v # w => job'[v] = job[v]
    BY <1>4 DEF Abandon, Idle
  <2>2. ~HasRow(w)
    BY <1>t, <2>1 DEF JobTyped, HasRow, Row
  <2> QED
    BY <1>0, <2>1, <2>2
<1>5. CASE DropExisting(w)
  <2>1. /\ job[w].stage = "found" /\ job[w].rows = RowsOf(job[w].photo)
        /\ map' = [i \in Row |-> IF i \in RowsOf(job[w].photo) THEN None ELSE map[i]]
        /\ vss' = [i \in Row |-> IF i \in job[w].rows THEN None ELSE vss[i]]
        /\ job' = [job EXCEPT ![w].stage = "cleared"]
    BY <1>5, <1>t DEF DropExisting, Tables, StoreKnows
  <2>2. /\ \A v \in Writer : v # w => job'[v] = job[v]
        /\ job'[w].photo = job[w].photo /\ job'[w].row = job[w].row
    BY <2>1
  <2>3. \A i \in Row : map'[i] # None => map'[i] = map[i] /\ vss'[i] = vss[i]
    BY <2>1
  <2>4. \A v \in Writer : HasRow(v) => HasRow(v)' /\ job'[v].row = job[v].row
    BY <2>1, <2>2 DEF HasRow
  <2>5. \A v \in Writer : job'[v].row # 0 => HasRow(v)'
    BY <2>1, <2>2 DEF HasRow, Filled
  <2> QED
    BY <2>1, <2>3, <2>4, <2>5 DEF Filled
<1>6. CASE LinkPhotoEmbedding(w)
  <2>1. PICK i \in Row : /\ map' = [map EXCEPT ![i] = job[w].photo]
                         /\ job' = [job EXCEPT ![w].stage = "linked", ![w].row = i]
                         /\ UNCHANGED vss /\ job[w].stage = "cleared"
    BY <1>6 DEF LinkPhotoEmbedding
  <2>2. /\ \A v \in Writer : v # w => job'[v] = job[v]
        /\ job'[w].photo = job[w].photo /\ job'[w].row = i /\ HasRow(w)' /\ ~HasRow(w)
    BY <2>1 DEF HasRow
  <2>3. \A j \in Row : j # i => map'[j] = map[j]
    BY <2>1
  <2>5. \A v \in Writer : HasRow(v) => HasRow(v)' /\ job'[v].row = job[v].row
    BY <2>2 DEF HasRow
  <2>6. \A v \in Writer : job'[v].row # 0 => HasRow(v)'
    BY <2>2 DEF HasRow, Filled
  <2>9. \A j \in Row : map'[j] # None /\ vss'[j] = None =>
            \E v \in Writer : HasRow(v)' /\ job'[v].row = j
    BY <2>1, <2>2, <2>3, <2>5 DEF Filled
  <2> QED
    BY <2>6, <2>9 DEF Filled
<1>7. CASE SaveEmbedding(w)
  <2>1. /\ job[w].stage = "linked" /\ UNCHANGED map
        /\ vss' = [vss EXCEPT ![job[w].row] = NewVector(w)]
        /\ job' = [job EXCEPT ![w] = Idle]
    BY <1>7 DEF SaveEmbedding, Inserts
  <2>2. NewVector(w) # None
    BY <1>t, <2>1, NoneIsNoRow DEF JobTyped, NewVector, Vector
  <2>3. /\ \A v \in Writer : v # w => job'[v] = job[v]
        /\ job'[w].row = 0 /\ job'[w].stage = "idle"
    BY <2>1 DEF Idle
  <2>4. \A j \in Row : vss'[j] = None => vss[j] = None /\ j # job[w].row
    BY <2>1, <2>2
  <2>5. \A j \in Row : map[j] # None /\ vss'[j] = None =>
            \E v \in Writer : HasRow(v)' /\ job'[v].row = j
    BY <2>3, <2>4 DEF Filled, HasRow
  <2> QED
    BY <2>1, <2>3, <2>5 DEF Filled, HasRow
<1>8. CASE Rebuild(w)
  BY <1>8 DEF Rebuild
<1>9. CASE SaveAfterRebuild(w)
  BY <1>9, <1>t DEF SaveAfterRebuild, Inserts, Tables, StoreKnows
<1> QED
  BY <1>1, <1>2, <1>3, <1>4, <1>5, <1>6, <1>7, <1>8, <1>9 DEF Work

\* Every action keeps the rows filled while nothing goes wrong.
LEMMA FillStep == ASSUME IndexInv, FillInv, Next PROVE FillInv'
<1> SUFFICES ASSUME mishap' = {} PROVE Filled'
  BY DEF FillInv
<1> USE DEF IndexInv, TypeOK, Job
<1>0. mishap = {}
  BY DEF Next, AddPhoto, UpdatePhoto, DeletePhoto, ReadText, Work, Embed, FindExisting, DropExisting,
     LinkPhotoEmbedding, SaveEmbedding, SaveMismatch, SaveAfterRebuild, Inserts, Rebuild, Abandon,
     UpdateModel, Restart
<1>t. Filled /\ Tables /\ JobTyped
  BY <1>0 DEF FillInv, Clean
<1>1. ASSUME NEW p \in PhotoId, AddPhoto(p) \/ UpdatePhoto(p) PROVE Filled'
  <2>1. UNCHANGED <<map, vss, job>>
    BY <1>1 DEF AddPhoto, UpdatePhoto
  <2> QED
    BY <1>t, <2>1 DEF Filled, HasRow
<1>2. ASSUME NEW p \in PhotoId, DeletePhoto(p) PROVE Filled'
  BY <1>2 DEF DeletePhoto
<1>3. ASSUME NEW w \in Writer, NEW p \in PhotoId, NEW of \in Text, ReadText(w, p, of) PROVE Filled'
  <2>1. /\ job[w].stage = "idle" /\ UNCHANGED <<map, vss>>
        /\ \A v \in Writer : v # w => job'[v] = job[v]
        /\ job'[w].stage = "read" /\ job'[w].photo = p /\ job'[w].row = 0
    BY <1>3 DEF ReadText, Idle
  <2>2. \A i \in Row : map[i] # None /\ vss[i] = None => \E v \in Writer : HasRow(v)' /\ job'[v].row = i
    BY <1>t, <2>1 DEF Filled, HasRow
  <2> QED
    BY <1>t, <2>1, <2>2 DEF Filled, HasRow
<1>4. ASSUME NEW w \in Writer, Work(w) PROVE Filled'
  BY <1>0, <1>t, <1>4, WorkKeepsFilled
<1>5. ASSUME NEW m \in Model, UpdateModel(m) PROVE Filled'
  <2>1. \/ UNCHANGED <<map, vss, job>>
        \/ map' = Empty /\ UNCHANGED job
    BY <1>5 DEF UpdateModel
  <2> QED
    BY <1>t, <2>1 DEF Filled, HasRow, Empty
<1>6. ASSUME NEW m \in Model, Restart(m) PROVE Filled'
  <2>1. \A w \in Writer : job[w].row = 0 /\ job'[w].row = 0 /\ job'[w].stage = "idle"
    BY <1>6 DEF Restart, Idle
  <2>2. Deduplicated = map
    BY <1>t, DeduplicationIsIdle DEF Tables
  <2>3. map' = Empty \/ UNCHANGED <<map, vss>>
    BY <1>6, <2>2 DEF Restart
  <2>4. \A w \in Writer : ~HasRow(w)
    BY <1>t, <2>1 DEF JobTyped, HasRow, Row
  <2> QED
    BY <1>t, <2>1, <2>3, <2>4 DEF Filled, Empty
<1> QED
  BY <1>1, <1>2, <1>3, <1>4, <1>5, <1>6 DEF Next

\* Rows that find a counted photo; there are at most as many of them as counted photos found.
Useful == {i \in Found : map[i] \in counted}

\* A photo has one row, so no more photos are missed than there are rows in excess: all rows are
\* at least as many as the counted photos, and the useful ones at most as many as those found.
LEMMA MissedAreFewer ==
    ASSUME TypeOK, RowIsUnique, ~ReindexNeeded
    PROVE  Cardinality(Missing) <= Cardinality(Bare \cup Uncounted)
<1> DEFINE Used == {i \in Row : map[i] # None}
           Reached == counted \ Missing
           photoOf == [i \in Useful |-> map[i]]
<1>1. IsFiniteSet(counted) /\ IsFiniteSet(Used)
  <2>1. IsFiniteSet(PhotoId) /\ IsFiniteSet(Row)
    BY BoundsAssumption, FS_Interval DEF PhotoId, Row
  <2>2. counted \subseteq PhotoId /\ Used \subseteq Row
    BY DEF TypeOK
  <2> QED
    BY <2>1, <2>2, FS_Subset
<1>2. Missing \subseteq counted /\ Useful \subseteq Used
  BY DEF Missing, Useful, Found
<1>3. photoOf \in Injection(Useful, Reached)
  <2>1. \A i \in Useful : map[i] \in Reached
    BY DEF Useful, Missing
  <2>2. \A i, j \in Useful : map[i] = map[j] => i = j
    BY DEF RowIsUnique, RowsOf, Useful, Found, TypeOK
  <2> QED
    BY <2>1, <2>2 DEF Injection, IsInjective
<1>4. /\ IsFiniteSet(Reached) /\ IsFiniteSet(Useful)
      /\ Cardinality(Useful) <= Cardinality(Reached)
  <2>1. IsFiniteSet(Reached)
    BY <1>1, FS_Difference
  <2> QED
    BY <1>3, <2>1, FS_Injection
<1>5. IsFiniteSet(Missing) /\ Cardinality(Reached) = Cardinality(counted) - Cardinality(Missing)
  <2>1. IsFiniteSet(Missing) /\ counted \cap Missing = Missing
    BY <1>1, <1>2, FS_Subset
  <2> QED
    BY <1>1, <2>1, FS_Difference
<1>6. Bare \cup Uncounted = Used \ Useful
  BY DEF Bare, Uncounted, Useful, Found
<1>7. Cardinality(Used \ Useful) = Cardinality(Used) - Cardinality(Useful)
  <2>1. Used \cap Useful = Useful
    BY <1>2
  <2> QED
    BY <1>1, <1>4, <2>1, FS_Difference
<1>8. Cardinality(Used) >= Cardinality(counted)
  BY <1>1, FS_CardinalityType DEF ReindexNeeded
<1>9. /\ Cardinality(Used) \in Nat /\ Cardinality(counted) \in Nat
      /\ Cardinality(Missing) \in Nat /\ Cardinality(Useful) \in Nat
  BY <1>1, <1>4, <1>5, FS_CardinalityType
<1> HIDE DEF Used, Reached
<1> QED
  BY <1>4, <1>5, <1>6, <1>7, <1>8, <1>9

\* The rows are filled in every reachable state.
THEOREM FillInvariance == Spec => []FillInv
<1>1. Init => FillInv
  BY DEF Init, FillInv, Filled, Empty, Idle, HasRow
<1>2. ASSUME IndexInv, FillInv, [Next]_vars PROVE FillInv'
  <2>1. CASE UNCHANGED vars
    BY <1>2, <2>1 DEF vars, FillInv, Filled, HasRow
  <2> QED
    BY <1>2, <2>1, FillStep
<1> QED
  BY <1>1, <1>2, IndexInvariance, PTL DEF Spec

\* The status report compares two counts (main.py); its "no re-index needed" leaves out at most
\* as many described photos as the map has rows in excess, and rows without a vector are those
\* of stores cut short or under way.
THEOREM HonestStatus == Spec => []StatusIsHonest
<1>1. ASSUME IndexInv, FillInv PROVE StatusIsHonest
  <2>1. ASSUME Clean, ~ReindexNeeded PROVE Cardinality(Missing) <= Cardinality(Bare \cup Uncounted)
    BY <1>1, <2>1, MissedAreFewer DEF IndexInv, Tables
  <2>2. ASSUME mishap = {}, \A w \in Writer : ~Storing(w) PROVE Bare = {}
    BY <1>1, <2>2 DEF FillInv, Filled, HasRow, Storing, Bare
  <2> QED
    BY <2>1, <2>2 DEF StatusIsHonest, Clean
<1> QED
  BY <1>1, IndexInvariance, FillInvariance, PTL
=============================================================================
