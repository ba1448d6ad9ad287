-------------------------------- MODULE Library --------------------------------
(***************************************************************************)
(* The rows of the library: photos, what is linked to them (tags,           *)
(* categories, a place, hashes, duplicate records) and the history of the   *)
(* chat agent's annotations.  They are written at the same time by pipeline *)
(* tasks (clip_tasks.py), by tools of the agent (graphs/tools.py), by the   *)
(* edit endpoints (main.py), and a photo may be deleted under all of them.  *)
(*                                                                         *)
(* A session writes at its commit: what it read before is not locked, but   *)
(* in _save_tags_sync, which takes SQLite's writer lock first.  Foreign     *)
(* keys are not enforced, and SQLite gives a new photo the highest id plus  *)
(* one, so the id of a deleted photo comes back.                            *)
(***************************************************************************)
EXTENDS Naturals, Sequences, FiniteSets, SequencesExt

CONSTANTS
    MaxPhotos,   \* bound: photo ids
    Picture,     \* pictures; any two are near duplicates
    Tag, Category, Place,
    NoPicture, NoPlace, Nobody,
    Session,     \* database sessions at work at the same time
    MaxOps       \* bound: operations started, and ends of the backend

ASSUME LibraryAssumption ==
    /\ MaxPhotos \in Nat /\ MaxOps \in Nat
    /\ IsFiniteSet(Tag) /\ IsFiniteSet(Category)
    /\ NoPicture \notin Picture /\ NoPlace \notin Place /\ Nobody \notin Session
    /\ Tag \cap Category = {} /\ Place \cap (Tag \cup Category) = {}

VARIABLES
    photo,       \* id -> its picture
    disk,        \* the pictures whose file exists
    links,       \* rows of photo_tags and photo_categories; "of" is auxiliary
    categories,  \* rows of categories
    places,      \* id -> its geoposition
    hashes,      \* id -> the picture its row of photo_hashes was computed from
    records,     \* perceptual rows of photo_duplicates: <<original, duplicate>>
    history,     \* rows of history_actions, in order
    session,     \* session -> the operation it runs and what it has read
    locked,      \* who holds SQLite's writer lock between two steps
    geocoded,    \* auxiliary: id -> the place it has but for the agent's actions
    dismissed,   \* auxiliary: pairs a user took out of the duplicates
    searched,    \* auxiliary: photos whose near duplicates were searched to the end
    calm,        \* auxiliary: no photo was deleted that an operation or the history named
    apart,       \* auxiliary: no action of the agent overlapped another, was cut or geocoded over
    opsLeft

aux == <<geocoded, dismissed, searched, calm, apart>>
vars == <<photo, disk, links, categories, places, hashes, records, history, session,
          locked, aux, opsLeft>>

Id == 1..MaxPhotos
Label == Tag \cup Category
Live == {i \in Id : photo[i] # NoPicture}
Pair == {p \in Id \X Id : p[1] # p[2]}

Annotation == {"add_tag", "add_category", "add_geoposition"}
Idle == [op |-> "none", at |-> "none", key |-> 0, ids |-> <<>>,
         of |-> [i \in Id |-> NoPicture], label |-> NoPlace, todo |-> <<>>, new |-> {},
         done |-> <<>>, was |-> [i \in Id |-> NoPlace]]
Sessions == [op : Annotation \cup {"none", "tags", "categories", "hash", "compare", "link", "delete",
                                   "mark", "undo"},
             at : {"none", "lock", "look", "create", "write", "search", "record", "file", "forget"},
             key : 0..MaxOps, ids : Seq(Id), of : [Id -> Picture \cup {NoPicture}],
             label : Label \cup Place \cup {NoPlace}, todo : Seq(Label \cup Nat),
             new : SUBSET (Label \cup Id), done : Seq(Id), was : [Id -> Place \cup {NoPlace}]]
Actions == [op : Annotation, key : 1..MaxOps, label : Label \cup Place, ids : Seq(Id),
            was : [Id -> Place \cup {NoPlace}]]

TypeOK ==
    /\ photo \in [Id -> Picture \cup {NoPicture}] /\ disk \subseteq Picture
    /\ links \subseteq [id : Id, label : Label, of : Picture \cup {NoPicture}]
    /\ categories \subseteq Category
    /\ places \in [Id -> Place \cup {NoPlace}]
    /\ hashes \in [Id -> Picture \cup {NoPicture}]
    /\ records \subseteq Pair /\ history \in Seq(Actions)
    /\ session \in [Session -> Sessions] /\ locked \in Session \cup {Nobody}
    /\ geocoded \in [Id -> Place \cup {NoPlace}] /\ dismissed \subseteq SUBSET Id /\ searched \subseteq Id
    /\ calm \in BOOLEAN /\ apart \in BOOLEAN
    /\ opsLeft \in 0..MaxOps

Init ==
    /\ photo = [i \in Id |-> NoPicture] /\ disk = {}
    /\ links = {} /\ categories = {} /\ places = [i \in Id |-> NoPlace]
    /\ hashes = [i \in Id |-> NoPicture] /\ records = {} /\ history = <<>>
    /\ session = [s \in Session |-> Idle] /\ locked = Nobody
    /\ geocoded = [i \in Id |-> NoPlace] /\ dismissed = {} /\ searched = {}
    /\ calm = TRUE /\ apart = TRUE
    /\ opsLeft = MaxOps

Free(s) == locked \in {s, Nobody}
Doing(s, op, at) == session[s].op = op /\ session[s].at = at
Item(s) == Head(session[s].todo)
Target(s) == Head(session[s].ids)
Linked(i, label) == \E l \in links : l.id = i /\ l.label = label
Rows(s, i, labels) == {[id |-> i, label |-> b, of |-> session[s].of[i]] : b \in labels}
Goes(s, to) == session' = [session EXCEPT ![s] = to]
End(s) == Goes(s, Idle)

Counted == opsLeft > 0 /\ opsLeft' = opsLeft - 1

\* A request, a task or a tool opens its session; "of" are the pictures it is about.
Begin(s, op, at, ids, label, todo) ==
    /\ session[s].op = "none" /\ Counted
    /\ Goes(s, [Idle EXCEPT !.op = op, !.at = at, !.key = opsLeft, !.ids = ids, !.of = photo,
                            !.label = label, !.todo = todo])

--------------------------------------------------------------------------------
(* Photos come and go *)
Highest == IF Live = {} THEN 0 ELSE CHOOSE i \in Live : \A j \in Live : j <= i

AddPhoto(p) ==
    /\ locked = Nobody /\ p \notin disk /\ Highest < MaxPhotos
    /\ photo' = [photo EXCEPT ![Highest + 1] = p] /\ disk' = disk \cup {p}
    /\ UNCHANGED <<links, categories, places, hashes, records, history, session, locked,
                   aux, opsLeft>>

DeleteBegins(s, i) ==
    /\ i \in Live /\ Begin(s, "delete", "write", <<i>>, NoPlace, <<>>)
    /\ UNCHANGED <<photo, disk, links, categories, places, hashes, records, history,
                   locked, aux>>

Named(i, s) == \/ \E t \in Session \ {s} :
                     \/ i \in ToSet(session[t].ids)
                     \/ session[t].at = "record" /\ i \in ToSet(session[t].todo)
               \/ \E h \in DOMAIN history : i \in ToSet(history[h].ids)

\* Mutant: the rows of photo_categories stay.
DeleteButCategories(i) ==
    /\ photo' = [photo EXCEPT ![i] = NoPicture]
    /\ links' = {l \in links : l.id # i \/ l.label \in Category}
    /\ hashes' = [hashes EXCEPT ![i] = NoPicture]
    /\ records' = {p \in records : i # p[1] /\ i # p[2]}
    /\ places' = [places EXCEPT ![i] = NoPlace]

\* delete_photo and the cascades of its row, in one commit.
DeleteRows(i) ==
    /\ photo' = [photo EXCEPT ![i] = NoPicture]
    /\ links' = {l \in links : l.id # i}
    /\ hashes' = [hashes EXCEPT ![i] = NoPicture]
    /\ records' = {p \in records : i # p[1] /\ i # p[2]}
    /\ places' = [places EXCEPT ![i] = NoPlace]

DeleteCommits(s) ==
    LET i == Target(s)
    IN  /\ Doing(s, "delete", "write") /\ Free(s)
        /\ IF i \in Live
           THEN /\ DeleteRows(i)
                /\ geocoded' = [geocoded EXCEPT ![i] = NoPlace]
                /\ dismissed' = {p \in dismissed : i \notin p}
                /\ searched' = searched \ {i}
                /\ calm' = (calm /\ ~Named(i, s))
                /\ Goes(s, [session[s] EXCEPT !.at = "file"])
           ELSE /\ End(s)
                /\ UNCHANGED <<photo, links, hashes, records, places, geocoded, dismissed,
                               searched, calm>>
        /\ UNCHANGED <<disk, categories, history, locked, apart, opsLeft>>

\* The file goes after the rows.
DeleteFile(s) ==
    /\ Doing(s, "delete", "file")
    /\ disk' = disk \ {session[s].of[Target(s)]}
    /\ End(s)
    /\ UNCHANGED <<photo, links, categories, places, hashes, records, history, locked,
                   aux, opsLeft>>

--------------------------------------------------------------------------------
(* The CLIP tasks of the pipeline *)
OnlyLinks == UNCHANGED <<photo, disk, places, hashes, records, history, aux>>

TagsBegin(s, i, found) ==
    /\ i \in Live /\ Begin(s, "tags", "lock", <<i>>, NoPlace, found)
    /\ OnlyLinks /\ UNCHANGED <<links, categories, locked>>

\* Mutant: the links are looked at before the writer lock is held.
TagsUnlocked(s) ==
    /\ Doing(s, "tags", "lock")
    /\ Goes(s, [session[s] EXCEPT !.at = "write",
                   !.new = {b \in ToSet(session[s].todo) : ~Linked(Target(s), b)}])
    /\ OnlyLinks /\ UNCHANGED <<links, categories, locked, opsLeft>>

\* BEGIN IMMEDIATE, then the links are looked at; a photo that is gone fails the task.
TagsLock(s) ==
    /\ Doing(s, "tags", "lock") /\ locked = Nobody
    /\ IF Target(s) \in Live
       THEN /\ Goes(s, [session[s] EXCEPT !.at = "write",
                   !.new = {b \in ToSet(session[s].todo) : ~Linked(Target(s), b)}])
            /\ locked' = s
       ELSE End(s) /\ UNCHANGED locked
    /\ OnlyLinks /\ UNCHANGED <<links, categories, opsLeft>>

\* A row that exists by now fails the commit.
Collides(s) == \E b \in session[s].new : Linked(Target(s), b)
Commit(s) == links' = links \cup Rows(s, Target(s), session[s].new)

TagsCommit(s) ==
    /\ Doing(s, "tags", "write") /\ Free(s)
    /\ IF Collides(s) THEN UNCHANGED links ELSE Commit(s)
    /\ End(s) /\ locked' = Nobody
    /\ OnlyLinks /\ UNCHANGED <<categories, opsLeft>>

CategoriesBegin(s, i, found) ==
    /\ i \in Live /\ Begin(s, "categories", "look", <<i>>, NoPlace, found)
    /\ OnlyLinks /\ UNCHANGED <<links, categories, locked>>

Pended(s) == [session[s] EXCEPT !.at = "look", !.todo = Tail(@),
                !.new = IF Linked(Target(s), Item(s)) THEN @ ELSE @ \cup {Item(s)}]

\* A category that has a row is linked at the end; one that has none is created first.
CategoriesLook(s) ==
    /\ Doing(s, "categories", "look") /\ session[s].todo # <<>>
    /\ IF Item(s) \in categories THEN Goes(s, Pended(s))
       ELSE Goes(s, [session[s] EXCEPT !.at = "create"])
    /\ OnlyLinks /\ UNCHANGED <<links, categories, locked, opsLeft>>

\* get_or_create_category commits, and with it the links added so far; when another
\* session created the category, or a link, meanwhile, it rolls them back.
CategoryCreated(s) ==
    /\ Doing(s, "categories", "create") /\ Free(s)
    /\ IF Item(s) \notin categories /\ ~Collides(s)
       THEN /\ Commit(s) /\ categories' = categories \cup {Item(s)}
            /\ Goes(s, [session[s] EXCEPT !.at = "look", !.todo = Tail(@), !.new = {Item(s)}])
       ELSE /\ UNCHANGED <<links, categories>>
            /\ IF Item(s) \in categories
               THEN Goes(s, [Pended(s) EXCEPT !.new = @ \ session[s].new])
               ELSE End(s)
    /\ OnlyLinks /\ UNCHANGED <<locked, opsLeft>>

CategoriesCommit(s) ==
    /\ Doing(s, "categories", "look") /\ session[s].todo = <<>> /\ Free(s)
    /\ IF Collides(s) THEN UNCHANGED links ELSE Commit(s)
    /\ End(s)
    /\ OnlyLinks /\ UNCHANGED <<categories, locked, opsLeft>>

--------------------------------------------------------------------------------
(* Hashes and near duplicates *)
OnlyPairs == UNCHANGED <<photo, disk, links, categories, places, history, locked, geocoded,
                         dismissed, calm, apart>>

\* The task of the pipeline, or a comparison of two photos, which only saves hashes.
HashBegin(s, op, i) ==
    /\ i \in Live /\ Begin(s, op, "look", <<i>>, NoPlace, <<>>)
    /\ OnlyPairs /\ UNCHANGED <<hashes, records, searched>>

Hashing(s, at) == session[s].op \in {"hash", "compare"} /\ session[s].at = at

\* Once its hashes are stored, a comparison ends and the task goes on to search.
HashStored(s) ==
    IF session[s].op = "compare" THEN End(s) ELSE Goes(s, [session[s] EXCEPT !.at = "search"])

\* get_or_create_photo_hash: a row that is there is kept ...
HashLook(s) ==
    /\ Hashing(s, "look")
    /\ IF hashes[Target(s)] = NoPicture THEN Goes(s, [session[s] EXCEPT !.at = "write"])
       ELSE HashStored(s)
    /\ OnlyPairs /\ UNCHANGED <<hashes, records, searched, opsLeft>>

\* ... and one that another session inserted since fails the commit (photo_id is unique):
\* the comparison answers with the error, the task logs it and is done without a search.
HashSave(s) ==
    LET i == Target(s)
    IN  /\ Hashing(s, "write") /\ Free(s)
        /\ \/ /\ hashes[i] = NoPicture
              /\ hashes' = [hashes EXCEPT ![i] = session[s].of[i]]
              /\ HashStored(s)
           \/ /\ hashes[i] # NoPicture
              /\ End(s)
              /\ UNCHANGED hashes
        /\ OnlyPairs /\ UNCHANGED <<records, searched, opsLeft>>

\* Any other error, of the image or the database, ends them the same way.
HashFails(s) ==
    /\ session[s].op \in {"hash", "compare"}
    /\ End(s)
    /\ OnlyPairs /\ UNCHANGED <<hashes, records, searched, opsLeft>>

\* Mutant: each pair is looked for once, from its higher id.
HashSearchBelow(s) ==
    /\ Doing(s, "hash", "search")
    /\ Goes(s, [session[s] EXCEPT !.at = "record",
         !.todo = SetToSeq({j \in Id : hashes[j] # NoPicture /\ j < Target(s)})])
    /\ OnlyPairs /\ UNCHANGED <<hashes, records, searched, opsLeft>>

HashSearch(s) ==
    /\ Doing(s, "hash", "search")
    /\ Goes(s, [session[s] EXCEPT !.at = "record",
         !.todo = IF hashes[Target(s)] = NoPicture THEN <<>>
                  ELSE SetToSeq({j \in Id \ {Target(s)} : hashes[j] # NoPicture})])
    /\ OnlyPairs /\ UNCHANGED <<hashes, records, searched, opsLeft>>

MarkBegin(s, i, others) ==
    /\ i \in Live /\ i \notin ToSet(others)
    /\ Begin(s, "mark", "record", <<i>> \o others, NoPlace, others)
    /\ OnlyPairs /\ UNCHANGED <<hashes, records, searched>>

\* One commit for each record; the agent's tool skips a photo that is gone.
RecordPair(s) ==
    /\ session[s].at = "record" /\ session[s].todo # <<>> /\ Free(s)
    /\ records' = IF session[s].op = "mark" /\ Item(s) \notin Live THEN records
                  ELSE records \cup {<<Target(s), Item(s)>>}
    /\ Goes(s, [session[s] EXCEPT !.todo = Tail(@)])
    /\ OnlyPairs /\ UNCHANGED <<hashes, searched, opsLeft>>

Recorded(s) ==
    /\ session[s].at = "record" /\ session[s].todo = <<>>
    /\ searched' = IF session[s].op = "hash" THEN searched \cup {Target(s)} ELSE searched
    /\ End(s)
    /\ OnlyPairs /\ UNCHANGED <<hashes, records, opsLeft>>

\* get_duplicate_groups lists a record of two photos that have hashes; none is archived here.
Shown(p) == p \in records /\ hashes[p[1]] # NoPicture /\ hashes[p[2]] # NoPicture

DismissDuplicate(p) ==
    /\ locked = Nobody /\ p \in records /\ Counted
    /\ records' = records \ {p} /\ dismissed' = dismissed \cup {{p[1], p[2]}}
    /\ UNCHANGED <<photo, disk, links, categories, places, hashes, history, session, locked,
                   geocoded, searched, calm, apart>>

--------------------------------------------------------------------------------
(* The agent's annotations *)
OnlyNotes == UNCHANGED <<photo, disk, hashes, records, locked, geocoded, dismissed,
                         searched, calm>>

Agent(s) == session[s].op \in Annotation \cup {"undo"}
Alone == apart' = (apart /\ \A t \in Session : ~Agent(t))

AnnotateBegin(s, op, ids, label) ==
    /\ Begin(s, op, "look", ids, label, ids) /\ Alone
    /\ IF op = "add_category" THEN locked = Nobody /\ categories' = categories \cup {label}
       ELSE UNCHANGED categories
    /\ OnlyNotes /\ UNCHANGED <<links, places, history>>

\* A photo that is gone is skipped; a category is linked with the others, at the end.
AnnotateLook(s) ==
    LET i == Item(s)
        fresh == IF Linked(i, session[s].label) THEN {} ELSE {i}
    IN  /\ session[s].op \in Annotation /\ session[s].at = "look" /\ session[s].todo # <<>>
        /\ Goes(s, IF i \notin Live THEN [session[s] EXCEPT !.todo = Tail(@)]
                   ELSE IF session[s].op = "add_category"
                   THEN [session[s] EXCEPT !.todo = Tail(@), !.new = @ \cup fresh,
                                           !.done = Append(@, i), !.of[i] = photo[i]]
                   ELSE [session[s] EXCEPT !.at = "write", !.new = fresh, !.of[i] = photo[i],
                                           !.was[i] = places[i]])
        /\ OnlyNotes /\ UNCHANGED <<links, categories, places, history, apart, opsLeft>>

Tagged(s, ids) == UNION {Rows(s, i, {session[s].label}) : i \in ids}
Taken(s) == \E i \in session[s].new : Linked(i, session[s].label)

\* add_photo_tag_with_score, update_photo_geoposition: a commit for each photo.
AnnotateWrite(s) ==
    LET i == Item(s)
        next == [session[s] EXCEPT !.at = "look", !.todo = Tail(@), !.done = Append(@, i)]
    IN  /\ session[s].op \in Annotation /\ session[s].at = "write" /\ Free(s)
        /\ IF session[s].op = "add_geoposition"
           THEN /\ places' = IF i \in Live THEN [places EXCEPT ![i] = session[s].label] ELSE places
                /\ Goes(s, next) /\ UNCHANGED <<links, apart>>
           ELSE IF Taken(s)
           THEN End(s) /\ apart' = FALSE /\ UNCHANGED <<links, places>>
           ELSE /\ links' = links \cup Tagged(s, session[s].new)
                /\ Goes(s, next) /\ UNCHANGED <<places, apart>>
        /\ OnlyNotes /\ UNCHANGED <<categories, history, opsLeft>>

Action(s) == [op |-> session[s].op, key |-> session[s].key, label |-> session[s].label,
              ids |-> session[s].done, was |-> session[s].was]

\* Mutant: the places are noted when the action is recorded.
RecordLate(s) ==
    history' = Append(history, [Action(s) EXCEPT !.was = places])

RecordAction(s) == history' = Append(history, Action(s))

AnnotateEnd(s) ==
    /\ session[s].op \in Annotation /\ session[s].at = "look" /\ session[s].todo = <<>>
    /\ Free(s)
    /\ IF session[s].done = <<>> \/ (session[s].op = "add_category" /\ Taken(s))
       THEN UNCHANGED <<links, history>>
       ELSE /\ links' = IF session[s].op = "add_category"
                        THEN links \cup Tagged(s, session[s].new) ELSE links
            /\ RecordAction(s)
    /\ End(s)
    /\ OnlyNotes /\ UNCHANGED <<categories, places, apart, opsLeft>>

\* perform_undo reads the last row, undoes it in one commit, then deletes the row, if
\* it is still there.
UndoBegin(s) ==
    /\ history # <<>> /\ locked = Nobody
    /\ LET last == Last(history)
       IN  /\ Begin(s, "undo", "forget", last.ids, last.label, <<last.key>>)
           /\ links' = {l \in links : l.id \notin ToSet(last.ids) \/ l.label # last.label}
           /\ places' = IF last.op # "add_geoposition" THEN places
                        ELSE [i \in Id |-> IF i \in ToSet(last.ids) \cap Live THEN last.was[i]
                                           ELSE places[i]]
    /\ Alone
    /\ OnlyNotes /\ UNCHANGED <<categories, history>>

UndoForget(s) ==
    /\ Doing(s, "undo", "forget") /\ Free(s)
    /\ LET there == {h \in DOMAIN history : history[h].key = Item(s)}
       IN  history' \in IF there = {} THEN {history} ELSE {RemoveAt(history, h) : h \in there}
    /\ End(s)
    /\ OnlyNotes /\ UNCHANGED <<links, categories, places, apart, opsLeft>>

--------------------------------------------------------------------------------
(* Edits of one photo, and the geocoding of its EXIF data *)
LinkBegin(s, i, label) ==
    /\ i \in Live /\ Begin(s, "link", "write", <<i>>, label, <<>>)
    /\ OnlyLinks /\ UNCHANGED <<links, categories, locked>>

LinkCommit(s) ==
    /\ Doing(s, "link", "write") /\ Free(s)
    /\ links' = IF Linked(Target(s), session[s].label) THEN links
                ELSE links \cup Rows(s, Target(s), {session[s].label})
    /\ categories' = categories \cup ({session[s].label} \cap Category)
    /\ End(s)
    /\ OnlyLinks /\ UNCHANGED <<locked, opsLeft>>

Unlink(i, label) ==
    /\ locked = Nobody /\ Linked(i, label) /\ Counted
    /\ links' = {l \in links : l.id # i \/ l.label # label}
    /\ OnlyLinks /\ UNCHANGED <<categories, session, locked>>

Moves(i) == \/ \E h \in DOMAIN history : history[h].op = "add_geoposition"
                                         /\ i \in ToSet(history[h].ids)
            \/ \E t \in Session : session[t].label \in Place /\ i \in ToSet(session[t].ids)

\* update_photo_geoposition, by the metadata task or geocode_photo_from_exif.
Geocode(i, place) ==
    /\ locked = Nobody /\ i \in Live /\ place # places[i] /\ Counted
    /\ places' = [places EXCEPT ![i] = place] /\ geocoded' = [geocoded EXCEPT ![i] = place]
    /\ apart' = (apart /\ ~Moves(i))
    /\ UNCHANGED <<photo, disk, links, categories, hashes, records, history, session, locked,
                   dismissed, searched, calm>>

--------------------------------------------------------------------------------
(* The backend ends: what is not committed is gone *)
Kill ==
    /\ Counted
    /\ session' = [s \in Session |-> Idle] /\ locked' = Nobody
    /\ apart' = (apart /\ \A s \in Session : ~Agent(s))
    /\ UNCHANGED <<photo, disk, links, categories, places, hashes, records, history, geocoded,
                   dismissed, searched, calm>>

Listings(set) == {SetToSeq(some) : some \in SUBSET set \ {{}}}

Next ==
    \/ \E p \in Picture : AddPhoto(p)
    \/ \E s \in Session :
          \/ \E i \in Id :
                \/ DeleteBegins(s, i) \/ HashBegin(s, "hash", i) \/ HashBegin(s, "compare", i)
                \/ \E found \in Listings(Tag) : TagsBegin(s, i, found)
                \/ \E found \in Listings(Category) : CategoriesBegin(s, i, found)
                \/ \E others \in Listings(Id) : MarkBegin(s, i, others)
                \/ \E label \in Label : LinkBegin(s, i, label)
          \/ DeleteCommits(s) \/ DeleteFile(s)
          \/ TagsLock(s) \/ TagsCommit(s)
          \/ CategoriesLook(s) \/ CategoryCreated(s) \/ CategoriesCommit(s)
          \/ HashLook(s) \/ HashSave(s) \/ HashFails(s) \/ HashSearch(s)
          \/ RecordPair(s) \/ Recorded(s)
          \/ \E ids \in Listings(Id) :
                \/ \E tag \in Tag : AnnotateBegin(s, "add_tag", ids, tag)
                \/ \E category \in Category : AnnotateBegin(s, "add_category", ids, category)
                \/ \E place \in Place : AnnotateBegin(s, "add_geoposition", ids, place)
          \/ AnnotateLook(s) \/ AnnotateWrite(s) \/ AnnotateEnd(s)
          \/ UndoBegin(s) \/ UndoForget(s) \/ LinkCommit(s)
    \/ \E p \in Pair : DismissDuplicate(p)
    \/ \E i \in Id : \/ \E label \in Label : Unlink(i, label)
                     \/ \E place \in Place : Geocode(i, place)
    \/ Kill

Spec == Init /\ [][Next]_vars

--------------------------------------------------------------------------------
(* Properties *)
\* Unless a photo was deleted that an operation or the history named, what is stored
\* under an id (links, hash, duplicate records, file) is of the photo that has the id.
RowsDescribeTheirPhotos ==
    calm => /\ \A l \in links : photo[l.id] = l.of
            /\ \A i \in Id : hashes[i] \in {NoPicture, photo[i]}
            /\ \A p \in records : p[1] \in Live /\ p[2] \in Live
            /\ \A i \in Live : photo[i] \in disk

\* "Without this, two retries can both observe a missing link and race": a task that
\* is about to store tags stores links that are missing, to a photo that exists.
TagSavesSucceed ==
    \A s \in Session : Doing(s, "tags", "write") => Target(s) \in Live /\ ~Collides(s)

\* Two photos whose near duplicates were searched to the end are listed in at least one
\* direction, however the two tasks met and whatever collided, unless a user dismissed them
\* (a search is skipped only when the hashes of its own photo could not be saved, or it failed).
PairsAreFound ==
    calm => \A p \in Pair :
        {p[1], p[2]} \subseteq searched /\ {p[1], p[2]} \notin dismissed =>
            Shown(p) \/ Shown(<<p[2], p[1]>>)

Setters(i) == {h \in DOMAIN history : history[h].op = "add_geoposition"
                                      /\ i \in ToSet(history[h].ids)}
LastSet(i) == history[CHOOSE h \in Setters(i) : \A k \in Setters(i) : k <= h].label

\* Between the agent's actions a photo is where the last action in the history that
\* names it put it, and, when all of them are undone, where it was without them.
PlacesFollowHistory ==
    calm /\ apart /\ (\A s \in Session : ~Agent(s)) =>
        \A i \in Live : places[i] = IF Setters(i) = {} THEN geocoded[i] ELSE LastSet(i)

================================================================================
