----------------------------- MODULE LibraryProofs -----------------------------
(***************************************************************************)
(* Proofs about Library, for any number of sessions, photos and labels.     *)
(* LockInv: a task that saves tags finds its photo and no link of its own,  *)
(* because it looks under the writer lock and every commit respects it.     *)
(* RowsInv: what is stored under an id is of its photo, as long as nothing  *)
(* was deleted that a session or the history named; and of two hash tasks   *)
(* the one that searches later sees what the other saved.                   *)
(* HistoryInv: the geocoded place of a photo is what is stored, or what the *)
(* oldest row of the history about it, or the action under way, remembers.  *)
(***************************************************************************)
EXTENDS Library, FiniteSetTheorems, SequenceTheorems, WellFoundedInduction, TLAPS

\* Every session is a record of the same fields.
Fields == {"op", "at", "key", "ids", "of", "label", "todo", "new", "done", "was"}
Shaped == DOMAIN session = Session /\ \A s \in Session : DOMAIN session[s] = Fields

SavingTags(s) == Doing(s, "tags", "write")

\* Who is to save tags holds the lock, and what it looked at is still so.
LockedLook == \A s \in Session : SavingTags(s) =>
                 locked = s /\ Target(s) \in Live /\ ~Collides(s)

LockInv == Shaped /\ LockedLook

--------------------------------------------------------------------------------
(* The steps of a session *)

\* An idle session is a record, and saves nothing.
LEMMA IdleShape == DOMAIN Idle = Fields /\ Idle.op = "none" /\ Idle.at = "none"
  BY DEF Idle, Fields

\* A session that writes is held up by the lock of another, and one that does not
\* write leaves alone what the other looked at.
LEMMA OtherSession ==
    ASSUME LockInv, NEW s \in Session, NEW next, Goes(s, next),
           DOMAIN next = Fields, ~(next.op = "tags" /\ next.at = "write"),
           UNCHANGED locked,
           Free(s) \/ UNCHANGED <<links, photo>>
    PROVE  LockInv'
  <1>1. /\ DOMAIN session' = Session /\ session'[s] = next
        /\ \A t \in Session : t # s => session'[t] = session[t]
    BY DEF LockInv, Shaped, Goes
  <1>2. Shaped'
    BY <1>1 DEF LockInv, Shaped
  <1>3. ASSUME NEW t \in Session, SavingTags(t)'
        PROVE  (locked = t /\ Target(t) \in Live /\ ~Collides(t))'
    <2>1. t # s /\ session'[t] = session[t]
      BY <1>1, <1>3 DEF SavingTags, Doing
    <2>2. locked = t /\ Target(t) \in Live /\ ~Collides(t)
      BY <1>3, <2>1 DEF LockInv, LockedLook, SavingTags, Doing
    <2>3. UNCHANGED <<links, photo>>
      BY <2>1, <2>2, LibraryAssumption DEF Free
    <2> QED
      BY <2>1, <2>2, <2>3 DEF Target, Live, Collides, Linked
  <1> QED
    BY <1>2, <1>3 DEF LockInv, LockedLook

\* What is done without a session waits for the lock, or writes neither photos nor links.
LEMMA NoSession ==
    ASSUME LockInv, UNCHANGED <<session, locked>>,
           locked = Nobody \/ UNCHANGED <<links, photo>>
    PROVE  LockInv'
  <1>1. ASSUME NEW t \in Session, SavingTags(t)'
        PROVE  (locked = t /\ Target(t) \in Live /\ ~Collides(t))'
    <2>1. locked = t /\ Target(t) \in Live /\ ~Collides(t)
      BY <1>1 DEF LockInv, LockedLook, SavingTags, Doing
    <2>2. UNCHANGED <<links, photo>>
      BY <2>1, LibraryAssumption
    <2> QED
      BY <2>1, <2>2 DEF Target, Live, Collides, Linked
  <1> QED
    BY <1>1 DEF LockInv, LockedLook, Shaped

\* An operation begins with a record of its own.
LEMMA BeginShape ==
    ASSUME NEW s, NEW op, NEW at, NEW ids, NEW label, NEW todo,
           Begin(s, op, at, ids, label, todo)
    PROVE  \E next : Goes(s, next) /\ DOMAIN next = Fields /\ next.op = op /\ next.at = at
  <1> DEFINE next == [Idle EXCEPT !.op = op, !.at = at, !.key = opsLeft, !.ids = ids, !.of = photo,
                                  !.label = label, !.todo = todo]
  <1>1. Goes(s, next)
    BY DEF Begin
  <1>2. DOMAIN next = Fields /\ next.op = op /\ next.at = at
    BY DEF Idle, Fields
  <1> QED
    BY <1>1, <1>2

\* A session that ends saves no tags.
LEMMA EndInv ==
    ASSUME LockInv, NEW s \in Session, End(s), UNCHANGED locked,
           Free(s) \/ UNCHANGED <<links, photo>>
    PROVE  LockInv'
  BY IdleShape, OtherSession DEF End

\* The steps of a deletion.
LEMMA DeleteInv ==
    ASSUME LockInv, NEW s \in Session,
           (\E i \in Id : DeleteBegins(s, i)) \/ DeleteCommits(s) \/ DeleteFile(s)
    PROVE  LockInv'
  <1>1. ASSUME NEW i \in Id, DeleteBegins(s, i)
        PROVE  LockInv'
    <2>1. UNCHANGED <<links, photo, locked>>
      BY <1>1 DEF DeleteBegins
    <2>2. PICK next : Goes(s, next) /\ DOMAIN next = Fields /\ next.op = "delete" /\ next.at = "write"
      BY <1>1, BeginShape DEF DeleteBegins
    <2> QED
      BY <2>1, <2>2, OtherSession
  <1>2. CASE DeleteCommits(s)
    <2>1. Free(s) /\ UNCHANGED locked /\ session[s].op = "delete"
      BY <1>2 DEF DeleteCommits, Doing
    <2>2. CASE Goes(s, [session[s] EXCEPT !.at = "file"])
      <3>1. PICK next \in {[session[s] EXCEPT !.at = "file"]} :
               DOMAIN next = Fields /\ next.op = "delete"
        BY <2>1 DEF LockInv, Shaped, Fields
      <3> QED
        BY <2>1, <2>2, <3>1, OtherSession
    <2>3. CASE End(s)
      BY <2>1, <2>3, EndInv
    <2> QED
      BY <1>2, <2>2, <2>3 DEF DeleteCommits
  <1>3. CASE DeleteFile(s)
    BY <1>3, EndInv DEF DeleteFile
  <1> QED
    BY <1>1, <1>2, <1>3

\* The tags task: it looks once it has the lock.
LEMMA TagsInv ==
    ASSUME LockInv, NEW s \in Session,
           (\E i \in Id : \E found \in Listings(Tag) : TagsBegin(s, i, found))
           \/ TagsLock(s) \/ TagsCommit(s)
    PROVE  LockInv'
  <1>1. ASSUME NEW i \in Id, NEW found, TagsBegin(s, i, found)
        PROVE  LockInv'
    <2>1. UNCHANGED <<links, photo, locked>>
      BY <1>1 DEF TagsBegin, OnlyLinks
    <2>2. PICK next : Goes(s, next) /\ DOMAIN next = Fields /\ next.op = "tags" /\ next.at = "lock"
      BY <1>1, BeginShape DEF TagsBegin
    <2> QED
      BY <2>1, <2>2, OtherSession
  <1>2. CASE TagsLock(s) /\ Target(s) \in Live
    <2> DEFINE fresh == {b \in ToSet(session[s].todo) : ~Linked(Target(s), b)}
               next == [session[s] EXCEPT !.at = "write", !.new = fresh]
    <2>1. /\ locked = Nobody /\ locked' = s /\ Goes(s, next)
          /\ UNCHANGED <<links, photo>> /\ session[s].op = "tags"
      BY <1>2 DEF TagsLock, OnlyLinks, Doing
    <2>2. DOMAIN next = Fields /\ next.ids = session[s].ids /\ next.new = fresh
      BY DEF LockInv, Shaped, Fields
    <2>3. \A b \in fresh : ~Linked(Target(s), b)
      OBVIOUS
    <2> HIDE DEF fresh, next
    <2>4. /\ DOMAIN session' = Session /\ session'[s] = next
          /\ \A t \in Session : t # s => session'[t] = session[t]
      BY <2>1 DEF LockInv, Shaped, Goes
    <2>5. Shaped'
      BY <2>2, <2>4 DEF LockInv, Shaped
    <2>6. ASSUME NEW t \in Session, SavingTags(t)'
          PROVE  (locked = t /\ Target(t) \in Live /\ ~Collides(t))'
      <3>1. CASE t = s
        BY <1>2, <2>1, <2>2, <2>3, <2>4, <3>1 DEF Target, Live, Collides, Linked
      <3>2. CASE t # s
        <4>1. SavingTags(t)
          BY <2>4, <2>6, <3>2 DEF SavingTags, Doing
        <4> QED
          BY <2>1, <4>1, LibraryAssumption DEF LockInv, LockedLook
      <3> QED
        BY <3>1, <3>2
    <2> QED
      BY <2>5, <2>6 DEF LockInv, LockedLook
  <1>3. CASE TagsLock(s) /\ Target(s) \notin Live
    BY <1>3, EndInv DEF TagsLock, OnlyLinks
  <1>4. CASE TagsCommit(s)
    <2>1. locked' = Nobody /\ Free(s) /\ Goes(s, Idle)
      BY <1>4 DEF TagsCommit, End
    <2>2. /\ DOMAIN session' = Session /\ session'[s] = Idle
          /\ \A t \in Session : t # s => session'[t] = session[t]
      BY <2>1 DEF LockInv, Shaped, Goes
    <2>3. Shaped'
      BY <2>2, IdleShape DEF LockInv, Shaped
    <2>4. ASSUME NEW t \in Session, SavingTags(t)'
          PROVE  FALSE
      <3>1. t # s /\ SavingTags(t)
        BY <2>2, <2>4, IdleShape DEF SavingTags, Doing
      <3> QED
        BY <2>1, <3>1, LibraryAssumption DEF LockInv, LockedLook, Free
    <2> QED
      BY <2>3, <2>4 DEF LockInv, LockedLook
  <1> QED
    BY <1>1, <1>2, <1>3, <1>4

\* The categories task.
LEMMA CategoriesInv ==
    ASSUME LockInv, NEW s \in Session,
           (\E i \in Id : \E found \in Listings(Category) : CategoriesBegin(s, i, found))
           \/ CategoriesLook(s) \/ CategoryCreated(s) \/ CategoriesCommit(s)
    PROVE  LockInv'
  <1>p. ASSUME session[s].op = "categories"
        PROVE  /\ DOMAIN Pended(s) = Fields /\ Pended(s).op = "categories"
               /\ \A new : LET x == [Pended(s) EXCEPT !.new = new]
                           IN  DOMAIN x = Fields /\ x.op = "categories"
    BY <1>p DEF Pended, LockInv, Shaped, Fields
  <1>1. ASSUME NEW i \in Id, NEW found, CategoriesBegin(s, i, found)
        PROVE  LockInv'
    <2>1. UNCHANGED <<links, photo, locked>>
      BY <1>1 DEF CategoriesBegin, OnlyLinks
    <2>2. PICK next : Goes(s, next) /\ DOMAIN next = Fields /\ next.op = "categories" /\ next.at = "look"
      BY <1>1, BeginShape DEF CategoriesBegin
    <2> QED
      BY <2>1, <2>2, OtherSession
  <1>2. CASE CategoriesLook(s)
    <2>1. UNCHANGED <<links, photo, locked>> /\ session[s].op = "categories"
      BY <1>2 DEF CategoriesLook, OnlyLinks, Doing
    <2>2. PICK next : Goes(s, next) /\ DOMAIN next = Fields /\ next.op = "categories"
      <3>1. /\ DOMAIN [session[s] EXCEPT !.at = "create"] = Fields
            /\ [session[s] EXCEPT !.at = "create"].op = "categories"
        BY <2>1 DEF LockInv, Shaped, Fields
      <3>2. CASE Item(s) \in categories
        BY <1>2, <1>p, <2>1, <3>2 DEF CategoriesLook
      <3>3. CASE Item(s) \notin categories
        BY <1>2, <3>1, <3>3 DEF CategoriesLook
      <3> QED
        BY <3>2, <3>3
    <2> QED
      BY <2>1, <2>2, OtherSession
  <1>3. CASE CategoryCreated(s)
    <2>1. Free(s) /\ UNCHANGED locked /\ session[s].op = "categories"
      BY <1>3 DEF CategoryCreated, Doing
    <2>2. CASE End(s)
      BY <2>1, <2>2, EndInv
    <2>3. CASE ~End(s)
      <3>1. PICK next : Goes(s, next) /\ DOMAIN next = Fields /\ next.op = "categories"
        <4> DEFINE next == [session[s] EXCEPT !.at = "look", !.todo = Tail(@), !.new = {Item(s)}]
        <4>1. DOMAIN next = Fields /\ next.op = "categories"
          BY <2>1 DEF LockInv, Shaped, Fields
        <4>2. \/ Goes(s, next)
              \/ Goes(s, [Pended(s) EXCEPT !.new = @ \ session[s].new])
          BY <1>3, <2>3 DEF CategoryCreated
        <4> HIDE DEF next
        <4>3. CASE Goes(s, next)
          BY <4>1, <4>3
        <4>4. CASE Goes(s, [Pended(s) EXCEPT !.new = @ \ session[s].new])
          BY <1>p, <2>1, <4>4
        <4> QED
          BY <4>2, <4>3, <4>4
      <3> QED
        BY <2>1, <3>1, OtherSession
    <2> QED
      BY <2>2, <2>3
  <1>4. CASE CategoriesCommit(s)
    BY <1>4, EndInv DEF CategoriesCommit
  <1> QED
    BY <1>1, <1>2, <1>3, <1>4

\* A hash task or a comparison at any of its steps but the records.
Hashes(s) == HashLook(s) \/ HashSave(s) \/ HashFails(s) \/ HashSearch(s)

\* Hashes, near duplicates and the marks of the agent write neither links nor photos.
LEMMA PairsInv ==
    ASSUME LockInv, NEW s \in Session,
           (\E i \in Id : HashBegin(s, "hash", i) \/ HashBegin(s, "compare", i)
                          \/ \E others \in Listings(Id) : MarkBegin(s, i, others))
           \/ Hashes(s) \/ RecordPair(s) \/ Recorded(s)
    PROVE  LockInv'
  <1>1. UNCHANGED <<links, photo, locked>>
    BY DEF HashBegin, MarkBegin,
       Hashes, HashLook, HashSave, HashFails, HashSearch, HashStored, Hashing,
       RecordPair, Recorded, OnlyPairs
  <1>2. ASSUME NEW i \in Id, NEW others, NEW op \in {"hash", "compare"},
               HashBegin(s, op, i) \/ MarkBegin(s, i, others)
        PROVE  LockInv'
    <2>1. PICK next : Goes(s, next) /\ DOMAIN next = Fields /\ next.op # "tags"
      BY <1>2, BeginShape DEF HashBegin, MarkBegin
    <2> QED
      BY <1>1, <2>1, OtherSession
  <1>3. CASE Hashes(s)
    <2>1. session[s].op # "tags"
      BY <1>3 DEF Hashes, HashLook, HashSave, HashFails, HashSearch, HashStored, Hashing, Doing
    <2>2. CASE End(s)
      BY <1>1, <2>2, EndInv
    <2>3. CASE ~End(s)
      <3>1. PICK next : Goes(s, next) /\ DOMAIN next = Fields /\ next.op # "tags"
        <4>1. PICK at, todo : \/ Goes(s, [session[s] EXCEPT !.at = at])
                              \/ Goes(s, [session[s] EXCEPT !.at = at, !.todo = todo])
          BY <1>3, <2>3 DEF Hashes, HashLook, HashSave, HashFails, HashSearch, HashStored, Hashing
        <4>2. /\ DOMAIN [session[s] EXCEPT !.at = at] = Fields
              /\ [session[s] EXCEPT !.at = at].op = session[s].op
          BY DEF LockInv, Shaped, Fields
        <4>3. /\ DOMAIN [session[s] EXCEPT !.at = at, !.todo = todo] = Fields
              /\ [session[s] EXCEPT !.at = at, !.todo = todo].op = session[s].op
          BY DEF LockInv, Shaped, Fields
        <4> QED
          BY <2>1, <4>1, <4>2, <4>3
      <3> QED
        BY <1>1, <3>1, OtherSession
    <2> QED
      BY <2>2, <2>3
  <1>4. CASE RecordPair(s)
    <2>1. session[s].at = "record" /\ Goes(s, [session[s] EXCEPT !.todo = Tail(@)])
      BY <1>4 DEF RecordPair
    <2>2. PICK next \in {[session[s] EXCEPT !.todo = Tail(@)]} :
             DOMAIN next = Fields /\ next.at = "record"
      BY <2>1 DEF LockInv, Shaped, Fields
    <2> QED
      BY <1>1, <2>1, <2>2, OtherSession
  <1>5. CASE Recorded(s)
    BY <1>1, <1>5, EndInv DEF Recorded
  <1> QED
    BY <1>2, <1>3, <1>4, <1>5

\* The agent's annotations and their undo, and the edits of one photo.
LEMMA NotesInv ==
    ASSUME LockInv, NEW s \in Session,
           \/ \E op \in Annotation, ids \in Listings(Id) : \E label : AnnotateBegin(s, op, ids, label)
           \/ AnnotateLook(s) \/ AnnotateWrite(s) \/ AnnotateEnd(s)
           \/ UndoBegin(s) \/ UndoForget(s) \/ LinkCommit(s)
           \/ \E i \in Id, label \in Label : LinkBegin(s, i, label)
    PROVE  LockInv'
  <1>1. UNCHANGED <<photo, locked>>
    BY DEF AnnotateBegin, AnnotateLook, AnnotateWrite, AnnotateEnd, UndoBegin, UndoForget, LinkCommit,
       LinkBegin, OnlyNotes, OnlyLinks
  <1>2. ASSUME NEW op \in Annotation, NEW ids, NEW label, AnnotateBegin(s, op, ids, label)
        PROVE  LockInv'
    <2>1. PICK next : Goes(s, next) /\ DOMAIN next = Fields /\ next.op = op
      BY <1>2, BeginShape DEF AnnotateBegin
    <2> QED
      BY <1>1, <1>2, <2>1, OtherSession DEF AnnotateBegin, Annotation
  <1>3. CASE AnnotateLook(s)
    <2>1. session[s].op \in Annotation /\ UNCHANGED links
      BY <1>3 DEF AnnotateLook
    <2>2. PICK next : Goes(s, next) /\ DOMAIN next = Fields /\ next.op \in Annotation
      <3> DEFINE i == Item(s)
                 fresh == IF Linked(i, session[s].label) THEN {} ELSE {i}
                 gone == [session[s] EXCEPT !.todo = Tail(@)]
                 noted == [session[s] EXCEPT !.todo = Tail(@), !.new = @ \cup fresh,
                                             !.done = Append(@, i), !.of[i] = photo[i]]
                 found == [session[s] EXCEPT !.at = "write", !.new = fresh, !.of[i] = photo[i],
                                             !.was[i] = places[i]]
      <3>1. DOMAIN gone = Fields /\ gone.op = session[s].op
        BY DEF LockInv, Shaped, Fields
      <3>2. DOMAIN noted = Fields /\ noted.op = session[s].op
        BY DEF LockInv, Shaped, Fields
      <3>3. DOMAIN found = Fields /\ found.op = session[s].op
        BY DEF LockInv, Shaped, Fields
      <3>4. Goes(s, gone) \/ Goes(s, noted) \/ Goes(s, found)
        BY <1>3 DEF AnnotateLook
      <3> HIDE DEF gone, noted, found
      <3> QED
        BY <2>1, <3>1, <3>2, <3>3, <3>4
    <2> QED
      BY <1>1, <2>1, <2>2, OtherSession DEF Annotation
  <1>4. CASE AnnotateWrite(s)
    <2>1. session[s].op \in Annotation /\ Free(s)
      BY <1>4 DEF AnnotateWrite
    <2>2. CASE End(s)
      BY <1>1, <2>1, <2>2, EndInv
    <2>3. CASE ~End(s)
      <3>1. PICK next : Goes(s, next) /\ DOMAIN next = Fields /\ next.op \in Annotation
        <4> DEFINE next == [session[s] EXCEPT !.at = "look", !.todo = Tail(@),
                                              !.done = Append(@, Item(s))]
        <4>1. DOMAIN next = Fields /\ next.op = session[s].op
          BY DEF LockInv, Shaped, Fields
        <4>2. Goes(s, next)
          BY <1>4, <2>3 DEF AnnotateWrite
        <4> QED
          BY <2>1, <4>1, <4>2
      <3> QED
        BY <1>1, <2>1, <3>1, OtherSession DEF Annotation
    <2> QED
      BY <2>2, <2>3
  <1>5. CASE AnnotateEnd(s) \/ UndoForget(s) \/ LinkCommit(s)
    BY <1>1, <1>5, EndInv DEF AnnotateEnd, UndoForget, LinkCommit
  <1>6. CASE UndoBegin(s)
    <2>1. PICK next : Goes(s, next) /\ DOMAIN next = Fields /\ next.op = "undo"
      BY <1>6, BeginShape DEF UndoBegin
    <2> QED
      BY <1>1, <1>6, <2>1, OtherSession DEF UndoBegin, Free
  <1>7. ASSUME NEW i \in Id, NEW label \in Label, LinkBegin(s, i, label)
        PROVE  LockInv'
    <2>1. PICK next : Goes(s, next) /\ DOMAIN next = Fields /\ next.op = "link"
      BY <1>7, BeginShape DEF LinkBegin
    <2> QED
      BY <1>1, <1>7, <2>1, OtherSession DEF LinkBegin
  <1> QED
    BY <1>2, <1>3, <1>4, <1>5, <1>6, <1>7

--------------------------------------------------------------------------------
(* The theorems *)

\* Every action keeps the invariant.
LEMMA StepInv == LockInv /\ [Next]_vars => LockInv'
  <1> SUFFICES ASSUME LockInv, [Next]_vars
               PROVE  LockInv'
    OBVIOUS
  <1>1. ASSUME NEW s \in Session, NEW i \in Id,
               \/ DeleteBegins(s, i) \/ HashBegin(s, "hash", i) \/ HashBegin(s, "compare", i)
               \/ \E found \in Listings(Tag) : TagsBegin(s, i, found)
               \/ \E found \in Listings(Category) : CategoriesBegin(s, i, found)
               \/ \E others \in Listings(Id) : MarkBegin(s, i, others)
               \/ \E label \in Label : LinkBegin(s, i, label)
        PROVE  LockInv'
    BY <1>1, DeleteInv, PairsInv, TagsInv, CategoriesInv, NotesInv
  <1>2. ASSUME NEW s \in Session,
               \/ DeleteCommits(s) \/ DeleteFile(s) \/ TagsLock(s) \/ TagsCommit(s)
               \/ CategoriesLook(s) \/ CategoryCreated(s) \/ CategoriesCommit(s)
               \/ Hashes(s) \/ RecordPair(s) \/ Recorded(s)
               \/ AnnotateLook(s) \/ AnnotateWrite(s) \/ AnnotateEnd(s)
               \/ UndoBegin(s) \/ UndoForget(s) \/ LinkCommit(s)
        PROVE  LockInv'
    BY <1>2, DeleteInv, PairsInv, TagsInv, CategoriesInv, NotesInv
  <1>3. ASSUME NEW s \in Session, NEW ids \in Listings(Id),
               \/ \E tag \in Tag : AnnotateBegin(s, "add_tag", ids, tag)
               \/ \E category \in Category : AnnotateBegin(s, "add_category", ids, category)
               \/ \E place \in Place : AnnotateBegin(s, "add_geoposition", ids, place)
        PROVE  LockInv'
    <2>1. \E op \in Annotation : \E label : AnnotateBegin(s, op, ids, label)
      BY <1>3 DEF Annotation
    <2> QED
      BY <2>1, NotesInv
  <1>4. ASSUME \/ \E p \in Picture : AddPhoto(p)
               \/ \E p \in Pair : DismissDuplicate(p)
               \/ \E i \in Id : \/ \E label \in Label : Unlink(i, label)
                                \/ \E place \in Place : Geocode(i, place)
               \/ UNCHANGED vars
        PROVE  LockInv'
    BY <1>4, NoSession DEF AddPhoto, DismissDuplicate, Unlink, Geocode, OnlyLinks, vars
  <1>5. CASE Kill
    BY <1>5, IdleShape DEF Kill, LockInv, Shaped, LockedLook, SavingTags, Doing
  <1> QED
    BY <1>1, <1>2, <1>3, <1>4, <1>5 DEF Next, Hashes

\* The lock of a tags task and what it looked at hold in every reachable state.
THEOREM LockInvariance == Spec => []LockInv
  <1>1. Init => LockInv
    BY IdleShape DEF Init, LockInv, Shaped, LockedLook, SavingTags, Doing
  <1> QED
    BY <1>1, StepInv, PTL DEF Spec

\* _save_tags_sync: however many tasks, tools, edits and deletions meet, the links it is
\* about to store are missing and their photo is there.
THEOREM SavesSucceed == Spec => []TagSavesSucceed
  <1>1. LockInv => TagSavesSucceed
    BY DEF LockInv, LockedLook, SavingTags, TagSavesSucceed
  <1> QED
    BY <1>1, LockInvariance, PTL

--------------------------------------------------------------------------------
(* Sequences *)

\* A sequence that is not empty is its head and its tail.
LEMMA HeadTail ==
    ASSUME NEW S, NEW q \in Seq(S), q # <<>>
    PROVE  /\ Head(q) \in S /\ Head(q) \in ToSet(q) /\ Tail(q) \in Seq(S)
           /\ ToSet(Tail(q)) \subseteq ToSet(q) /\ ToSet(q) \subseteq {Head(q)} \cup ToSet(Tail(q))
           /\ ToSet(q) \subseteq S
  <1>1. Len(q) \in Nat \ {0} /\ \A k \in 1 .. Len(q) : q[k] \in S
    OBVIOUS
  <1>2. Head(q) = q[1] /\ Len(Tail(q)) = Len(q) - 1 /\ Tail(q) \in Seq(S)
        /\ \A k \in 1 .. (Len(q) - 1) : Tail(q)[k] = q[k + 1]
    BY HeadTailProperties
  <1>3. DOMAIN q = 1 .. Len(q) /\ DOMAIN Tail(q) = 1 .. (Len(q) - 1)
    BY <1>2
  <1>4. ASSUME NEW k \in 1 .. Len(q)
        PROVE  q[k] \in {Head(q)} \cup ToSet(Tail(q))
    <2>1. CASE k = 1
      BY <1>2, <2>1
    <2>2. CASE k # 1
      <3>1. k - 1 \in 1 .. (Len(q) - 1) /\ (k - 1) + 1 = k
        BY <1>1, <2>2
      <3> QED
        BY <1>2, <1>3, <3>1 DEF ToSet
    <2> QED
      BY <2>1, <2>2
  <1>5. ASSUME NEW k \in 1 .. (Len(q) - 1)
        PROVE  Tail(q)[k] \in ToSet(q)
    <2>1. k + 1 \in 1 .. Len(q)
      BY <1>1
    <2> QED
      BY <1>2, <1>3, <2>1 DEF ToSet
  <1>6. Head(q) \in S /\ Head(q) \in ToSet(q)
    BY <1>1, <1>2, <1>3 DEF ToSet
  <1> QED
    BY <1>1, <1>2, <1>3, <1>4, <1>5, <1>6 DEF ToSet

\* A sequence of one, and one that starts with it.
LEMMA OneFirst ==
    ASSUME NEW S, NEW i \in S, NEW q \in Seq(S)
    PROVE  /\ <<i>> \in Seq(S) /\ <<i>> # <<>> /\ Head(<<i>>) = i
           /\ <<i>> \o q \in Seq(S) /\ <<i>> \o q # <<>> /\ Head(<<i>> \o q) = i
  <1>1. <<i>> \in Seq(S) /\ Len(<<i>>) = 1 /\ <<i>>[1] = i
    OBVIOUS
  <1>2. /\ <<i>> \o q \in Seq(S) /\ Len(<<i>> \o q) = 1 + Len(q)
        /\ (<<i>> \o q)[1] = i
    BY <1>1, ConcatProperties
  <1> QED
    BY <1>1, <1>2

\* A finite set is listed by a sequence of its elements, each of them once.
LEMMA Listing ==
    ASSUME NEW S, IsFiniteSet(S)
    PROVE  SetToSeq(S) \in Seq(S) /\ ToSet(SetToSeq(S)) = S /\ IsInjective(SetToSeq(S))
  <1> DEFINE n == Cardinality(S)
             f == SetToSeq(S)
  <1>1. n \in Nat /\ ExistsBijection(1 .. n, S)
    BY FS_CardinalityType
  <1>2. PICK g : g \in [1 .. n -> S] /\ \A a, b \in 1 .. n : g[a] = g[b] => a = b
    BY <1>1 DEF ExistsBijection, Bijection, Injection, IsInjective
  <1>3. g \in [1 .. n -> S] /\ IsInjective(g)
    BY <1>2 DEF IsInjective
  <1>4. f \in [1 .. n -> S] /\ IsInjective(f)
    BY <1>3 DEF SetToSeq
  <1>5. f \in Surjection(1 .. n, S)
    <2>1. f \in Injection(1 .. n, S)
      BY <1>4 DEF Injection, IsInjective
    <2>2. IsFiniteSet(1 .. n) /\ Cardinality(1 .. n) = n
      BY <1>1, FS_Interval
    <2> QED
      BY <2>1, <2>2, FS_Injection
  <1>6. f \in Seq(S) /\ DOMAIN f = 1 .. n
    BY <1>1, <1>4
  <1> HIDE DEF f
  <1>7. ToSet(f) = S
    BY <1>4, <1>5, <1>6 DEF ToSet, Surjection
  <1> QED
    BY <1>4, <1>6, <1>7 DEF f

--------------------------------------------------------------------------------
(* What is stored under an id, and what sessions know of it *)

\* Operations about a photo that was there when they began.
OfPhoto == {"tags", "categories", "hash", "compare", "mark", "link", "delete"}

\* What a session's record holds.
Typed(x) ==
    /\ x.of \in [Id -> Picture \cup {NoPicture}]
    /\ x.op \in OfPhoto => x.ids \in Seq(Id) /\ x.ids # <<>>
    /\ x.op \in {"hash", "mark"} => x.todo \in Seq(Id)
    /\ x.op \in Annotation =>
          /\ x.ids \in Seq(Id) /\ x.todo \in Seq(Id)
          /\ x.new \cup ToSet(x.todo) \subseteq ToSet(x.ids)
          /\ x.at = "write" => x.todo # <<>>
    /\ x.at = "file" => x.op = "delete"
    /\ x.at = "record" => x.op \in {"hash", "mark"}

Tables == photo \in [Id -> Picture \cup {NoPicture}] /\ hashes \in [Id -> Picture \cup {NoPicture}]

\* Rows and files are of photos that are there, and two photos are two pictures.
Described ==
    /\ \A l \in links : l.id \in Live /\ photo[l.id] = l.of
    /\ \A i \in Id : hashes[i] \in {NoPicture, photo[i]}
    /\ \A p \in records : p[1] \in Live /\ p[2] \in Live
    /\ \A i \in Live : photo[i] \in disk
Distinct == \A i, j \in Live : photo[i] = photo[j] => i = j

\* A session's photo is there, and so are those it is about to link and to record.
SeesPhoto(x) ==
    /\ x.op \in OfPhoto /\ x.at # "file" => Head(x.ids) \in Live /\ x.of[Head(x.ids)] = photo[Head(x.ids)]
    /\ x.op \in Annotation => \A i \in x.new : i \in Live /\ x.of[i] = photo[i]
    /\ x.op = "hash" /\ x.at = "record" => ToSet(x.todo) \subseteq Live

\* The file a deletion has still to remove is nobody else's.
Leaves(s) == Doing(s, "delete", "file")
Left(s) == session[s].of[Target(s)]
LeftAlone ==
    \A s \in Session : Leaves(s) =>
        /\ Left(s) \in disk
        /\ \A i \in Live : photo[i] # Left(s)
        /\ \A t \in Session \ {s} : Leaves(t) => Left(t) # Left(s)

RowsHold == Described /\ Distinct /\ LeftAlone /\ \A s \in Session : SeesPhoto(session[s])

\* A hash task that has saved; one that has searched.
Saved(x) == x.op = "hash" /\ x.at \in {"search", "record"}
Searching(x) == x.op = "hash" /\ x.at = "record"
Listed(i, j) == {i, j} \in dismissed \/ <<i, j>> \in records \/ <<j, i>> \in records

\* Of two hash tasks that searched, the later one found the other's photo; what a task
\* found it has recorded or is about to.
PairsHold ==
    /\ searched \subseteq Live
    /\ \A i \in searched : hashes[i] # NoPicture
    /\ \A s \in Session : Saved(session[s]) => hashes[Target(s)] # NoPicture
    /\ \A i, j \in searched : i # j => Listed(i, j)
    /\ \A s \in Session : Searching(session[s]) =>
          \A i \in searched : i # Target(s) => Listed(i, Target(s)) \/ i \in ToSet(session[s].todo)
    /\ \A s, t \in Session : Searching(session[s]) /\ Searching(session[t]) /\ Target(t) # Target(s) =>
          \/ Listed(Target(s), Target(t))
          \/ Target(t) \in ToSet(session[s].todo) \/ Target(s) \in ToSet(session[t].todo)

RecordsTyped == Shaped /\ Tables /\ \A s \in Session : Typed(session[s])
RowsInv == RecordsTyped /\ (calm => RowsHold /\ PairsHold)

\* A session takes a step: the others keep their records.
LEMMA SessionGoes ==
    ASSUME Shaped, NEW s \in Session, NEW next, Goes(s, next), DOMAIN next = Fields
    PROVE  /\ Shaped' /\ session'[s] = next
           /\ \A t \in Session : t # s => session'[t] = session[t]
  BY DEF Shaped, Goes

\* An operation begins with a record of what it is given.
LEMMA BeginRecord ==
    ASSUME NEW s, NEW op, NEW at, NEW ids, NEW label, NEW todo,
           Begin(s, op, at, ids, label, todo)
    PROVE  \E next : /\ Goes(s, next) /\ DOMAIN next = Fields
                     /\ next.op = op /\ next.at = at /\ next.ids = ids /\ next.of = photo
                     /\ next.label = label /\ next.todo = todo /\ next.new = {}
                     /\ next.key = opsLeft /\ next.done = <<>> /\ next.was = [i \in Id |-> NoPlace]
  <1> DEFINE next == [Idle EXCEPT !.op = op, !.at = at, !.key = opsLeft, !.ids = ids, !.of = photo,
                                  !.label = label, !.todo = todo]
  <1>1. Goes(s, next)
    BY DEF Begin
  <1>2. /\ DOMAIN next = Fields
        /\ next.op = op /\ next.at = at /\ next.ids = ids /\ next.of = photo
        /\ next.label = label /\ next.todo = todo /\ next.new = {}
        /\ next.key = opsLeft /\ next.done = <<>> /\ next.was = [i \in Id |-> NoPlace]
    BY DEF Idle, Fields
  <1> HIDE DEF next
  <1> QED
    BY <1>1, <1>2

\* An idle session knows nothing.
LEMMA IdleKnows ==
    /\ DOMAIN Idle = Fields /\ Typed(Idle) /\ SeesPhoto(Idle)
    /\ ~Saved(Idle) /\ ~Searching(Idle) /\ Idle.op = "none" /\ Idle.at = "none"
  <1>1. /\ DOMAIN Idle = Fields /\ Idle.op = "none" /\ Idle.at = "none"
        /\ Idle.of = [i \in Id |-> NoPicture]
    BY DEF Idle, Fields
  <1> QED
    BY <1>1 DEF Typed, SeesPhoto, Saved, Searching, OfPhoto, Annotation

\* A step that stores rows of photos that are there, by a session that sees its photo
\* and leaves no file.
LEMMA RowsFrame ==
    ASSUME RecordsTyped, RowsHold, NEW s \in Session, NEW next, Goes(s, next), DOMAIN next = Fields,
           next.at # "file", SeesPhoto(next), UNCHANGED <<photo, disk>>,
           \A l \in links' : l \in links \/ (l.id \in Live /\ photo[l.id] = l.of),
           \A i \in Id : hashes'[i] \in {NoPicture, photo[i]},
           \A p \in records' : p \in records \/ (p[1] \in Live /\ p[2] \in Live)
    PROVE  RowsHold'
  <1>1. session'[s] = next /\ \A t \in Session : t # s => session'[t] = session[t]
    BY SessionGoes DEF RecordsTyped
  <1>2. Described' /\ Distinct'
    BY DEF RowsHold, Described, Distinct, Live
  <1>3. ASSUME NEW t \in Session
        PROVE  SeesPhoto(session[t])'
    <2>1. SeesPhoto(session'[t])
      BY <1>1 DEF RowsHold
    <2> QED
      BY <2>1 DEF SeesPhoto, Live
  <1>4. LeftAlone'
    <2>1. \A t \in Session : Leaves(t)' => t # s /\ Leaves(t) /\ Left(t)' = Left(t)
      BY <1>1 DEF Leaves, Left, Doing, Target
    <2> QED
      BY <2>1 DEF RowsHold, LeftAlone, Live
  <1> QED
    BY <1>2, <1>3, <1>4 DEF RowsHold

\* A step that keeps hashes and pairs, by a session that records none.
LEMMA PairsFrame ==
    ASSUME RecordsTyped, PairsHold, NEW s \in Session, NEW next, Goes(s, next), DOMAIN next = Fields,
           ~Searching(next), Saved(next) => hashes'[Head(next.ids)] # NoPicture,
           UNCHANGED <<photo, dismissed, searched>>,
           \A i \in Id : hashes[i] # NoPicture => hashes'[i] # NoPicture,
           records \subseteq records'
    PROVE  PairsHold'
  <1>1. session'[s] = next /\ \A t \in Session : t # s => session'[t] = session[t]
    BY SessionGoes DEF RecordsTyped
  <1>2. \A t \in Session : /\ Saved(session'[t]) => t = s \/ session'[t] = session[t]
                           /\ Searching(session'[t]) => t # s /\ session'[t] = session[t]
    BY <1>1 DEF Saved, Searching
  <1>3. \A i, j : Listed(i, j) => Listed(i, j)'
    BY DEF Listed
  <1>4. \A t \in Session : Saved(session[t]) => Target(t) \in Id
    BY HeadTail DEF RecordsTyped, Typed, Saved, Target, OfPhoto
  <1>5. searched' \subseteq Live' /\ (\A i \in searched' : hashes'[i] # NoPicture)
    BY DEF PairsHold, Live
  <1>6. \A t \in Session : Saved(session'[t]) => hashes'[Target(t)'] # NoPicture
    BY <1>1, <1>2, <1>4 DEF PairsHold, Target
  <1>7. \A i, j \in searched' : i # j => Listed(i, j)'
    BY <1>3 DEF PairsHold
  <1>8. \A t \in Session : Searching(session'[t]) =>
            \A i \in searched' : i # Target(t)' => Listed(i, Target(t))' \/ i \in ToSet(session'[t].todo)
    BY <1>2, <1>3 DEF PairsHold, Target
  <1>9. \A t, u \in Session :
            Searching(session'[t]) /\ Searching(session'[u]) /\ Target(u)' # Target(t)' =>
                \/ Listed(Target(t), Target(u))'
                \/ Target(u)' \in ToSet(session'[t].todo) \/ Target(t)' \in ToSet(session'[u].todo)
    BY <1>2, <1>3 DEF PairsHold, Target
  <1> QED
    BY <1>5, <1>6, <1>7, <1>8, <1>9 DEF PairsHold, Saved, Searching

\* The types after the step of a session.
LEMMA TypesFrame ==
    ASSUME RecordsTyped, NEW s \in Session, NEW next, Goes(s, next), DOMAIN next = Fields,
           Typed(next), Tables'
    PROVE  RecordsTyped'
  BY SessionGoes DEF RecordsTyped, Typed

\* All of it, for a session that is in no search and stores links at most.
LEMMA LinksFrame ==
    ASSUME RowsInv, NEW s \in Session, NEW next, Goes(s, next), DOMAIN next = Fields,
           UNCHANGED <<photo, disk, hashes, records, dismissed, searched, calm>>,
           Typed(next), next.at # "file", ~Saved(next),
           calm => SeesPhoto(next),
           calm => \A l \in links' : l \in links \/ (l.id \in Live /\ photo[l.id] = l.of)
    PROVE  RowsInv'
  <1>1. RecordsTyped'
    BY TypesFrame DEF RowsInv, RecordsTyped, Tables
  <1>2. ASSUME calm
        PROVE  RowsHold' /\ PairsHold'
    <2>1. \A i \in Id : hashes'[i] \in {NoPicture, photo[i]}
      BY <1>2 DEF RowsInv, RowsHold, Described
    <2>2. RowsHold'
      BY <1>2, <2>1, RowsFrame DEF RowsInv
    <2>3. ~Searching(next)
      BY DEF Saved, Searching
    <2>4. PairsHold'
      BY <1>2, <2>3, PairsFrame DEF RowsInv
    <2> QED
      BY <2>2, <2>4
  <1> QED
    BY <1>1, <1>2 DEF RowsInv

\* Sets of ids are finite, and their listings are sequences of ids.
LEMMA IdListing ==
    /\ \A S \in SUBSET Id : IsFiniteSet(S)
    /\ \A q \in Listings(Id) : q \in Seq(Id) /\ IsInjective(q)
  <1>1. \A S \in SUBSET Id : IsFiniteSet(S)
    <2>1. 1 \in Int /\ MaxPhotos \in Int
      BY LibraryAssumption
    <2>2. IsFiniteSet(Id)
      BY <2>1, FS_Interval DEF Id
    <2> QED
      BY <2>2, FS_Subset
  <1>2. ASSUME NEW q \in Listings(Id)
        PROVE  q \in Seq(Id) /\ IsInjective(q)
    <2>1. PICK S \in SUBSET Id : q = SetToSeq(S)
      BY DEF Listings
    <2>2. q \in Seq(S) /\ IsInjective(q)
      BY <1>1, <2>1, Listing
    <2> QED
      BY <2>1, <2>2, SeqMonotonic
  <1> QED
    BY <1>1, <1>2

\* Before and after a step that changes no rows but links, taken away.
OnlyFewerLinks == UNCHANGED <<photo, disk, hashes, records, dismissed, searched, calm>>
                  /\ links' \subseteq links

\* A session that ends.
LEMMA EndFrame ==
    ASSUME RowsInv, NEW s \in Session, End(s),
           UNCHANGED <<photo, disk, hashes, records, dismissed, searched, calm>>,
           calm => \A l \in links' : l \in links \/ (l.id \in Live /\ photo[l.id] = l.of)
    PROVE  RowsInv'
  BY IdleKnows, LinksFrame DEF End

\* An operation that begins.
LEMMA BeginFrame ==
    ASSUME RowsInv, NEW s \in Session, NEW op, NEW at, NEW ids, NEW label, NEW todo,
           Begin(s, op, at, ids, label, todo), OnlyFewerLinks,
           op \in OfPhoto => ids \in Seq(Id) /\ ids # <<>> /\ Head(ids) \in Live,
           op \in {"hash", "mark"} => todo \in Seq(Id),
           op \in Annotation => ids \in Seq(Id) /\ todo = ids /\ at = "look",
           at # "file", at = "record" => op = "mark", at # "search"
    PROVE  RowsInv'
  <1>1. PICK next : /\ Goes(s, next) /\ DOMAIN next = Fields
                    /\ next.op = op /\ next.at = at /\ next.ids = ids /\ next.of = photo
                    /\ next.todo = todo /\ next.new = {}
    BY BeginRecord
  <1>2. Typed(next)
    BY <1>1 DEF Typed, RowsInv, RecordsTyped, Tables
  <1>3. SeesPhoto(next) /\ ~Saved(next)
    BY <1>1 DEF SeesPhoto, Saved
  <1> QED
    BY <1>1, <1>2, <1>3, LinksFrame DEF OnlyFewerLinks

\* The photo of a session that is about one is an id.
LEMMA TargetIsId ==
    ASSUME RecordsTyped, NEW s \in Session, session[s].op \in OfPhoto
    PROVE  Target(s) \in Id /\ Target(s) \in ToSet(session[s].ids)
  BY HeadTail DEF RecordsTyped, Typed, Target

\* A session that begins, of whatever kind.
LEMMA BeginsKeepRows ==
    ASSUME RowsInv, NEW s \in Session,
           \/ \E i \in Id : \/ DeleteBegins(s, i) \/ HashBegin(s, "hash", i) \/ HashBegin(s, "compare", i)
                            \/ \E found : TagsBegin(s, i, found) \/ CategoriesBegin(s, i, found)
                            \/ \E others \in Listings(Id) : MarkBegin(s, i, others)
                            \/ \E label : LinkBegin(s, i, label)
           \/ \E op \in Annotation, ids \in Listings(Id) : \E label : AnnotateBegin(s, op, ids, label)
           \/ UndoBegin(s)
    PROVE  RowsInv'
  <1>1. ASSUME NEW i \in Id, NEW op \in OfPhoto, NEW at, NEW label, NEW todo, i \in Live,
               Begin(s, op, at, <<i>>, label, todo), OnlyFewerLinks,
               op = "hash" => todo = <<>>, op # "mark", at \in {"write", "lock", "look"}
        PROVE  RowsInv'
    <2>1. <<i>> \in Seq(Id) /\ <<i>> # <<>> /\ Head(<<i>>) = i /\ <<>> \in Seq(Id)
      BY OneFirst
    <2> QED
      BY <1>1, <2>1, BeginFrame DEF OfPhoto, Annotation
  <1>2. ASSUME NEW i \in Id, NEW found, NEW label,
               \/ DeleteBegins(s, i) \/ HashBegin(s, "hash", i) \/ HashBegin(s, "compare", i)
               \/ TagsBegin(s, i, found) \/ CategoriesBegin(s, i, found) \/ LinkBegin(s, i, label)
        PROVE  RowsInv'
    <2>1. OnlyFewerLinks /\ i \in Live
      BY <1>2 DEF DeleteBegins, HashBegin, TagsBegin, CategoriesBegin, LinkBegin, OnlyLinks,
         OnlyPairs, OnlyFewerLinks, aux
    <2>2. \E op \in OfPhoto, at \in {"write", "lock", "look"} : \E b, todo :
             /\ Begin(s, op, at, <<i>>, b, todo)
             /\ op = "hash" => todo = <<>>
             /\ op # "mark"
      BY <1>2 DEF DeleteBegins, HashBegin, TagsBegin, CategoriesBegin, LinkBegin, OfPhoto
    <2> QED
      BY <1>1, <2>1, <2>2
  <1>3. ASSUME NEW i \in Id, NEW others \in Listings(Id), MarkBegin(s, i, others)
        PROVE  RowsInv'
    <2>1. others \in Seq(Id)
      BY IdListing
    <2>2. <<i>> \o others \in Seq(Id) /\ <<i>> \o others # <<>> /\ Head(<<i>> \o others) = i
      BY <2>1, OneFirst
    <2>3. OnlyFewerLinks /\ i \in Live /\ Begin(s, "mark", "record", <<i>> \o others, NoPlace, others)
      BY <1>3 DEF MarkBegin, OnlyPairs, OnlyFewerLinks
    <2> QED
      BY <2>1, <2>2, <2>3, BeginFrame DEF OfPhoto, Annotation
  <1>4. ASSUME NEW op \in Annotation, NEW ids \in Listings(Id), NEW label, AnnotateBegin(s, op, ids, label)
        PROVE  RowsInv'
    <2>1. OnlyFewerLinks /\ Begin(s, op, "look", ids, label, ids)
      BY <1>4 DEF AnnotateBegin, OnlyNotes, OnlyFewerLinks
    <2>2. op \notin OfPhoto /\ op \notin {"hash", "mark"}
      BY DEF OfPhoto, Annotation
    <2>3. ids \in Seq(Id)
      BY IdListing
    <2> QED
      BY <2>1, <2>2, <2>3, BeginFrame
  <1>5. CASE UndoBegin(s)
    <2>1. OnlyFewerLinks
      BY <1>5 DEF UndoBegin, OnlyNotes, OnlyFewerLinks
    <2>2. \E ids, label, todo : Begin(s, "undo", "forget", ids, label, todo)
      BY <1>5 DEF UndoBegin
    <2> QED
      BY <2>1, <2>2, BeginFrame DEF OfPhoto, Annotation
  <1> QED
    BY <1>2, <1>3, <1>4, <1>5

\* The rows a session that sees its photo stores under it.
LEMMA RowsOfPhoto ==
    ASSUME NEW s \in Session, NEW i, NEW labels, i \in Live, session[s].of[i] = photo[i],
           NEW l \in Rows(s, i, labels)
    PROVE  l.id \in Live /\ photo[l.id] = l.of
  BY DEF Rows

\* The tags and categories tasks, and the edits of links.
LEMMA LinksKeepRows ==
    ASSUME RowsInv, NEW s \in Session,
           \/ TagsLock(s) \/ TagsCommit(s)
           \/ CategoriesLook(s) \/ CategoryCreated(s) \/ CategoriesCommit(s) \/ LinkCommit(s)
    PROVE  RowsInv'
  <1>1. /\ UNCHANGED <<photo, disk, hashes, records, dismissed, searched, calm>>
        /\ session[s].op \in {"tags", "categories", "link"} /\ session[s].at # "file"
    BY DEF TagsLock, TagsCommit, CategoriesLook, CategoryCreated, CategoriesCommit, LinkCommit,
       OnlyLinks, aux, Doing
  <1>2. calm => Target(s) \in Live /\ session[s].of[Target(s)] = photo[Target(s)]
    BY <1>1 DEF RowsInv, RowsHold, SeesPhoto, OfPhoto, Target
  <1>3. ASSUME NEW labels, links' \subseteq links \cup Rows(s, Target(s), labels)
        PROVE  calm => \A l \in links' : l \in links \/ (l.id \in Live /\ photo[l.id] = l.of)
    BY <1>2, <1>3, RowsOfPhoto
  <1>4. calm => \A l \in links' : l \in links \/ (l.id \in Live /\ photo[l.id] = l.of)
    <2>1. links' \subseteq links \cup Rows(s, Target(s), session[s].new)
          \/ links' \subseteq links \cup Rows(s, Target(s), {session[s].label})
      BY DEF TagsLock, TagsCommit, CategoriesLook, CategoryCreated, CategoriesCommit, LinkCommit,
         OnlyLinks, Commit
    <2> QED
      BY <1>3, <2>1
  <1>5. CASE End(s)
    BY <1>1, <1>4, <1>5, EndFrame
  <1>6. CASE ~End(s)
    <2>1. PICK next : /\ Goes(s, next) /\ DOMAIN next = Fields
                      /\ next.op \in {"tags", "categories"} /\ next.at # "file" /\ next.at # "record"
                      /\ next.op = session[s].op /\ next.ids = session[s].ids /\ next.of = session[s].of
      <3> DEFINE written(at, new) == [session[s] EXCEPT !.at = at, !.new = new]
                 moved(at, todo, new) == [session[s] EXCEPT !.at = at, !.todo = todo, !.new = new]
                 create == [session[s] EXCEPT !.at = "create"]
      <3>1. DOMAIN session[s] = Fields
        BY DEF RowsInv, RecordsTyped, Shaped
      <3>2. \A at, new : /\ DOMAIN written(at, new) = Fields /\ written(at, new).at = at
                         /\ written(at, new).op = session[s].op
                         /\ written(at, new).ids = session[s].ids /\ written(at, new).of = session[s].of
        BY <3>1 DEF Fields
      <3>3. \A at, todo, new :
                /\ DOMAIN moved(at, todo, new) = Fields /\ moved(at, todo, new).at = at
                /\ moved(at, todo, new).op = session[s].op
                /\ moved(at, todo, new).ids = session[s].ids /\ moved(at, todo, new).of = session[s].of
        BY <3>1 DEF Fields
      <3>4. /\ DOMAIN create = Fields /\ create.at = "create" /\ create.op = session[s].op
            /\ create.ids = session[s].ids /\ create.of = session[s].of
        BY <3>1 DEF Fields
      <3>5. CASE TagsLock(s) \/ TagsCommit(s)
        <4>1. \E new : Goes(s, written("write", new)) /\ session[s].op = "tags"
          BY <1>6, <3>5 DEF TagsLock, TagsCommit, Doing
        <4> HIDE DEF written
        <4> QED
          BY <3>2, <4>1
      <3>6. CASE CategoriesLook(s) \/ CategoryCreated(s) \/ CategoriesCommit(s)
        <4>1. \E new : Pended(s) = moved("look", Tail(session[s].todo), new)
          BY DEF Pended
        <4>2. \E new : [Pended(s) EXCEPT !.new = @ \ session[s].new] = moved("look", Tail(session[s].todo), new)
          BY <3>1 DEF Pended, Fields
        <4>3. session[s].op = "categories"
          BY <3>6 DEF CategoriesLook, CategoryCreated, CategoriesCommit, Doing
        <4>4. \/ Goes(s, create)
              \/ \E new : Goes(s, moved("look", Tail(session[s].todo), new))
          BY <1>6, <3>6, <4>1, <4>2 DEF CategoriesLook, CategoryCreated, CategoriesCommit
        <4> HIDE DEF create, moved
        <4> QED
          BY <3>3, <3>4, <4>3, <4>4
      <3>7. CASE LinkCommit(s)
        BY <1>6, <3>7 DEF LinkCommit
      <3> QED
        BY <3>5, <3>6, <3>7
    <2>2. Typed(next)
      BY <2>1 DEF RowsInv, RecordsTyped, Typed, OfPhoto, Annotation
    <2>3. calm => SeesPhoto(next)
      BY <1>2, <2>1 DEF SeesPhoto, Target, Annotation
    <2>4. ~Saved(next)
      BY <2>1 DEF Saved
    <2> QED
      BY <1>1, <1>4, <2>1, <2>2, <2>3, <2>4, LinksFrame
  <1> QED
    BY <1>5, <1>6

\* The agent's annotations, and the end of an undo: a photo is looked at before it is linked.
LEMMA NotesKeepRows ==
    ASSUME RowsInv, NEW s \in Session,
           AnnotateLook(s) \/ AnnotateWrite(s) \/ AnnotateEnd(s) \/ UndoForget(s)
    PROVE  RowsInv'
  <1>1. UNCHANGED <<photo, disk, hashes, records, dismissed, searched, calm>>
    BY DEF AnnotateLook, AnnotateWrite, AnnotateEnd, UndoForget, OnlyNotes
  <1>2. session[s].op \in Annotation /\ calm =>
           \A l \in links' : l \in links \/ (l.id \in Live /\ photo[l.id] = l.of)
    <2>1. links' \subseteq links \cup Tagged(s, session[s].new)
      BY DEF AnnotateLook, AnnotateWrite, AnnotateEnd, UndoForget, OnlyNotes
    <2>2. ASSUME session[s].op \in Annotation, calm, NEW l \in Tagged(s, session[s].new)
          PROVE  l.id \in Live /\ photo[l.id] = l.of
      <3>1. PICK i \in session[s].new : l \in Rows(s, i, {session[s].label})
        BY <2>2 DEF Tagged
      <3> QED
        BY <2>2, <3>1, RowsOfPhoto DEF RowsInv, RowsHold, SeesPhoto
    <2> QED
      BY <2>1, <2>2
  <1>3. CASE UndoForget(s)
    BY <1>1, <1>3, EndFrame DEF UndoForget
  <1>4. CASE ~UndoForget(s) /\ End(s)
    BY <1>1, <1>2, <1>4, EndFrame DEF AnnotateLook, AnnotateWrite, AnnotateEnd
  <1>5. CASE ~UndoForget(s) /\ ~End(s)
    <2> DEFINE i == Item(s)
               fresh == IF Linked(i, session[s].label) THEN {} ELSE {i}
               gone == [session[s] EXCEPT !.todo = Tail(@)]
               noted == [session[s] EXCEPT !.todo = Tail(@), !.new = @ \cup fresh,
                                           !.done = Append(@, i), !.of[i] = photo[i]]
               found == [session[s] EXCEPT !.at = "write", !.new = fresh, !.of[i] = photo[i],
                                           !.was[i] = places[i]]
               written == [session[s] EXCEPT !.at = "look", !.todo = Tail(@), !.done = Append(@, i)]
    <2>1. session[s].op \in Annotation /\ session[s].at \in {"look", "write"}
          /\ DOMAIN session[s] = Fields /\ Typed(session[s]) /\ session[s].todo # <<>>
      BY <1>5 DEF AnnotateLook, AnnotateWrite, AnnotateEnd, RowsInv, RecordsTyped, Shaped, Typed
    <2>2. /\ session[s].todo \in Seq(Id) /\ i \in Id /\ i \in ToSet(session[s].todo)
          /\ Tail(session[s].todo) \in Seq(Id)
          /\ ToSet(Tail(session[s].todo)) \subseteq ToSet(session[s].todo)
      BY <2>1, HeadTail DEF Typed, Item
    <2>3. /\ DOMAIN gone = Fields /\ gone.op = session[s].op /\ gone.at = session[s].at
          /\ gone.ids = session[s].ids /\ gone.of = session[s].of /\ gone.new = session[s].new
          /\ gone.todo = Tail(session[s].todo)
      BY <2>1 DEF Fields
    <2>4. /\ DOMAIN noted = Fields /\ noted.op = session[s].op /\ noted.at = session[s].at
          /\ noted.ids = session[s].ids /\ noted.of = [session[s].of EXCEPT ![i] = photo[i]]
          /\ noted.new = session[s].new \cup fresh /\ noted.todo = Tail(session[s].todo)
      BY <2>1 DEF Fields
    <2>5. /\ DOMAIN found = Fields /\ found.op = session[s].op /\ found.at = "write"
          /\ found.ids = session[s].ids /\ found.of = [session[s].of EXCEPT ![i] = photo[i]]
          /\ found.new = fresh /\ found.todo = session[s].todo
      BY <2>1 DEF Fields
    <2>6. /\ DOMAIN written = Fields /\ written.op = session[s].op /\ written.at = "look"
          /\ written.ids = session[s].ids /\ written.of = session[s].of
          /\ written.new = session[s].new /\ written.todo = Tail(session[s].todo)
      BY <2>1 DEF Fields
    <2>7. \/ session[s].at = "look" /\ Goes(s, gone)
          \/ session[s].at = "look" /\ i \in Live /\ Goes(s, noted)
          \/ i \in Live /\ Goes(s, found)
          \/ Goes(s, written)
      BY <1>5 DEF AnnotateLook, AnnotateWrite, AnnotateEnd
    <2>8. fresh \subseteq {i}
      OBVIOUS
    <2> HIDE DEF gone, noted, found, written, fresh, i
    <2>9. PICK next : /\ Goes(s, next) /\ DOMAIN next = Fields
                      /\ next.op = session[s].op /\ next.at \in {"look", "write"} /\ next.ids = session[s].ids
                      /\ \/ next.of = session[s].of /\ next.new \subseteq session[s].new
                         \/ /\ i \in Live /\ next.of = [session[s].of EXCEPT ![i] = photo[i]]
                            /\ next.new \subseteq session[s].new \cup {i}
                      /\ next.todo \in Seq(Id) /\ ToSet(next.todo) \subseteq ToSet(session[s].todo)
                      /\ next.at = "write" => next.todo # <<>>
      <3>1. CASE session[s].at = "look" /\ Goes(s, gone)
        BY <2>2, <2>3, <3>1
      <3>2. CASE session[s].at = "look" /\ i \in Live /\ Goes(s, noted)
        BY <2>2, <2>4, <2>8, <3>2
      <3>3. CASE i \in Live /\ Goes(s, found)
        BY <2>1, <2>2, <2>5, <2>8, <3>3
      <3>4. CASE Goes(s, written)
        BY <2>2, <2>6, <3>4
      <3> QED
        BY <2>7, <3>1, <3>2, <3>3, <3>4
    <2>10. session[s].of \in [Id -> Picture \cup {NoPicture}] /\ photo[i] \in Picture \cup {NoPicture}
      BY <2>1, <2>2 DEF Typed, RowsInv, RecordsTyped, Tables
    <2>11. Typed(next)
      <3>1. next.of \in [Id -> Picture \cup {NoPicture}]
        BY <2>9, <2>10
      <3>2. next.ids \in Seq(Id) /\ next.new \cup ToSet(next.todo) \subseteq ToSet(next.ids)
        BY <2>1, <2>2, <2>9 DEF Typed
      <3> QED
        BY <2>1, <2>9, <3>1, <3>2 DEF Typed, OfPhoto, Annotation
    <2>12. calm => SeesPhoto(next)
      <3>1. ASSUME calm, NEW j \in next.new
            PROVE  j \in Live /\ next.of[j] = photo[j]
        <4>1. SeesPhoto(session[s])
          BY <3>1 DEF RowsInv, RowsHold
        <4>2. CASE j = i
          <5>1. i \in Live
            BY <2>1, <2>9, <3>1, <4>1, <4>2 DEF SeesPhoto
          <5>2. CASE next.of = [session[s].of EXCEPT ![i] = photo[i]]
            BY <2>2, <2>10, <4>2, <5>1, <5>2
          <5>3. CASE next.of # [session[s].of EXCEPT ![i] = photo[i]]
            BY <2>1, <2>9, <3>1, <4>1, <5>3 DEF SeesPhoto
          <5> QED
            BY <5>2, <5>3
        <4>3. CASE j # i
          <5>1. j \in Live /\ session[s].of[j] = photo[j]
            BY <2>1, <2>9, <3>1, <4>1, <4>3 DEF SeesPhoto
          <5> QED
            BY <2>9, <2>10, <4>3, <5>1 DEF Live
        <4> QED
          BY <4>2, <4>3
      <3> QED
        BY <2>1, <2>9, <3>1 DEF SeesPhoto, OfPhoto, Annotation
    <2>13. next.at # "file" /\ ~Saved(next)
      BY <2>1, <2>9 DEF Saved, Annotation
    <2> QED
      BY <1>1, <1>2, <2>1, <2>9, <2>11, <2>12, <2>13, LinksFrame
  <1> QED
    BY <1>3, <1>4, <1>5

\* The hash task saves a hash and searches, a comparison saves one.
LEMMA SearchesKeepRows ==
    ASSUME RowsInv, NEW s \in Session, Hashes(s)
    PROVE  RowsInv'
  <1> DEFINE i == Target(s)
             found == IF hashes[i] = NoPicture THEN <<>>
                      ELSE SetToSeq({j \in Id \ {i} : hashes[j] # NoPicture})
             tosave == [session[s] EXCEPT !.at = "write"]
             saved == [session[s] EXCEPT !.at = "search"]
             looked == [session[s] EXCEPT !.at = "record", !.todo = found]
  <1>1. /\ session[s].op \in {"hash", "compare"} /\ session[s].at # "file"
        /\ DOMAIN session[s] = Fields /\ Typed(session[s])
        /\ i \in Id /\ UNCHANGED <<photo, disk, links, records, dismissed, searched, calm>>
    <2>1. session[s].op \in {"hash", "compare"} /\ session[s].at # "file"
      BY DEF Hashes, HashLook, HashSave, HashFails, HashSearch, HashStored, Hashing, Doing, RowsInv,
         RecordsTyped, Typed
    <2> QED
      BY <2>1, TargetIsId DEF
         Hashes, HashLook, HashSave, HashFails, HashSearch, HashStored, Hashing,
         OnlyPairs, RowsInv, RecordsTyped, Shaped, OfPhoto
  <1>2. /\ DOMAIN saved = Fields /\ saved.op = session[s].op /\ saved.at = "search"
        /\ saved.ids = session[s].ids /\ saved.of = session[s].of /\ saved.todo = session[s].todo
    BY <1>1 DEF Fields
  <1>w. /\ DOMAIN tosave = Fields /\ tosave.op = session[s].op /\ tosave.at = "write"
        /\ tosave.ids = session[s].ids /\ tosave.of = session[s].of /\ tosave.todo = session[s].todo
    BY <1>1 DEF Fields
  <1>3. /\ DOMAIN looked = Fields /\ looked.op = session[s].op /\ looked.at = "record"
        /\ looked.ids = session[s].ids /\ looked.of = session[s].of /\ looked.todo = found
    BY <1>1 DEF Fields
  <1>4. calm => i \in Live /\ session[s].of[i] = photo[i]
    BY <1>1 DEF RowsInv, RowsHold, SeesPhoto, OfPhoto, Target
  <1>5. found \in Seq(Id) /\ (hashes[i] # NoPicture => ToSet(found) = {j \in Id \ {i} : hashes[j] # NoPicture})
        /\ (hashes[i] = NoPicture => ToSet(found) = {})
    <2>1. CASE hashes[i] = NoPicture
      <3>1. found = <<>>
        BY <2>1
      <3> HIDE DEF found
      <3> QED
        BY <2>1, <3>1 DEF ToSet
    <2>2. CASE hashes[i] # NoPicture
      <3> DEFINE hashed == {j \in Id \ {i} : hashes[j] # NoPicture}
      <3>1. found = SetToSeq(hashed) /\ hashed \subseteq Id
        BY <2>2
      <3>2. found \in Seq(hashed) /\ ToSet(found) = hashed
        BY <3>1, IdListing, Listing
      <3> HIDE DEF found
      <3> QED
        BY <2>2, <3>1, <3>2, SeqMonotonic
    <2> QED
      BY <2>1, <2>2
  <1> HIDE DEF found, tosave, saved, looked
  <1>6. CASE HashLook(s) \/ HashSave(s) \/ HashFails(s)
    <2>1. /\ \/ hashes' = hashes
             \/ hashes[i] = NoPicture /\ hashes' = [hashes EXCEPT ![i] = session[s].of[i]]
          /\ \/ Goes(s, Idle)
             \/ Goes(s, tosave)
             \/ /\ session[s].op = "hash" /\ Goes(s, saved)
                /\ \/ hashes[i] # NoPicture
                   \/ hashes' = [hashes EXCEPT ![i] = session[s].of[i]]
      <3>1. CASE HashLook(s)
        BY <1>1, <3>1 DEF HashLook, HashStored, End, tosave, saved
      <3>2. CASE HashSave(s)
        BY <1>1, <3>2 DEF HashSave, HashStored, End, saved
      <3>3. CASE HashFails(s)
        BY <3>3 DEF HashFails, End
      <3> QED
        BY <1>6, <3>1, <3>2, <3>3
    <2>2. Tables'
      BY <1>1, <2>1 DEF Tables, RowsInv, RecordsTyped, Typed
    <2>3. Typed(saved) /\ Typed(tosave)
      BY <1>1, <1>2, <1>w DEF Typed, OfPhoto, Annotation
    <2>4. PICK next : /\ Goes(s, next) /\ DOMAIN next = Fields /\ Typed(next)
                      /\ \/ next \in {Idle, tosave}
                         \/ /\ next = saved
                            /\ \/ hashes[i] # NoPicture
                               \/ hashes' = [hashes EXCEPT ![i] = session[s].of[i]]
      BY <1>2, <1>w, <2>1, <2>3, IdleKnows
    <2>5. RecordsTyped'
      BY <2>2, <2>4, TypesFrame DEF RowsInv
    <2>6. ASSUME calm
          PROVE  RowsHold' /\ PairsHold'
      <3>1. SeesPhoto(next) /\ next.at # "file"
        <4>1. CASE next = Idle
          BY <4>1, IdleKnows
        <4>2. CASE next \in {saved, tosave}
          <5>1. next.op \notin Annotation
            BY <1>1, <1>2, <1>w, <4>2 DEF Annotation
          <5> QED
            BY <1>2, <1>w, <1>4, <2>6, <4>2, <5>1 DEF SeesPhoto, Target
        <4> QED
          BY <2>4, <4>1, <4>2
      <3>2. \A j \in Id : hashes[j] \in {NoPicture, photo[j]}
        BY <2>6 DEF RowsInv, RowsHold, Described
      <3>3. /\ \A j \in Id : hashes'[j] \in {NoPicture, photo[j]}
            /\ \A j \in Id : hashes[j] # NoPicture => hashes'[j] # NoPicture
            /\ next = saved => hashes'[i] # NoPicture
        <4>1. next = saved => next \notin {Idle, tosave}
          BY <1>2, <1>w, IdleKnows
        <4> QED
          BY <1>1, <1>4, <2>1, <2>4, <2>6, <3>2, <4>1 DEF Live, Tables, RowsInv, RecordsTyped
      <3>4. ~Searching(next) /\ (Saved(next) => hashes'[Head(next.ids)] # NoPicture)
        BY <1>2, <1>w, <2>4, <3>3, IdleKnows DEF Searching, Saved, Target
      <3>5. RowsHold'
        BY <1>1, <2>4, <2>6, <3>1, <3>3, RowsFrame DEF RowsInv
      <3>6. PairsHold'
        BY <1>1, <2>4, <2>6, <3>3, <3>4, PairsFrame DEF RowsInv
      <3> QED
        BY <3>5, <3>6
    <2> QED
      BY <1>1, <2>5, <2>6 DEF RowsInv
  <1>7. CASE HashSearch(s)
    <2>1. Goes(s, looked) /\ UNCHANGED hashes /\ session[s].op = "hash" /\ session[s].at = "search"
      BY <1>7 DEF HashSearch, Doing, looked, found
    <2>2. Typed(looked)
      BY <1>1, <1>3, <1>5, <2>1 DEF Typed, OfPhoto, Annotation
    <2>3. RecordsTyped'
      BY <1>1, <1>3, <2>1, <2>2, TypesFrame DEF RowsInv, RecordsTyped, Tables
    <2>4. ASSUME calm
          PROVE  RowsHold' /\ PairsHold'
      <3>1. \A j \in Id : hashes[j] \in {NoPicture, photo[j]}
        BY <2>4 DEF RowsInv, RowsHold, Described
      <3>2. hashes[i] # NoPicture
        BY <2>1, <2>4 DEF RowsInv, PairsHold, Saved
      <3>3. ToSet(found) = {j \in Id \ {i} : hashes[j] # NoPicture}
        BY <1>5, <3>2
      <3>4. SeesPhoto(looked)
        BY <1>3, <1>4, <2>1, <2>4, <3>1, <3>3 DEF SeesPhoto, Target, Annotation, Live
      <3>5. RowsHold'
        BY <1>1, <1>3, <2>1, <2>4, <3>1, <3>4, RowsFrame DEF RowsInv
      <3>6. /\ session'[s] = looked /\ Target(s)' = i /\ session'[s].todo = found
            /\ \A t \in Session : t # s => session'[t] = session[t] /\ Target(t)' = Target(t)
        BY <1>3, <2>1, SessionGoes DEF RowsInv, RecordsTyped, Target
      <3>7. \A t \in Session : Saved(session'[t]) => Saved(session[t]) /\ Target(t)' = Target(t)
        BY <2>1, <3>6 DEF Saved
      <3>8. \A t \in Session : Searching(session'[t]) =>
               /\ Saved(session[t]) /\ Target(t)' = Target(t) /\ Target(t) \in Id
               /\ hashes[Target(t)] # NoPicture
        BY <2>4, <3>7, TargetIsId DEF Saved, Searching, RowsInv, PairsHold, OfPhoto
      <3>9. PairsHold
        BY <2>4 DEF RowsInv
      <3>10. searched \subseteq Id
        BY <3>9 DEF PairsHold, Live
      <3>11. \A a, b : Listed(a, b)' = Listed(a, b)
        BY <1>1 DEF Listed
      <3>12. \A t \in Session : Searching(session'[t]) =>
                \A a \in searched' : a # Target(t)' => Listed(a, Target(t))' \/ a \in ToSet(session'[t].todo)
        <4>1. ASSUME NEW t \in Session, Searching(session'[t]), NEW a \in searched', a # Target(t)'
              PROVE  Listed(a, Target(t)') \/ a \in ToSet(session'[t].todo)
          <5>1. CASE t = s
            BY <1>1, <3>3, <3>6, <3>9, <3>10, <4>1, <5>1 DEF PairsHold
          <5>2. CASE t # s
            BY <1>1, <3>6, <3>9, <4>1, <5>2 DEF PairsHold
          <5> QED
            BY <5>1, <5>2
        <4> QED
          BY <1>1, <4>1 DEF Listed
      <3>13. \A t, u \in Session :
                Searching(session'[t]) /\ Searching(session'[u]) /\ Target(u)' # Target(t)' =>
                    \/ Listed(Target(t), Target(u))'
                    \/ Target(u)' \in ToSet(session'[t].todo) \/ Target(t)' \in ToSet(session'[u].todo)
        <4>1. ASSUME NEW t \in Session, NEW u \in Session, Searching(session'[t]), Searching(session'[u]),
                     Target(u)' # Target(t)'
              PROVE  \/ Listed(Target(t)', Target(u)')
                     \/ Target(u)' \in ToSet(session'[t].todo) \/ Target(t)' \in ToSet(session'[u].todo)
          <5>1. CASE t = s
            BY <3>3, <3>6, <3>8, <4>1, <5>1
          <5>2. CASE u = s
            BY <3>3, <3>6, <3>8, <4>1, <5>2
          <5>3. CASE t # s /\ u # s
            BY <3>6, <3>9, <4>1, <5>3 DEF PairsHold
          <5> QED
            BY <5>1, <5>2, <5>3
        <4> QED
          BY <1>1, <4>1 DEF Listed
      <3>14. /\ searched' \subseteq Live' /\ \A a \in searched' : hashes'[a] # NoPicture
             /\ \A a, b \in searched' : a # b => Listed(a, b)'
        BY <1>1, <2>1, <3>9, <3>11 DEF PairsHold, Live
      <3>15. \A t \in Session : Saved(session'[t]) => hashes'[Target(t)'] # NoPicture
        BY <2>1, <3>7, <3>9 DEF PairsHold
      <3>16. PairsHold'
        BY <3>12, <3>13, <3>14, <3>15 DEF PairsHold, Saved, Searching
      <3> QED
        BY <3>5, <3>16
    <2> QED
      BY <1>1, <2>3, <2>4 DEF RowsInv
  <1> QED
    BY <1>6, <1>7 DEF Hashes

\* A pair is recorded: by a hash task of photos that are there, by the agent's tool as well.
LEMMA RecordsKeepRows ==
    ASSUME RowsInv, NEW s \in Session, RecordPair(s) \/ Recorded(s)
    PROVE  RowsInv'
  <1> DEFINE i == Target(s)
             next == [session[s] EXCEPT !.todo = Tail(@)]
  <1>1. /\ session[s].op \in {"hash", "mark"} /\ session[s].at = "record"
        /\ DOMAIN session[s] = Fields /\ Typed(session[s]) /\ session[s].todo \in Seq(Id)
        /\ i \in Id /\ UNCHANGED <<photo, disk, links, hashes, dismissed, calm>>
    <2>1. session[s].at = "record" /\ DOMAIN session[s] = Fields /\ Typed(session[s])
      BY DEF RecordPair, Recorded, RowsInv, RecordsTyped, Shaped
    <2>2. session[s].op \in {"hash", "mark"} /\ session[s].todo \in Seq(Id)
      BY <2>1 DEF Typed
    <2> QED
      BY <2>1, <2>2, TargetIsId DEF RecordPair, Recorded, OnlyPairs, RowsInv, OfPhoto
  <1>2. calm => /\ i \in Live /\ session[s].of[i] = photo[i]
                /\ session[s].op = "hash" => ToSet(session[s].todo) \subseteq Live
    BY <1>1 DEF RowsInv, RowsHold, SeesPhoto, OfPhoto, Target
  <1>3. /\ DOMAIN next = Fields /\ next.op = session[s].op /\ next.at = "record"
        /\ next.ids = session[s].ids /\ next.of = session[s].of /\ next.todo = Tail(session[s].todo)
    BY <1>1 DEF Fields
  <1>4. RecordPair(s) => Goes(s, next)
    BY DEF RecordPair
  <1> HIDE DEF next
  <1>5. CASE RecordPair(s)
    <2>1. /\ session[s].todo # <<>>
          /\ records' = IF session[s].op = "mark" /\ Item(s) \notin Live THEN records
                        ELSE records \cup {<<i, Item(s)>>}
          /\ UNCHANGED searched
      BY <1>5 DEF RecordPair
    <2>2. /\ Tail(session[s].todo) \in Seq(Id) /\ Item(s) \in ToSet(session[s].todo)
          /\ ToSet(Tail(session[s].todo)) \subseteq ToSet(session[s].todo)
          /\ ToSet(session[s].todo) \subseteq {Item(s)} \cup ToSet(Tail(session[s].todo))
      BY <1>1, <2>1, HeadTail DEF Item
    <2>3. Typed(next)
      BY <1>1, <1>3, <2>2 DEF Typed, OfPhoto, Annotation
    <2>4. RecordsTyped'
      BY <1>1, <1>3, <1>4, <1>5, <2>3, TypesFrame DEF RowsInv, RecordsTyped, Tables
    <2>5. ASSUME calm
          PROVE  RowsHold' /\ PairsHold'
      <3>1. SeesPhoto(next)
        BY <1>1, <1>2, <1>3, <2>2, <2>5 DEF SeesPhoto, Target, Annotation
      <3>2. \A p \in records' : p \in records \/ (p[1] \in Live /\ p[2] \in Live)
        BY <1>1, <1>2, <2>1, <2>2, <2>5
      <3>3. \A j \in Id : hashes'[j] \in {NoPicture, photo[j]}
        BY <1>1, <2>5 DEF RowsInv, RowsHold, Described
      <3>4. RowsHold'
        BY <1>1, <1>3, <1>4, <1>5, <2>5, <3>1, <3>2, <3>3, RowsFrame DEF RowsInv
      <3>5. PairsHold'
        <4>1. CASE session[s].op = "mark"
          <5>1. ~Searching(next) /\ ~Saved(next)
            BY <1>3, <4>1 DEF Searching, Saved
          <5> QED
            BY <1>1, <1>3, <1>4, <1>5, <2>1, <2>5, <5>1, PairsFrame DEF RowsInv
        <4>2. CASE session[s].op = "hash"
          <5>1. /\ session'[s] = next /\ Target(s)' = i
                /\ \A t \in Session : t # s => session'[t] = session[t] /\ Target(t)' = Target(t)
            BY <1>3, <1>4, <1>5, SessionGoes DEF RowsInv, RecordsTyped, Target
          <5>2. /\ \A t \in Session : Saved(session'[t]) => Saved(session[t])
                /\ \A t \in Session : Searching(session'[t]) => Searching(session[t])
                /\ \A t \in Session : Target(t)' = Target(t)
            BY <1>1, <4>2, <5>1 DEF Saved, Searching
          <5> DEFINE then(a, b) == {a, b} \in dismissed \/ <<a, b>> \in records' \/ <<b, a>> \in records'
          <5>3. /\ \A a, b : Listed(a, b) => then(a, b)
                /\ then(i, Item(s)) /\ then(Item(s), i)
            <6>1. records' = records \cup {<<i, Item(s)>>}
              BY <2>1, <4>2
            <6> QED
              BY <6>1 DEF Listed
          <5> HIDE DEF then
          <5>4. PairsHold /\ searched \subseteq Live
            BY <2>5 DEF RowsInv, PairsHold
          <5>t. \A t \in Session : \A a \in ToSet(session[t].todo) :
                    a \in ToSet(session'[t].todo) \/ (t = s /\ a = Item(s))
            BY <1>3, <2>2, <5>1
          <5>5. ASSUME NEW t \in Session, Searching(session'[t]), NEW a \in searched, a # Target(t)
                PROVE  then(a, Target(t)) \/ a \in ToSet(session'[t].todo)
            <6>1. Listed(a, Target(t)) \/ a \in ToSet(session[t].todo)
              BY <5>2, <5>4, <5>5 DEF PairsHold
            <6> QED
              BY <5>3, <5>t, <6>1
          <5>6. ASSUME NEW t \in Session, NEW u \in Session, Searching(session'[t]), Searching(session'[u]),
                       Target(u) # Target(t)
                PROVE  \/ then(Target(t), Target(u))
                       \/ Target(u) \in ToSet(session'[t].todo) \/ Target(t) \in ToSet(session'[u].todo)
            <6>1. \/ Listed(Target(t), Target(u))
                  \/ Target(u) \in ToSet(session[t].todo) \/ Target(t) \in ToSet(session[u].todo)
              BY <5>2, <5>4, <5>6 DEF PairsHold
            <6> QED
              BY <5>3, <5>t, <6>1
          <5>7. /\ searched' \subseteq Live' /\ \A a \in searched' : hashes'[a] # NoPicture
                /\ \A a, b \in searched' : a # b => then(a, b)
                /\ \A t \in Session : Saved(session'[t]) => hashes'[Target(t)'] # NoPicture
            BY <1>1, <2>1, <5>2, <5>3, <5>4 DEF PairsHold, Live
          <5> QED
            <6> USE DEF then
            <6>1. \A a, b \in searched' : a # b => Listed(a, b)'
              BY <1>1, <5>7 DEF Listed
            <6>2. \A t \in Session : Searching(session'[t]) => \A a \in searched' : a # Target(t)' =>
                     Listed(a, Target(t))' \/ a \in ToSet(session'[t].todo)
              BY <1>1, <2>1, <5>2, <5>5 DEF Listed
            <6>3. \A t, u \in Session :
                    Searching(session'[t]) /\ Searching(session'[u]) /\ Target(u)' # Target(t)' =>
                        \/ Listed(Target(t), Target(u))'
                        \/ Target(u)' \in ToSet(session'[t].todo) \/ Target(t)' \in ToSet(session'[u].todo)
              BY <1>1, <5>2, <5>6 DEF Listed
            <6> HIDE DEF then
            <6> QED
              BY <5>7, <6>1, <6>2, <6>3 DEF PairsHold, Saved, Searching
        <4> QED
          BY <1>1, <4>1, <4>2
      <3> QED
        BY <3>4, <3>5
    <2> QED
      BY <1>1, <2>4, <2>5 DEF RowsInv
  <1>6. CASE Recorded(s)
    <2>1. /\ session[s].todo = <<>> /\ Goes(s, Idle) /\ UNCHANGED records
          /\ searched' = IF session[s].op = "hash" THEN searched \cup {i} ELSE searched
      BY <1>6 DEF Recorded, End, OnlyPairs
    <2>2. RecordsTyped'
      BY <1>1, <2>1, IdleKnows, TypesFrame DEF RowsInv, RecordsTyped, Tables
    <2>3. ASSUME calm
          PROVE  RowsHold' /\ PairsHold'
      <3>1. \A j \in Id : hashes'[j] \in {NoPicture, photo[j]}
        BY <1>1, <2>3 DEF RowsInv, RowsHold, Described
      <3>2. RowsHold'
        BY <1>1, <2>1, <2>3, <3>1, IdleKnows, RowsFrame DEF RowsInv
      <3>3. /\ session'[s] = Idle
            /\ \A t \in Session : t # s => session'[t] = session[t] /\ Target(t)' = Target(t)
        BY <2>1, IdleKnows, SessionGoes DEF RowsInv, RecordsTyped, Target
      <3>4. /\ \A t \in Session : Saved(session'[t]) => t # s /\ Saved(session[t])
            /\ \A t \in Session : Searching(session'[t]) => t # s /\ Searching(session[t])
        BY <3>3, IdleKnows
      <3>5. PairsHold /\ searched \subseteq Live
        BY <2>3 DEF RowsInv, PairsHold
      <3>6. \A a, b : Listed(a, b)' <=> Listed(a, b)
        BY <1>1, <2>1 DEF Listed
      <3>7. ASSUME session[s].op = "hash"
            PROVE  /\ i \in Live /\ hashes[i] # NoPicture
                   /\ \A a \in searched : a # i => Listed(a, i) /\ Listed(i, a)
                   /\ \A t \in Session : Searching(session[t]) /\ Target(t) # i =>
                         Listed(i, Target(t)) \/ i \in ToSet(session[t].todo)
        <4>1. Searching(session[s]) /\ Saved(session[s])
          BY <1>1, <3>7 DEF Searching, Saved
        <4>2. ToSet(session[s].todo) = {}
          BY <2>1 DEF ToSet
        <4>3. \A a \in searched : a # i => Listed(a, i)
          BY <3>5, <4>1, <4>2 DEF PairsHold
        <4>4. \A a : Listed(a, i) => Listed(i, a)
          BY DEF Listed
        <4> QED
          BY <1>2, <2>3, <3>5, <4>1, <4>2, <4>3, <4>4 DEF PairsHold
      <3>8. /\ searched' \subseteq Live' /\ \A a \in searched' : hashes'[a] # NoPicture
            /\ \A a, b \in searched' : a # b => Listed(a, b)'
        BY <1>1, <2>1, <3>5, <3>6, <3>7 DEF PairsHold, Live
      <3>9. ASSUME NEW t \in Session, Searching(session'[t]), NEW a \in searched', a # Target(t)'
            PROVE  Listed(a, Target(t)') \/ a \in ToSet(session'[t].todo)
        BY <2>1, <3>3, <3>4, <3>5, <3>7, <3>9 DEF PairsHold
      <3>10. \A t, u \in Session :
                Searching(session'[t]) /\ Searching(session'[u]) /\ Target(u)' # Target(t)' =>
                    \/ Listed(Target(t), Target(u))'
                    \/ Target(u)' \in ToSet(session'[t].todo) \/ Target(t)' \in ToSet(session'[u].todo)
        BY <1>1, <2>1, <3>3, <3>4, <3>5 DEF PairsHold, Listed
      <3>11. \A t \in Session : Saved(session'[t]) => hashes'[Target(t)'] # NoPicture
        BY <1>1, <3>3, <3>4, <3>5 DEF PairsHold
      <3>12. \A t \in Session : Searching(session'[t]) =>
                \A a \in searched' : a # Target(t)' => Listed(a, Target(t))' \/ a \in ToSet(session'[t].todo)
        BY <1>1, <2>1, <3>9 DEF Listed
      <3>13. PairsHold'
        BY <3>8, <3>10, <3>11, <3>12 DEF PairsHold, Saved, Searching
      <3> QED
        BY <3>2, <3>13
    <2> QED
      BY <1>1, <2>2, <2>3 DEF RowsInv
  <1> QED
    BY <1>5, <1>6

\* Rows other than a photo's own are taken away, sessions and hashes stay.
LEMMA StaysFrame ==
    ASSUME RowsInv, UNCHANGED <<photo, disk, hashes, searched, calm, session>>,
           links' \subseteq links, records' \subseteq records, dismissed \subseteq dismissed',
           \A p \in records : p \in records' \/ {p[1], p[2]} \in dismissed'
    PROVE  RowsInv'
  <1>1. RecordsTyped'
    BY DEF RowsInv, RecordsTyped, Shaped, Tables, Typed
  <1>2. ASSUME calm
        PROVE  RowsHold' /\ PairsHold'
    <2>1. \A t \in Session : Target(t)' = Target(t)
      BY DEF Target
    <2>2. RowsHold'
      <3>1. Described' /\ Distinct'
        BY <1>2 DEF RowsInv, RowsHold, Described, Distinct, Live
      <3>2. LeftAlone'
        BY <1>2, <2>1 DEF RowsInv, RowsHold, LeftAlone, Leaves, Left, Doing, Live
      <3>3. \A t \in Session : SeesPhoto(session[t]) => SeesPhoto(session[t])'
        BY DEF SeesPhoto, Live
      <3> QED
        BY <1>2, <3>1, <3>2, <3>3 DEF RowsInv, RowsHold
    <2>3. \A a, b : Listed(a, b) => Listed(a, b)'
      <3> SUFFICES ASSUME NEW a, NEW b, Listed(a, b)
                   PROVE  Listed(a, b)'
        OBVIOUS
      <3>1. {a, b} = {b, a}
        OBVIOUS
      <3>2. CASE {a, b} \in dismissed
        BY <3>2 DEF Listed
      <3>3. CASE <<a, b>> \in records
        BY <3>3 DEF Listed
      <3>4. CASE <<b, a>> \in records
        <4>1. <<b, a>> \in records' \/ {b, a} \in dismissed'
          BY <3>4
        <4> QED
          BY <3>1, <4>1 DEF Listed
      <3> QED
        BY <3>2, <3>3, <3>4 DEF Listed
    <2>4. PairsHold'
      <3>1. PairsHold
        BY <1>2 DEF RowsInv
      <3> QED
        BY <2>1, <2>3, <3>1 DEF PairsHold, Saved, Searching, Live
    <2> QED
      BY <2>2, <2>4
  <1> QED
    BY <1>1, <1>2 DEF RowsInv

\* A user dismisses a pair or takes a link away, a place is found for a photo.
LEMMA EditsKeepRows ==
    ASSUME RowsInv,
           \/ \E p \in Pair : DismissDuplicate(p)
           \/ \E i, label : Unlink(i, label)
           \/ \E i, place : Geocode(i, place)
    PROVE  RowsInv'
  <1>1. CASE \E p \in Pair : DismissDuplicate(p)
    <2>1. PICK p \in Pair : DismissDuplicate(p)
      BY <1>1
    <2> QED
      BY <2>1, StaysFrame DEF DismissDuplicate
  <1>2. CASE \E i, label : Unlink(i, label)
    BY <1>2, StaysFrame DEF Unlink, OnlyLinks, aux
  <1>3. CASE \E i, place : Geocode(i, place)
    BY <1>3, StaysFrame DEF Geocode
  <1> QED
    BY <1>1, <1>2, <1>3

\* The backend ends: nobody is in a search or has a file to remove.
LEMMA KillKeepsRows ==
    ASSUME RowsInv, Kill
    PROVE  RowsInv'
  <1>1. /\ \A s \in Session : session'[s] = Idle
        /\ DOMAIN session' = Session
        /\ UNCHANGED <<photo, disk, links, hashes, records, dismissed, searched, calm>>
    BY DEF Kill
  <1>2. RecordsTyped'
    BY <1>1, IdleKnows DEF RowsInv, RecordsTyped, Shaped, Tables, Typed
  <1>3. ASSUME calm
        PROVE  RowsHold' /\ PairsHold'
    <2>1. Described' /\ Distinct'
      BY <1>1, <1>3 DEF RowsInv, RowsHold, Described, Distinct, Live
    <2>2. \A s \in Session : ~Leaves(s)' /\ ~Saved(session'[s]) /\ ~Searching(session'[s])
      BY <1>1, IdleKnows DEF Leaves, Doing
    <2>3. \A s \in Session : SeesPhoto(session[s])'
      BY <1>1, IdleKnows DEF SeesPhoto, OfPhoto, Annotation
    <2>4. RowsHold'
      BY <2>1, <2>2, <2>3 DEF RowsHold, LeftAlone
    <2>5. PairsHold /\ (\A a, b \in searched : a # b => Listed(a, b)')
      BY <1>1, <1>3 DEF RowsInv, PairsHold, Listed
    <2>6. PairsHold'
      BY <1>1, <2>2, <2>5 DEF PairsHold, Live, Saved, Searching
    <2> QED
      BY <2>4, <2>6
  <1> QED
    BY <1>1, <1>2, <1>3 DEF RowsInv

\* The highest id is that of a photo that is there, and none is above it.
LEMMA HighestIsMaximal ==
    ASSUME NEW i \in Live
    PROVE  Highest \in Live /\ i <= Highest
  <1> DEFINE below == {MaxPhotos - j : j \in Live}
  <1>1. below \subseteq Nat /\ below # {} /\ MaxPhotos \in Nat /\ Live \subseteq Id
    BY LibraryAssumption DEF Live, Id
  <1>2. PICK n \in below : \A m \in below : ~(<<m, n>> \in OpToRel(<, Nat))
    BY <1>1, NatLessThanWellFounded, WFMin
  <1>3. \A m \in below : ~(m < n)
    BY <1>1, <1>2 DEF OpToRel
  <1>4. PICK h \in Live : n = MaxPhotos - h
    OBVIOUS
  <1>5. ASSUME NEW j \in Live
        PROVE  j <= h
    <2>1. MaxPhotos - j \in below
      OBVIOUS
    <2> HIDE DEF below
    <2>2. ~(MaxPhotos - j < MaxPhotos - h)
      BY <1>3, <1>4, <2>1
    <2>3. j \in Nat /\ h \in Nat
      BY <1>1 DEF Id
    <2> QED
      BY <1>1, <2>2, <2>3
  <1> QED
    BY <1>4, <1>5 DEF Highest

\* The id of a new photo is free.
LEMMA NewIdIsFree ==
    ASSUME NEW p, AddPhoto(p)
    PROVE  Highest + 1 \in Id /\ Highest + 1 \notin Live
  <1>1. Live \subseteq Id /\ MaxPhotos \in Nat
    BY LibraryAssumption DEF Live
  <1>2. CASE Live = {}
    BY <1>1, <1>2 DEF Highest, AddPhoto, Id
  <1>3. CASE Live # {}
    <2>1. Highest \in Live /\ \A j \in Live : j <= Highest
      BY <1>3, HighestIsMaximal
    <2> QED
      BY <1>1, <2>1 DEF AddPhoto, Id
  <1> QED
    BY <1>2, <1>3

\* A new photo: its id is free, and so is its picture.
LEMMA AddsKeepRows ==
    ASSUME RowsInv, NEW p \in Picture, AddPhoto(p)
    PROVE  RowsInv'
  <1> DEFINE n == Highest + 1
  <1>1. /\ p \notin disk /\ photo' = [photo EXCEPT ![n] = p] /\ disk' = disk \cup {p}
        /\ UNCHANGED <<links, hashes, records, session, dismissed, searched, calm>>
    BY DEF AddPhoto, aux
  <1>2. n \in Id /\ n \notin Live
    BY NewIdIsFree
  <1> HIDE DEF n
  <1>3. /\ photo'[n] = p /\ \A j \in Id : j # n => photo'[j] = photo[j]
        /\ photo[n] = NoPicture /\ Live' = Live \cup {n}
        /\ photo' \in [Id -> Picture \cup {NoPicture}]
    BY <1>1, <1>2, LibraryAssumption DEF RowsInv, RecordsTyped, Tables, Live
  <1>4. RecordsTyped'
    BY <1>1, <1>3 DEF RowsInv, RecordsTyped, Shaped, Tables, Typed
  <1>5. ASSUME calm
        PROVE  RowsHold' /\ PairsHold'
    <2>1. Described' /\ Distinct'
      <3>1. Described /\ Distinct /\ Live \subseteq Id
        BY <1>5 DEF RowsInv, RowsHold, Live
      <3>2. \A l \in links' : l.id \in Live' /\ photo'[l.id] = l.of
        BY <1>1, <1>2, <1>3, <3>1 DEF Described
      <3>3. \A i \in Id : hashes'[i] \in {NoPicture, photo'[i]}
        BY <1>1, <1>3, <3>1 DEF Described
      <3>4. \A q \in records' : q[1] \in Live' /\ q[2] \in Live'
        BY <1>1, <1>3, <3>1 DEF Described
      <3>5. \A i \in Live' : photo'[i] \in disk'
        BY <1>1, <1>2, <1>3, <3>1 DEF Described
      <3>6. \A i, j \in Live' : photo'[i] = photo'[j] => i = j
        BY <1>1, <1>2, <1>3, <3>1 DEF Described, Distinct
      <3> QED
        BY <3>2, <3>3, <3>4, <3>5, <3>6 DEF Described, Distinct
    <2>2. LeftAlone'
      <3>1. \A s \in Session : (Leaves(s)' <=> Leaves(s)) /\ Left(s)' = Left(s)
        BY <1>1 DEF Leaves, Left, Doing, Target
      <3>2. LeftAlone /\ Live \subseteq Id
        BY <1>5 DEF RowsInv, RowsHold, Live
      <3> QED
        BY <1>1, <1>2, <1>3, <3>1, <3>2 DEF LeftAlone
    <2>3. \A s \in Session : SeesPhoto(session[s])'
      <3>1. \A j \in Live : j \in Live' /\ photo'[j] = photo[j]
        BY <1>2, <1>3 DEF Live
      <3>2. \A s \in Session : SeesPhoto(session[s])
        BY <1>5 DEF RowsInv, RowsHold
      <3> QED
        BY <1>1, <3>1, <3>2 DEF SeesPhoto
    <2>4. PairsHold'
      BY <1>1, <1>3, <1>5 DEF RowsInv, PairsHold, Saved, Searching, Target, Listed
    <2> QED
      BY <2>1, <2>2, <2>3, <2>4 DEF RowsHold
  <1> QED
    BY <1>1, <1>4, <1>5 DEF RowsInv

\* The rows of a photo go with it, unless a session or the history still names it; then its
\* file, which is nobody else's.
LEMMA DeletesKeepRows ==
    ASSUME RowsInv, NEW s \in Session, DeleteCommits(s) \/ DeleteFile(s)
    PROVE  RowsInv'
  <1> DEFINE i == Target(s)
             next == [session[s] EXCEPT !.at = "file"]
  <1>1. /\ session[s].op = "delete" /\ i \in Id /\ DOMAIN session[s] = Fields /\ Typed(session[s])
        /\ session[s].of \in [Id -> Picture \cup {NoPicture}]
    <2>1. session[s].op = "delete"
      BY DEF DeleteCommits, DeleteFile, Doing
    <2> QED
      BY <2>1, TargetIsId DEF RowsInv, RecordsTyped, Shaped, Typed, OfPhoto
  <1>2. /\ DOMAIN next = Fields /\ next.op = "delete" /\ next.at = "file"
        /\ next.ids = session[s].ids /\ next.of = session[s].of /\ next.todo = session[s].todo
    BY <1>1 DEF Fields
  <1> HIDE DEF next
  <1>3. CASE DeleteFile(s)
    <2>1. /\ disk' = disk \ {Left(s)} /\ Goes(s, Idle) /\ Leaves(s)
          /\ UNCHANGED <<photo, links, hashes, records, dismissed, searched, calm>>
      BY <1>3 DEF DeleteFile, Left, End, Leaves, aux
    <2>2. RecordsTyped'
      BY <2>1, IdleKnows, TypesFrame DEF RowsInv, RecordsTyped, Tables
    <2>3. ASSUME calm
          PROVE  RowsHold' /\ PairsHold'
      <3>1. PairsHold'
        BY <2>1, <2>3, IdleKnows, PairsFrame DEF RowsInv
      <3>2. session'[s] = Idle /\ \A t \in Session : t # s => session'[t] = session[t]
        BY <2>1, IdleKnows, SessionGoes DEF RowsInv, RecordsTyped
      <3>3. \A t \in Session : Leaves(t)' => t # s /\ Leaves(t) /\ Left(t)' = Left(t)
        BY <3>2, IdleKnows DEF Leaves, Left, Doing, Target
      <3>4. Described' /\ Distinct'
        BY <2>1, <2>3 DEF RowsInv, RowsHold, Described, Distinct, LeftAlone, Live
      <3>5. LeftAlone'
        BY <2>1, <2>3, <3>3 DEF RowsInv, RowsHold, LeftAlone, Live
      <3>6. \A t \in Session : SeesPhoto(session[t])'
        <4>1. \A t \in Session : SeesPhoto(session'[t])
          BY <2>3, <3>2, IdleKnows DEF RowsInv, RowsHold
        <4> QED
          BY <2>1, <4>1 DEF SeesPhoto, Live
      <3> QED
        BY <3>1, <3>4, <3>5, <3>6 DEF RowsHold
    <2> QED
      BY <2>1, <2>2, <2>3 DEF RowsInv
  <1>4. CASE DeleteCommits(s) /\ i \notin Live
    BY <1>4, EndFrame DEF DeleteCommits
  <1>5. CASE DeleteCommits(s) /\ i \in Live
    <2>1. /\ DeleteRows(i) /\ dismissed' = {p \in dismissed : i \notin p} /\ searched' = searched \ {i}
          /\ calm' = (calm /\ ~Named(i, s)) /\ Goes(s, next) /\ UNCHANGED disk /\ session[s].at = "write"
      BY <1>5 DEF DeleteCommits, Doing, next
    <2>2. /\ \A j \in Id : j # i => photo'[j] = photo[j] /\ hashes'[j] = hashes[j]
          /\ photo'[i] = NoPicture /\ hashes'[i] = NoPicture /\ Tables'
          /\ Live' = Live \ {i} /\ Live \subseteq Id
      BY <1>1, <2>1 DEF DeleteRows, Live, RowsInv, RecordsTyped, Tables
    <2>3. Typed(next)
      BY <1>1, <1>2, <2>1 DEF Typed, OfPhoto, Annotation
    <2>4. RecordsTyped'
      BY <1>2, <2>1, <2>2, <2>3, TypesFrame DEF RowsInv
    <2>5. /\ session'[s] = next
          /\ \A t \in Session : t # s => session'[t] = session[t] /\ Target(t)' = Target(t)
          /\ Target(s)' = i
      BY <1>2, <2>1, SessionGoes DEF RowsInv, RecordsTyped, Target
    <2>6. ASSUME calm'
          PROVE  RowsHold' /\ PairsHold'
      <3>1. /\ calm /\ RowsHold /\ PairsHold
            /\ \A t \in Session : t # s => i \notin ToSet(session[t].ids)
            /\ \A t \in Session : t # s /\ session[t].at = "record" => i \notin ToSet(session[t].todo)
        BY <2>1, <2>6 DEF RowsInv, Named
      <3>2. \A t \in Session : t # s /\ session[t].op \in OfPhoto => Target(t) \in Id /\ Target(t) # i
        BY <3>1, TargetIsId DEF RowsInv
      <3>3. Described' /\ Distinct'
        <4>1. \A l \in links' : l.id \in Live' /\ photo'[l.id] = l.of
          BY <2>1, <2>2, <3>1 DEF DeleteRows, RowsHold, Described
        <4>2. \A j \in Id : hashes'[j] \in {NoPicture, photo'[j]}
          BY <2>2, <3>1 DEF RowsHold, Described
        <4>3. \A p \in records' : p[1] \in Live' /\ p[2] \in Live'
          BY <2>1, <2>2, <3>1 DEF DeleteRows, RowsHold, Described
        <4>4. \A j \in Live' : photo'[j] \in disk'
          BY <2>1, <2>2, <3>1 DEF RowsHold, Described
        <4>5. \A j, k \in Live' : photo'[j] = photo'[k] => j = k
          BY <2>2, <3>1 DEF RowsHold, Distinct
        <4> QED
          BY <4>1, <4>2, <4>3, <4>4, <4>5 DEF Described, Distinct
      <3>4. /\ Left(s)' = photo[i] /\ photo[i] \in disk
            /\ \A t \in Session : t # s => (Leaves(t)' <=> Leaves(t)) /\ Left(t)' = Left(t)
        <4>1. Left(s)' = session[s].of[i]
          BY <1>2, <2>5 DEF Left
        <4>2. session[s].of[i] = photo[i]
          BY <1>1, <2>1, <3>1 DEF RowsHold, SeesPhoto, OfPhoto, Target
        <4>3. photo[i] \in disk
          BY <1>5, <3>1 DEF RowsHold, Described
        <4> QED
          BY <2>5, <4>1, <4>2, <4>3 DEF Leaves, Left, Doing
      <3>5. LeftAlone'
        <4> SUFFICES ASSUME NEW t \in Session, Leaves(t)'
                     PROVE  /\ Left(t)' \in disk'
                            /\ \A j \in Live' : photo'[j] # Left(t)'
                            /\ \A u \in Session \ {t} : Leaves(u)' => Left(u)' # Left(t)'
          BY DEF LeftAlone
        <4>1. LeftAlone /\ Distinct
          BY <3>1 DEF RowsHold
        <4>2. CASE t = s
          <5>1. \A j \in Live' : photo'[j] # photo[i]
            BY <1>5, <2>2, <4>1 DEF Distinct
          <5>2. \A u \in Session \ {s} : Leaves(u)' => Left(u)' # photo[i]
            BY <1>5, <3>4, <4>1 DEF LeftAlone
          <5> QED
            BY <2>1, <3>4, <4>2, <5>1, <5>2
        <4>3. CASE t # s
          <5>1. Leaves(t) /\ Left(t)' = Left(t) /\ photo[i] # Left(t)
            BY <1>5, <3>4, <4>1, <4>3 DEF LeftAlone
          <5>2. \A u \in Session \ {t} : Leaves(u)' => Left(u)' # Left(t)
            BY <3>4, <4>1, <4>3, <5>1 DEF LeftAlone
          <5> QED
            BY <2>1, <2>2, <4>1, <5>1, <5>2 DEF LeftAlone
        <4> QED
          BY <4>2, <4>3
      <3>6. \A t \in Session : SeesPhoto(session[t])'
        <4>1. ASSUME NEW t \in Session, t # s
              PROVE  SeesPhoto(session[t])'
          <5>1. SeesPhoto(session[t]) /\ Typed(session[t])
            BY <3>1 DEF RowsHold, RowsInv, RecordsTyped
          <5>2. session[t].op \in OfPhoto => Head(session[t].ids) # i
            BY <3>2, <4>1 DEF Target
          <5>3. session[t].op \in Annotation => i \notin session[t].new
            BY <3>1, <4>1, <5>1 DEF Typed
          <5>4. session[t].op = "hash" /\ session[t].at = "record" => i \notin ToSet(session[t].todo)
            BY <3>1, <4>1
          <5> QED
            BY <2>2, <2>5, <4>1, <5>1, <5>2, <5>3, <5>4 DEF SeesPhoto
        <4>2. SeesPhoto(session[s])'
          BY <1>2, <2>5 DEF SeesPhoto, Annotation
        <4> QED
          BY <4>1, <4>2
      <3>7. PairsHold'
        <4>1. \A t \in Session : Saved(session'[t]) =>
                 /\ t # s /\ Saved(session[t]) /\ session'[t] = session[t]
                 /\ Target(t)' = Target(t) /\ Target(t) \in Id \ {i}
          BY <1>2, <2>5, <3>2 DEF Saved, OfPhoto
        <4>2. \A t \in Session : Searching(session'[t]) => Saved(session'[t]) /\ Searching(session[t])
          BY <1>2, <2>5 DEF Saved, Searching
        <4>3. ASSUME NEW a, NEW b, a # i, b # i, Listed(a, b)
              PROVE  {a, b} \in dismissed' \/ <<a, b>> \in records' \/ <<b, a>> \in records'
          BY <2>1, <4>3 DEF DeleteRows, Listed
        <4>4. /\ searched' \subseteq Live' /\ searched' \subseteq searched \ {i}
              /\ \A a \in searched' : hashes'[a] # NoPicture
          BY <2>1, <2>2, <3>1 DEF PairsHold
        <4>5. \A t \in Session : Saved(session'[t]) => hashes'[Target(t)'] # NoPicture
          BY <2>2, <3>1, <4>1 DEF PairsHold
        <4>6. \A a, b \in searched' : a # b => Listed(a, b)'
          BY <3>1, <4>3, <4>4 DEF PairsHold, Listed
        <4>7. ASSUME NEW t \in Session, Searching(session'[t]), NEW a \in searched', a # Target(t)'
              PROVE  Listed(a, Target(t))' \/ a \in ToSet(session'[t].todo)
          <5>1. Listed(a, Target(t)) \/ a \in ToSet(session[t].todo)
            BY <3>1, <4>1, <4>2, <4>4, <4>7 DEF PairsHold
          <5> QED
            BY <4>1, <4>2, <4>3, <4>4, <4>7, <5>1 DEF Listed
        <4>8. ASSUME NEW t \in Session, NEW u \in Session, Searching(session'[t]), Searching(session'[u]),
                     Target(u)' # Target(t)'
              PROVE  \/ Listed(Target(t), Target(u))'
                     \/ Target(u)' \in ToSet(session'[t].todo) \/ Target(t)' \in ToSet(session'[u].todo)
          <5>1. /\ Target(t)' = Target(t) /\ Target(u)' = Target(u) /\ Target(t) # i /\ Target(u) # i
                /\ session'[t] = session[t] /\ session'[u] = session[u]
            BY <4>1, <4>2, <4>8
          <5>2. \/ Listed(Target(t), Target(u))
                \/ Target(u) \in ToSet(session[t].todo) \/ Target(t) \in ToSet(session[u].todo)
            BY <3>1, <4>2, <4>8, <5>1 DEF PairsHold
          <5> QED
            BY <4>3, <5>1, <5>2 DEF Listed
        <4> QED
          BY <4>4, <4>5, <4>6, <4>7, <4>8 DEF PairsHold, Saved, Searching
      <3> QED
        BY <3>3, <3>5, <3>6, <3>7 DEF RowsHold
    <2> QED
      BY <2>4, <2>6 DEF RowsInv
  <1> QED
    BY <1>3, <1>4, <1>5

\* Every action keeps what is stored and what sessions know.
LEMMA StepRows == RowsInv /\ [Next]_vars => RowsInv'
  <1> SUFFICES ASSUME RowsInv, [Next]_vars
               PROVE  RowsInv'
    OBVIOUS
  <1>1. ASSUME NEW s \in Session, NEW i \in Id,
               \/ DeleteBegins(s, i) \/ HashBegin(s, "hash", i) \/ HashBegin(s, "compare", i)
               \/ \E found \in Listings(Tag) : TagsBegin(s, i, found)
               \/ \E found \in Listings(Category) : CategoriesBegin(s, i, found)
               \/ \E others \in Listings(Id) : MarkBegin(s, i, others)
               \/ \E label \in Label : LinkBegin(s, i, label)
        PROVE  RowsInv'
    BY <1>1, BeginsKeepRows
  <1>2. ASSUME NEW s \in Session,
               \/ DeleteCommits(s) \/ DeleteFile(s) \/ TagsLock(s) \/ TagsCommit(s)
               \/ CategoriesLook(s) \/ CategoryCreated(s) \/ CategoriesCommit(s)
               \/ Hashes(s) \/ RecordPair(s) \/ Recorded(s)
               \/ AnnotateLook(s) \/ AnnotateWrite(s) \/ AnnotateEnd(s)
               \/ UndoBegin(s) \/ UndoForget(s) \/ LinkCommit(s)
        PROVE  RowsInv'
    BY <1>2, DeletesKeepRows, LinksKeepRows, SearchesKeepRows, RecordsKeepRows, NotesKeepRows,
       BeginsKeepRows
  <1>3. ASSUME NEW s \in Session, NEW ids \in Listings(Id),
               \/ \E tag \in Tag : AnnotateBegin(s, "add_tag", ids, tag)
               \/ \E category \in Category : AnnotateBegin(s, "add_category", ids, category)
               \/ \E place \in Place : AnnotateBegin(s, "add_geoposition", ids, place)
        PROVE  RowsInv'
    <2>1. \E op \in Annotation : \E label : AnnotateBegin(s, op, ids, label)
      BY <1>3 DEF Annotation
    <2> QED
      BY <2>1, BeginsKeepRows
  <1>4. CASE \E p \in Picture : AddPhoto(p)
    BY <1>4, AddsKeepRows
  <1>5. CASE \/ \E p \in Pair : DismissDuplicate(p)
             \/ \E i \in Id : \/ \E label \in Label : Unlink(i, label)
                              \/ \E place \in Place : Geocode(i, place)
    BY <1>5, EditsKeepRows
  <1>6. CASE Kill
    BY <1>6, KillKeepsRows
  <1>7. CASE UNCHANGED vars
    BY <1>7, StaysFrame DEF vars, aux
  <1> QED
    BY <1>1, <1>2, <1>3, <1>4, <1>5, <1>6, <1>7 DEF Next, Hashes

\* What is stored, and what sessions know of it, holds in every reachable state.
THEOREM RowsInvariance == Spec => []RowsInv
  <1>1. ASSUME Init
        PROVE  RowsInv
    <2>1. \A s \in Session : session[s] = Idle
      BY <1>1 DEF Init
    <2>2. RecordsTyped
      BY <1>1, <2>1, IdleKnows DEF Init, RecordsTyped, Shaped, Tables
    <2>3. Live = {} /\ links = {} /\ records = {} /\ searched = {}
          /\ \A i \in Id : hashes[i] = NoPicture
      BY <1>1 DEF Init, Live
    <2>4. \A s \in Session : ~Leaves(s) /\ ~Saved(session[s]) /\ ~Searching(session[s])
                             /\ SeesPhoto(session[s])
      BY <2>1, IdleKnows DEF Leaves, Doing
    <2>5. RowsHold
      BY <2>3, <2>4 DEF RowsHold, Described, Distinct, LeftAlone
    <2>6. PairsHold
      BY <2>3, <2>4 DEF PairsHold
    <2> QED
      BY <2>2, <2>5, <2>6 DEF RowsInv
  <1> QED
    BY <1>1, StepRows, PTL DEF Spec

\* However tasks, tools, edits and deletions meet: while nothing was deleted that an operation
\* or the history named, the links, hash, records and file of an id are of its photo.
THEOREM RowsAreOfTheirPhotos == Spec => []RowsDescribeTheirPhotos
  <1>1. RowsInv => RowsDescribeTheirPhotos
    BY DEF RowsInv, RowsHold, Described, RowsDescribeTheirPhotos
  <1> QED
    BY <1>1, RowsInvariance, PTL

\* Of two photos whose hash tasks ended, whichever searched last found the other: the pair is
\* listed, or a user dismissed it.
THEOREM NearDuplicatesAreFound == Spec => []PairsAreFound
  <1>1. ASSUME RowsInv
        PROVE  PairsAreFound
    <2> SUFFICES ASSUME calm, NEW p \in Pair, {p[1], p[2]} \subseteq searched,
                        {p[1], p[2]} \notin dismissed
                 PROVE  Shown(p) \/ Shown(<<p[2], p[1]>>)
      BY DEF PairsAreFound
    <2>1. p = <<p[1], p[2]>> /\ p[1] # p[2] /\ p[1] \in searched /\ p[2] \in searched
      BY DEF Pair
    <2>2. hashes[p[1]] # NoPicture /\ hashes[p[2]] # NoPicture /\ Listed(p[1], p[2])
      BY <1>1, <2>1 DEF RowsInv, PairsHold
    <2> QED
      BY <2>1, <2>2 DEF Listed, Shown
  <1> QED
    BY <1>1, RowsInvariance, PTL

--------------------------------------------------------------------------------
(* Where the history puts a photo *)

\* A row of the history that gave the photo a place; the place the first n rows leave it
\* at, over the one it has without them.
Moving(x) == x.op = "add_geoposition"
Sets(x, i) == Moving(x) /\ i \in ToSet(x.ids)
Put(past, base, i, n, v) ==
    \/ (\A h \in 1 .. n : ~Sets(past[h], i)) /\ v = base
    \/ \E h \in 1 .. n : /\ Sets(past[h], i) /\ v = past[h].label
                         /\ \A k \in 1 .. n : h < k => ~Sets(past[k], i)

\* Only the rows counted matter.
LEMMA PutAlike ==
    ASSUME NEW past, NEW other, NEW base, NEW i, NEW n, NEW v,
           Put(past, base, i, n, v), \A h \in 1 .. n : past[h] = other[h]
    PROVE  Put(other, base, i, n, v)
  BY DEF Put

\* One more row: it puts the photo at its own place, or nowhere else.
LEMMA PutMore ==
    ASSUME NEW past, NEW base, NEW i, NEW n \in Nat, NEW v
    PROVE  /\ Sets(past[n + 1], i) => Put(past, base, i, n + 1, past[n + 1].label)
           /\ ~Sets(past[n + 1], i) /\ Put(past, base, i, n, v) => Put(past, base, i, n + 1, v)
           /\ ~Sets(past[n + 1], i) /\ Put(past, base, i, n + 1, v) => Put(past, base, i, n, v)
  <1>1. 1 .. (n + 1) = (1 .. n) \cup {n + 1} /\ \A k \in 1 .. n : ~(n + 1 < k)
    OBVIOUS
  <1>2. ~(n + 1 < n + 1) /\ n + 1 \in 1 .. (n + 1) /\ \A k \in 1 .. n : k < n + 1
    OBVIOUS
  <1>3. Sets(past[n + 1], i) => Put(past, base, i, n + 1, past[n + 1].label)
    BY <1>1, <1>2 DEF Put
  <1>4. ~Sets(past[n + 1], i) /\ Put(past, base, i, n, v) => Put(past, base, i, n + 1, v)
    BY <1>1 DEF Put
  <1>5. ~Sets(past[n + 1], i) /\ Put(past, base, i, n + 1, v) => Put(past, base, i, n, v)
    BY <1>1 DEF Put
  <1> QED
    BY <1>3, <1>4, <1>5

\* A photo no row moved is where it is without them.
LEMMA PutNowhere ==
    ASSUME NEW past, NEW i, NEW n, \A h \in 1 .. n : ~Sets(past[h], i)
    PROVE  \A base, v : Put(past, base, i, n, v) <=> v = base
  BY DEF Put

\* The head of a list without repetitions is not in its tail.
LEMMA TailDistinct ==
    ASSUME NEW S, NEW q \in Seq(S), q # <<>>, IsInjective(q)
    PROVE  IsInjective(Tail(q)) /\ Head(q) \notin ToSet(Tail(q))
  <1>1. Len(q) \in Nat \ {0} /\ DOMAIN q = 1 .. Len(q)
    OBVIOUS
  <1>2. /\ Head(q) = q[1] /\ Tail(q) \in Seq(S) /\ Len(Tail(q)) = Len(q) - 1
        /\ \A k \in 1 .. (Len(q) - 1) : Tail(q)[k] = q[k + 1]
    BY HeadTailProperties
  <1>3. DOMAIN Tail(q) = 1 .. (Len(q) - 1)
    BY <1>2
  <1>4. \A a, b \in 1 .. Len(q) : q[a] = q[b] => a = b
    BY <1>1 DEF IsInjective
  <1>5. ASSUME NEW a \in 1 .. (Len(q) - 1), NEW b \in 1 .. (Len(q) - 1), Tail(q)[a] = Tail(q)[b]
        PROVE  a = b
    <2>1. a + 1 \in 1 .. Len(q) /\ b + 1 \in 1 .. Len(q) /\ q[a + 1] = q[b + 1]
      BY <1>1, <1>2, <1>5
    <2>2. a + 1 = b + 1
      BY <1>4, <2>1
    <2> QED
      BY <2>2
  <1>6. ASSUME NEW a \in 1 .. (Len(q) - 1)
        PROVE  Tail(q)[a] # Head(q)
    <2>1. a + 1 \in 1 .. Len(q) /\ 1 \in 1 .. Len(q) /\ a + 1 # 1
      BY <1>1
    <2> QED
      BY <1>2, <1>4, <2>1
  <1> QED
    BY <1>3, <1>5, <1>6 DEF IsInjective, ToSet

\* What is appended is a member, and nothing else is new.
LEMMA AppendMembers ==
    ASSUME NEW S, NEW q \in Seq(S), NEW e \in S
    PROVE  /\ Append(q, e) \in Seq(S) /\ ToSet(Append(q, e)) = ToSet(q) \cup {e}
           /\ Append(q, e) # <<>> /\ Len(Append(q, e)) = Len(q) + 1
           /\ Append(q, e)[Len(q) + 1] = e
           /\ \A h \in 1 .. Len(q) : Append(q, e)[h] = q[h]
  <1>1. /\ Append(q, e) \in Seq(S) /\ Len(Append(q, e)) = Len(q) + 1
        /\ \A h \in 1 .. Len(q) : Append(q, e)[h] = q[h]
        /\ Append(q, e)[Len(q) + 1] = e
    BY AppendProperties
  <1>2. /\ DOMAIN q = 1 .. Len(q) /\ DOMAIN Append(q, e) = 1 .. (Len(q) + 1)
        /\ 1 .. (Len(q) + 1) = (1 .. Len(q)) \cup {Len(q) + 1}
    BY <1>1
  <1> QED
    BY <1>1, <1>2 DEF ToSet

\* The last of a sequence, removed.
LEMMA WithoutLast ==
    ASSUME NEW S, NEW q \in Seq(S), q # <<>>
    PROVE  /\ RemoveAt(q, Len(q)) \in Seq(S) /\ Len(RemoveAt(q, Len(q))) = Len(q) - 1
           /\ \A h \in 1 .. (Len(q) - 1) : RemoveAt(q, Len(q))[h] = q[h]
           /\ Len(q) \in Nat \ {0} /\ Last(q) = q[Len(q)] /\ DOMAIN q = 1 .. Len(q)
  <1> DEFINE front == SubSeq(q, 1, Len(q) - 1)
             rest == SubSeq(q, Len(q) + 1, Len(q))
  <1>1. Len(q) \in Nat \ {0} /\ DOMAIN q = 1 .. Len(q)
    OBVIOUS
  <1>2. /\ front \in Seq(S) /\ Len(front) = Len(q) - 1
        /\ \A h \in 1 .. (Len(q) - 1) : front[h] = q[h]
    BY <1>1
  <1>3. rest \in Seq(S) /\ Len(rest) = 0
    BY <1>1
  <1> HIDE DEF front, rest
  <1>4. /\ front \o rest \in Seq(S) /\ Len(front \o rest) = Len(q) - 1
        /\ \A h \in 1 .. (Len(q) - 1) : (front \o rest)[h] = q[h]
    <2>1. /\ front \o rest \in Seq(S) /\ Len(front \o rest) = Len(front) + Len(rest)
          /\ \A h \in 1 .. Len(front) : (front \o rest)[h] = front[h]
      BY <1>2, <1>3, ConcatProperties
    <2> QED
      BY <1>1, <1>2, <1>3, <2>1
  <1>5. RemoveAt(q, Len(q)) = front \o rest
    BY DEF RemoveAt, front, rest
  <1> QED
    BY <1>1, <1>4, <1>5 DEF Last

--------------------------------------------------------------------------------
(* The invariant of the places and the history *)

\* What an annotation's record holds: what it has done is not to be done again.
NoteTyped(x) ==
    x.op \in Annotation =>
        /\ x.key \in 1 .. MaxOps /\ x.label \in Label \cup Place
        /\ Moving(x) <=> x.label \in Place
        /\ x.done \in Seq(Id) /\ x.was \in [Id -> Place \cup {NoPlace}]
        /\ x.at \in {"look", "write"}
        /\ ToSet(x.done) \subseteq ToSet(x.ids) /\ ToSet(x.done) \cap ToSet(x.todo) = {}
        /\ IsInjective(x.todo)
PlacesTyped == /\ places \in [Id -> Place \cup {NoPlace}]
               /\ geocoded \in [Id -> Place \cup {NoPlace}]
NoteRows == {x \in Actions : Moving(x) <=> x.label \in Place}
HistoryTyped == history \in Seq(NoteRows)
NotesTyped == /\ opsLeft \in 0 .. MaxOps /\ PlacesTyped /\ HistoryTyped
              /\ \A s \in Session : NoteTyped(session[s])

\* No two actions have one key, and none has a key that is still to come.
KeysDiffer ==
    /\ \A h, k \in DOMAIN history : history[h].key = history[k].key => h = k
    /\ \A h \in DOMAIN history : history[h].key > opsLeft
    /\ \A s \in Session : session[s].op \in Annotation =>
          session[s].key > opsLeft /\ \A h \in DOMAIN history : history[h].key # session[s].key

\* The photo is where the first n rows leave it; each row knows where its photos were.
Settled(i, n) == Put(history, geocoded[i], i, n, places[i])
Remembered == \A h \in DOMAIN history : \A i \in Id :
                 Sets(history[h], i) => Put(history, geocoded[i], i, h - 1, history[h].was[i])

\* An annotation has moved what it has done and nothing else; an undo has moved its photos
\* back and its row is still the last.
Annotates(x) ==
    x.op \in Annotation =>
        /\ ToSet(x.done) \subseteq Live /\ (x.at = "write" => Head(x.todo) \in Live)
        /\ ~Moving(x) => \A i \in Live : Settled(i, Len(history))
        /\ Moving(x) =>
              /\ \A i \in Live \ ToSet(x.done) : Settled(i, Len(history))
              /\ \A i \in ToSet(x.done) :
                    places[i] = x.label /\ Put(history, geocoded[i], i, Len(history), x.was[i])
              /\ x.at = "write" => x.was[Head(x.todo)] = places[Head(x.todo)]
Undoes(x) ==
    x.op = "undo" =>
        /\ history # <<>> /\ Last(history).key = Head(x.todo)
        /\ x.ids = Last(history).ids /\ x.label = Last(history).label
        /\ \A i \in Live : Settled(i, Len(history) - 1)

OneAgent == \A s, t \in Session : Agent(s) /\ Agent(t) => s = t
HistoryLives == \A h \in DOMAIN history : ToSet(history[h].ids) \subseteq Live
NowhereElse == \A i \in Id \ Live : places[i] = NoPlace /\ geocoded[i] = NoPlace
AllSettled == \A i \in Live : Settled(i, Len(history))

Placed ==
    /\ OneAgent /\ HistoryLives /\ NowhereElse /\ Remembered
    /\ (\A s \in Session : ~Agent(s)) => AllSettled
    /\ \A s \in Session : Annotates(session[s]) /\ Undoes(session[s])

HistoryInv == NotesTyped /\ (calm /\ apart => KeysDiffer /\ Placed)

\* The keys, when the agent's sessions and the history stay.
LEMMA KeysFrame ==
    ASSUME NotesTyped, KeysDiffer, UNCHANGED history, opsLeft' \in 0 .. MaxOps, opsLeft' <= opsLeft,
           \A t \in Session : session'[t].op \in Annotation => session'[t] = session[t]
    PROVE  KeysDiffer'
  <1>1. opsLeft \in Nat /\ opsLeft' \in Nat /\ \A h \in DOMAIN history : history[h].key \in Nat
    <2>1. \A h \in DOMAIN history : history[h] \in Actions
      BY DEF NotesTyped, HistoryTyped, NoteRows
    <2> QED
      BY <2>1, LibraryAssumption DEF NotesTyped, Actions
  <1>2. \A t \in Session : session[t].op \in Annotation => session[t].key \in Nat
    BY LibraryAssumption DEF NotesTyped, NoteTyped
  <1>3. \A h \in DOMAIN history' : history'[h].key > opsLeft'
    BY <1>1 DEF KeysDiffer
  <1>4. ASSUME NEW t \in Session, session'[t].op \in Annotation
        PROVE  session'[t].key > opsLeft' /\ \A h \in DOMAIN history' : history'[h].key # session'[t].key
    BY <1>1, <1>2, <1>4 DEF KeysDiffer
  <1> QED
    BY <1>3, <1>4 DEF KeysDiffer

\* A step that leaves the agent's sessions, the places and the history alone.
LEMMA HistoryFrame ==
    ASSUME HistoryInv, UNCHANGED <<photo, places, geocoded, history>>,
           opsLeft' \in 0 .. MaxOps, opsLeft' <= opsLeft, calm' => calm, apart' => apart,
           \A t \in Session : \/ session'[t] = session[t]
                              \/ session[t].op \notin Annotation \cup {"undo"}
                                 /\ session'[t].op \notin Annotation \cup {"undo"}
    PROVE  HistoryInv'
  <1>1. \A t \in Session : /\ session'[t].op \in Annotation \cup {"undo"} => session'[t] = session[t]
                           /\ Agent(t)' <=> Agent(t)
    BY DEF Agent
  <1>2. NotesTyped'
    BY <1>1 DEF HistoryInv, NotesTyped, PlacesTyped, HistoryTyped, NoteTyped
  <1>3. ASSUME calm', apart'
        PROVE  KeysDiffer' /\ Placed'
    <2>1. KeysDiffer /\ Placed
      BY <1>3 DEF HistoryInv
    <2>4. KeysDiffer'
      BY <1>1, <2>1, KeysFrame DEF HistoryInv
    <2>5. OneAgent' /\ HistoryLives' /\ NowhereElse' /\ Remembered'
      BY <1>1, <2>1 DEF Placed, OneAgent, HistoryLives, NowhereElse, Remembered, Live
    <2>6. (\A t \in Session : ~Agent(t))' => AllSettled'
      BY <1>1, <2>1 DEF Placed, AllSettled, Settled, Live
    <2>7. \A t \in Session : Annotates(session[t])'
      <3>1. \A t \in Session : Annotates(session[t])
        BY <2>1 DEF Placed
      <3> QED
        BY <1>1, <3>1 DEF Annotates, Settled, Live
    <2>8. \A t \in Session : Undoes(session[t])'
      <3>1. \A t \in Session : Undoes(session[t])
        BY <2>1 DEF Placed
      <3> QED
        BY <1>1, <3>1 DEF Undoes, Settled, Live
    <2> QED
      BY <2>4, <2>5, <2>6, <2>7, <2>8 DEF Placed
  <1> QED
    BY <1>2, <1>3 DEF HistoryInv

\* The tasks and edits that are not of the agent.
LEMMA TasksKeepHistory ==
    ASSUME RowsInv, HistoryInv, NEW s \in Session,
           \/ \E i \in Id : \/ DeleteBegins(s, i) \/ HashBegin(s, "hash", i) \/ HashBegin(s, "compare", i)
                            \/ \E found : TagsBegin(s, i, found) \/ CategoriesBegin(s, i, found)
                            \/ \E others : MarkBegin(s, i, others)
                            \/ \E label : LinkBegin(s, i, label)
           \/ TagsLock(s) \/ TagsCommit(s) \/ DeleteFile(s)
           \/ CategoriesLook(s) \/ CategoryCreated(s) \/ CategoriesCommit(s)
           \/ Hashes(s) \/ RecordPair(s) \/ Recorded(s) \/ LinkCommit(s)
    PROVE  HistoryInv'
  <1>1. UNCHANGED <<photo, places, geocoded, history, calm, apart>>
    BY DEF DeleteBegins, HashBegin, TagsBegin, CategoriesBegin, MarkBegin, LinkBegin, TagsLock,
       TagsCommit, DeleteFile, CategoriesLook, CategoryCreated, CategoriesCommit,
       Hashes, HashLook, HashSave, HashFails, HashSearch, HashStored, Hashing,
       RecordPair, Recorded, LinkCommit, OnlyLinks, OnlyPairs, aux
  <1>2. opsLeft' \in 0 .. MaxOps /\ opsLeft' <= opsLeft
    <2>1. opsLeft' = opsLeft \/ (opsLeft > 0 /\ opsLeft' = opsLeft - 1)
      BY DEF DeleteBegins, HashBegin, TagsBegin, CategoriesBegin, MarkBegin, LinkBegin, TagsLock,
         TagsCommit, DeleteFile, CategoriesLook, CategoryCreated, CategoriesCommit,
         Hashes, HashLook, HashSave, HashFails, HashSearch, HashStored, Hashing,
         RecordPair, Recorded, LinkCommit, Begin, Counted
    <2> QED
      BY <2>1, LibraryAssumption DEF HistoryInv, NotesTyped
  <1> DEFINE Others == OfPhoto \cup {"none"}
  <1>3. session[s].op \in Others
    BY DEF DeleteBegins, HashBegin, TagsBegin, CategoriesBegin, MarkBegin, LinkBegin, TagsLock,
       TagsCommit, DeleteFile, CategoriesLook, CategoryCreated, CategoriesCommit,
       Hashes, HashLook, HashSave, HashFails, HashSearch, HashStored, Hashing,
       RecordPair, Recorded, LinkCommit, Begin, Doing, OfPhoto, RowsInv, RecordsTyped, Typed
  <1>4. \E next : Goes(s, next) /\ next.op \in Others
    <2>1. DOMAIN session[s] = Fields
      BY DEF RowsInv, RecordsTyped, Shaped
    <2>2. CASE End(s)
      BY <2>2, IdleKnows DEF End
    <2>3. CASE \E i \in Id : \/ DeleteBegins(s, i) \/ HashBegin(s, "hash", i) \/ HashBegin(s, "compare", i)
                             \/ \E found : TagsBegin(s, i, found) \/ CategoriesBegin(s, i, found)
                             \/ \E others : MarkBegin(s, i, others)
                             \/ \E label : LinkBegin(s, i, label)
      <3>1. \E op \in OfPhoto : \E at, ids, label, todo : Begin(s, op, at, ids, label, todo)
        BY <2>3 DEF DeleteBegins, HashBegin, TagsBegin, CategoriesBegin, MarkBegin, LinkBegin, OfPhoto
      <3> QED
        BY <3>1, BeginRecord
    <2>4. CASE ~End(s) /\ (CategoriesLook(s) \/ CategoryCreated(s) \/ CategoriesCommit(s))
      <3> DEFINE moved(todo, new) == [session[s] EXCEPT !.at = "look", !.todo = todo, !.new = new]
                 create == [session[s] EXCEPT !.at = "create"]
      <3>1. (\A todo, new : moved(todo, new).op = session[s].op) /\ create.op = session[s].op
        BY <2>1 DEF Fields
      <3>2. \E new : Pended(s) = moved(Tail(session[s].todo), new)
        BY DEF Pended
      <3>3. \E new : [Pended(s) EXCEPT !.new = @ \ session[s].new] = moved(Tail(session[s].todo), new)
        BY <2>1 DEF Pended, Fields
      <3>4. \/ Goes(s, create)
            \/ \E new : Goes(s, moved(Tail(session[s].todo), new))
        BY <2>4, <3>2, <3>3 DEF CategoriesLook, CategoryCreated, CategoriesCommit
      <3> HIDE DEF moved, create
      <3> QED
        BY <1>3, <3>1, <3>4
    <2>5. CASE ~End(s) /\ \/ TagsLock(s) \/ TagsCommit(s) \/ DeleteFile(s) \/ Hashes(s)
                          \/ RecordPair(s) \/ Recorded(s) \/ LinkCommit(s)
      <3> DEFINE locks(new) == [session[s] EXCEPT !.at = "write", !.new = new]
                 search == [session[s] EXCEPT !.at = "search"]
                 save == [session[s] EXCEPT !.at = "write"]
                 record(todo) == [session[s] EXCEPT !.at = "record", !.todo = todo]
                 rest == [session[s] EXCEPT !.todo = Tail(@)]
      <3>1. /\ search.op = session[s].op /\ save.op = session[s].op /\ rest.op = session[s].op
            /\ \A x : locks(x).op = session[s].op /\ record(x).op = session[s].op
        BY <2>1 DEF Fields
      <3>2. \/ Goes(s, search) \/ Goes(s, save) \/ Goes(s, rest)
            \/ \E x : Goes(s, locks(x)) \/ Goes(s, record(x))
        BY <2>5 DEF TagsLock, TagsCommit, DeleteFile,
           Hashes, HashLook, HashSave, HashFails, HashSearch, HashStored, Hashing,
           RecordPair, Recorded, LinkCommit
      <3> HIDE DEF locks, search, save, record, rest
      <3> QED
        BY <1>3, <3>1, <3>2
    <2> QED
      BY <2>2, <2>3, <2>4, <2>5
  <1>5. \A t \in Session : \/ session'[t] = session[t]
                           \/ session[t].op \in Others /\ session'[t].op \in Others
    BY <1>3, <1>4 DEF Goes, RowsInv, RecordsTyped, Shaped
  <1>6. \A op \in Others : op \notin Annotation \cup {"undo"}
    BY DEF OfPhoto, Annotation
  <1> HIDE DEF Others
  <1> QED
    BY <1>1, <1>2, <1>5, <1>6, HistoryFrame

\* One photo comes, goes or is geocoded: no row of the history moved it, and no annotation
\* that moves photos has it in hand.
LEMMA OnePhotoFrame ==
    ASSUME HistoryInv, NEW i \in Id, PlacesTyped', UNCHANGED history,
           opsLeft' \in 0 .. MaxOps, opsLeft' <= opsLeft, calm' => calm, apart' => apart,
           \A j \in Id : j # i => /\ j \in Live' <=> j \in Live
                                  /\ places'[j] = places[j] /\ geocoded'[j] = geocoded[j],
           calm' /\ apart' =>
              /\ places'[i] = geocoded'[i] /\ (i \notin Live' => places'[i] = NoPlace)
              /\ \A h \in DOMAIN history : ~Sets(history[h], i)
              /\ i \notin Live' => \A h \in DOMAIN history : i \notin ToSet(history[h].ids)
              /\ \A t \in Session : session[t].op \in Annotation /\ (Moving(session[t]) \/ i \notin Live') =>
                    /\ i \notin ToSet(session[t].done)
                    /\ session[t].at = "write" => Head(session[t].todo) # i,
           \A t \in Session : \/ session'[t] = session[t]
                              \/ session[t].op \notin Annotation \cup {"undo"}
                                 /\ session'[t].op \notin Annotation \cup {"undo"}
    PROVE  HistoryInv'
  <1>1. \A t \in Session : /\ session'[t].op \in Annotation \cup {"undo"} => session'[t] = session[t]
                           /\ Agent(t)' <=> Agent(t)
    BY DEF Agent
  <1>2. NotesTyped'
    BY <1>1 DEF HistoryInv, NotesTyped, HistoryTyped, NoteTyped
  <1>3. ASSUME calm', apart'
        PROVE  KeysDiffer' /\ Placed'
    <2>1. KeysDiffer /\ Placed
      BY <1>3 DEF HistoryInv
    <2>4. KeysDiffer'
      BY <1>1, <2>1, KeysFrame DEF HistoryInv
    <2>5. /\ Len(history) \in Nat /\ DOMAIN history = 1 .. Len(history)
          /\ \A h \in DOMAIN history : ToSet(history[h].ids) \subseteq Id
      <3>1. history \in Seq(NoteRows)
        BY DEF HistoryInv, NotesTyped, HistoryTyped
      <3>2. \A h \in DOMAIN history : history[h].ids \in Seq(Id)
        <4>1. \A h \in DOMAIN history : history[h] \in Actions
          BY <3>1 DEF NoteRows
        <4> QED
          BY <4>1 DEF Actions
      <3>3. \A q \in Seq(Id) : ToSet(q) \subseteq Id
        BY DEF ToSet
      <3> QED
        BY <3>1, <3>2, <3>3
    <2>6. \A n \in Int : n <= Len(history) => \A base, v : Put(history, base, i, n, v) <=> v = base
      <3> SUFFICES ASSUME NEW n \in Int, n <= Len(history)
                   PROVE  \A base, v : Put(history, base, i, n, v) <=> v = base
        OBVIOUS
      <3>1. \A h \in 1 .. n : ~Sets(history[h], i)
        BY <1>3, <2>5
      <3> QED
        BY <3>1, PutNowhere
    <2>7. /\ Len(history) \in Int /\ Len(history) <= Len(history)
          /\ Len(history) - 1 \in Int /\ Len(history) - 1 <= Len(history)
      BY <2>5
    <2>8. /\ \A j \in Live' : j # i => j \in Live /\ j \in Id
          /\ Live' \subseteq Id /\ Live \subseteq Id
      BY DEF Live
    <2>9. OneAgent'
      BY <1>1, <2>1 DEF Placed, OneAgent
    <2>10. HistoryLives'
      BY <1>3, <2>1, <2>5, <2>8 DEF Placed, HistoryLives
    <2>11. NowhereElse'
      BY <1>3, <2>1, <2>8 DEF Placed, NowhereElse
    <2>12. Remembered'
      <3> SUFFICES ASSUME NEW h \in DOMAIN history, NEW j \in Id, Sets(history[h], j)
                   PROVE  Put(history, geocoded'[j], j, h - 1, history[h].was[j])
        BY DEF Remembered
      <3>1. j # i
        BY <1>3
      <3> QED
        BY <2>1, <3>1 DEF Placed, Remembered
    <2>13. AllSettled => AllSettled'
      BY <1>3, <2>6, <2>7, <2>8 DEF AllSettled, Settled
    <2>14. \A t \in Session : Annotates(session[t])'
      <3> SUFFICES ASSUME NEW t \in Session, session[t].op \in Annotation, session'[t] = session[t]
                   PROVE  Annotates(session[t])'
        BY <1>1 DEF Annotates
      <3>1. Annotates(session[t])
        BY <2>1 DEF Placed
      <3>2. /\ ToSet(session[t].done) \subseteq Live'
            /\ session[t].at = "write" => Head(session[t].todo) \in Live'
        BY <1>3, <2>8, <3>1 DEF Annotates
      <3>3. CASE ~Moving(session[t])
        <4>1. \A j \in Live' : Settled(j, Len(history))'
          BY <1>3, <2>6, <2>7, <2>8, <3>1, <3>3 DEF Annotates, Settled
        <4> QED
          BY <3>2, <3>3, <4>1 DEF Annotates
      <3>4. CASE Moving(session[t])
        <4>1. /\ i \notin ToSet(session[t].done)
              /\ session[t].at = "write" => Head(session[t].todo) # i
          BY <1>3, <3>4
        <4>2. \A j \in Live' \ ToSet(session[t].done) : Settled(j, Len(history))'
          BY <1>3, <2>6, <2>7, <2>8, <3>1, <3>4 DEF Annotates, Settled
        <4>3. \A j \in ToSet(session[t].done) :
                 /\ places'[j] = session[t].label
                 /\ Put(history, geocoded'[j], j, Len(history), session[t].was[j])
          BY <2>8, <3>1, <3>4, <4>1 DEF Annotates
        <4>4. session[t].at = "write" =>
                 session[t].was[Head(session[t].todo)] = places'[Head(session[t].todo)]
          BY <2>8, <3>1, <3>4, <4>1 DEF Annotates
        <4> QED
          BY <3>2, <3>4, <4>2, <4>3, <4>4 DEF Annotates
      <3> QED
        BY <3>3, <3>4
    <2>15. \A t \in Session : Undoes(session[t])'
      <3> SUFFICES ASSUME NEW t \in Session, session[t].op = "undo", session'[t] = session[t]
                   PROVE  Undoes(session[t])'
        BY <1>1 DEF Undoes
      <3>1. Undoes(session[t])
        BY <2>1 DEF Placed
      <3>2. \A j \in Live' : Settled(j, Len(history) - 1)'
        BY <1>3, <2>6, <2>7, <2>8, <3>1 DEF Undoes, Settled
      <3> QED
        BY <3>1, <3>2 DEF Undoes
    <2> QED
      BY <1>1, <2>1, <2>4, <2>9, <2>10, <2>11, <2>12, <2>13, <2>14, <2>15 DEF Placed
  <1> QED
    BY <1>2, <1>3 DEF HistoryInv

\* Photos come, go and are geocoded; pairs and links are taken away; the backend ends.
LEMMA PhotosKeepHistory ==
    ASSUME RowsInv, HistoryInv,
           \/ \E p \in Picture : AddPhoto(p)
           \/ \E s \in Session : DeleteCommits(s)
           \/ \E i \in Id, place \in Place : Geocode(i, place)
           \/ \E p : DismissDuplicate(p)
           \/ \E i, label : Unlink(i, label)
           \/ Kill
    PROVE  HistoryInv'
  <1>1. opsLeft \in 0 .. MaxOps /\ MaxOps \in Nat /\ PlacesTyped
    BY LibraryAssumption DEF HistoryInv, NotesTyped
  <1>2. /\ opsLeft \in 0 .. MaxOps /\ opsLeft <= opsLeft
        /\ Counted => opsLeft' \in 0 .. MaxOps /\ opsLeft' <= opsLeft
    BY <1>1 DEF Counted
  <1>3. ASSUME NEW p \in Picture, AddPhoto(p)
        PROVE  HistoryInv'
    <2> DEFINE n == Highest + 1
    <2>1. /\ photo' = [photo EXCEPT ![n] = p]
          /\ UNCHANGED <<places, geocoded, history, session, calm, apart, opsLeft>>
      BY <1>3 DEF AddPhoto, aux
    <2>2. n \in Id /\ n \notin Live
      BY <1>3, NewIdIsFree
    <2> HIDE DEF n
    <2>3. Live' = Live \cup {n}
      BY <2>1, <2>2, LibraryAssumption DEF Live, RowsInv, RecordsTyped, Tables
    <2>4. ASSUME calm', apart'
          PROVE  /\ places[n] = geocoded[n]
                 /\ \A h \in DOMAIN history : ~Sets(history[h], n)
                 /\ \A t \in Session : session[t].op \in Annotation /\ Moving(session[t]) =>
                       /\ n \notin ToSet(session[t].done)
                       /\ session[t].at = "write" => Head(session[t].todo) # n
      <3>1. Placed
        BY <2>1, <2>4 DEF HistoryInv
      <3>2. places[n] = geocoded[n]
        BY <2>2, <3>1 DEF Placed, NowhereElse
      <3>3. \A h \in DOMAIN history : ~Sets(history[h], n)
        BY <2>2, <3>1 DEF Placed, HistoryLives, Sets
      <3> QED
        BY <2>2, <3>1, <3>2, <3>3 DEF Placed, Annotates
    <2> QED
      BY <1>1, <1>2, <2>1, <2>2, <2>3, <2>4, OnePhotoFrame DEF PlacesTyped
  <1>4. ASSUME NEW s \in Session, DeleteCommits(s)
        PROVE  HistoryInv'
    <2> DEFINE i == Target(s)
               next == [session[s] EXCEPT !.at = "file"]
    <2>1. /\ session[s].op = "delete" /\ i \in Id /\ DOMAIN session[s] = Fields
          /\ UNCHANGED <<history, apart, opsLeft>>
      <3>1. session[s].op = "delete"
        BY <1>4 DEF DeleteCommits, Doing
      <3> QED
        BY <1>4, <3>1, TargetIsId DEF DeleteCommits, RowsInv, RecordsTyped, Shaped, OfPhoto
    <2>2. DOMAIN next = Fields /\ next.op = "delete"
      BY <2>1 DEF Fields
    <2> HIDE DEF next
    <2>3. "delete" \notin Annotation \cup {"undo"} /\ "none" \notin Annotation \cup {"undo"}
      BY DEF Annotation
    <2>4. CASE i \notin Live
      <3>1. Goes(s, Idle) /\ UNCHANGED <<photo, places, geocoded, calm>>
        BY <1>4, <2>4 DEF DeleteCommits, End
      <3>2. \A t \in Session : session'[t] = session[t] \/ (t = s /\ session'[t] = Idle)
        BY <3>1, IdleKnows, SessionGoes DEF RowsInv, RecordsTyped
      <3> QED
        BY <1>2, <2>1, <2>3, <3>1, <3>2, IdleKnows, HistoryFrame
    <2>5. CASE i \in Live
      <3>1. /\ DeleteRows(i) /\ geocoded' = [geocoded EXCEPT ![i] = NoPlace]
            /\ calm' = (calm /\ ~Named(i, s)) /\ Goes(s, next)
        BY <1>4, <2>5 DEF DeleteCommits, next
      <3>2. \A t \in Session : session'[t] = session[t] \/ (t = s /\ session'[t] = next)
        BY <2>2, <3>1, SessionGoes DEF RowsInv, RecordsTyped
      <3>3. /\ PlacesTyped' /\ places'[i] = NoPlace /\ geocoded'[i] = NoPlace
            /\ \A j \in Id : j # i => places'[j] = places[j] /\ geocoded'[j] = geocoded[j]
        BY <1>1, <2>1, <3>1 DEF DeleteRows, PlacesTyped
      <3>4. Live' = Live \ {i}
        BY <2>1, <3>1 DEF DeleteRows, Live, RowsInv, RecordsTyped, Tables
      <3>5. ASSUME calm', apart'
            PROVE  /\ \A h \in DOMAIN history : i \notin ToSet(history[h].ids)
                   /\ \A t \in Session : session[t].op \in Annotation =>
                         /\ i \notin ToSet(session[t].done)
                         /\ session[t].at = "write" => Head(session[t].todo) # i
        <4>1. /\ \A h \in DOMAIN history : i \notin ToSet(history[h].ids)
              /\ \A t \in Session : t # s => i \notin ToSet(session[t].ids)
          BY <3>1, <3>5 DEF Named
        <4>2. ASSUME NEW t \in Session, session[t].op \in Annotation
              PROVE  /\ i \notin ToSet(session[t].done)
                     /\ session[t].at = "write" => Head(session[t].todo) # i
          <5>1. i \notin ToSet(session[t].ids)
            BY <2>1, <2>3, <4>1, <4>2
          <5>2. NoteTyped(session[t]) /\ Typed(session[t])
            BY DEF HistoryInv, NotesTyped, RowsInv, RecordsTyped
          <5>3. ToSet(session[t].done) \subseteq ToSet(session[t].ids)
            BY <4>2, <5>2 DEF NoteTyped
          <5>4. /\ session[t].todo \in Seq(Id) /\ ToSet(session[t].todo) \subseteq ToSet(session[t].ids)
                /\ session[t].at = "write" => session[t].todo # <<>>
            BY <4>2, <5>2 DEF Typed
          <5> QED
            BY <5>1, <5>3, <5>4, HeadTail
        <4> QED
          BY <4>1, <4>2
      <3>6. calm' => calm
        BY <3>1
      <3>7. \A h \in DOMAIN history : i \notin ToSet(history[h].ids) => ~Sets(history[h], i)
        BY DEF Sets
      <3> QED
        BY <1>2, <2>1, <2>2, <2>3, <3>2, <3>3, <3>4, <3>5, <3>6, <3>7, OnePhotoFrame
    <2> QED
      BY <2>4, <2>5
  <1>5. ASSUME NEW i \in Id, NEW place \in Place, Geocode(i, place)
        PROVE  HistoryInv'
    <2>1. /\ i \in Live /\ Counted /\ UNCHANGED <<photo, history, session, calm>>
          /\ places' = [places EXCEPT ![i] = place] /\ geocoded' = [geocoded EXCEPT ![i] = place]
          /\ apart' = (apart /\ ~Moves(i))
      BY <1>5 DEF Geocode
    <2>2. /\ PlacesTyped' /\ places'[i] = geocoded'[i]
          /\ \A j \in Id : j # i => places'[j] = places[j] /\ geocoded'[j] = geocoded[j]
      BY <1>1, <2>1 DEF PlacesTyped
    <2>3. Live' = Live
      BY <2>1 DEF Live
    <2>4. ASSUME apart'
          PROVE  /\ \A h \in DOMAIN history : ~Sets(history[h], i)
                 /\ \A t \in Session : session[t].op \in Annotation /\ Moving(session[t]) =>
                       /\ i \notin ToSet(session[t].done)
                       /\ session[t].at = "write" => Head(session[t].todo) # i
      <3>1. \A h \in DOMAIN history : ~Sets(history[h], i)
        BY <2>1, <2>4 DEF Moves, Sets, Moving
      <3>2. ASSUME NEW t \in Session, session[t].op \in Annotation, Moving(session[t])
            PROVE  /\ i \notin ToSet(session[t].done)
                   /\ session[t].at = "write" => Head(session[t].todo) # i
        <4>1. NoteTyped(session[t]) /\ Typed(session[t])
          BY DEF HistoryInv, NotesTyped, RowsInv, RecordsTyped
        <4>2. session[t].label \in Place /\ ToSet(session[t].done) \subseteq ToSet(session[t].ids)
          BY <3>2, <4>1 DEF NoteTyped
        <4>3. /\ session[t].todo \in Seq(Id) /\ ToSet(session[t].todo) \subseteq ToSet(session[t].ids)
              /\ session[t].at = "write" => session[t].todo # <<>>
          BY <3>2, <4>1 DEF Typed
        <4>4. i \notin ToSet(session[t].ids)
          BY <2>1, <2>4, <4>2 DEF Moves
        <4> QED
          BY <4>2, <4>3, <4>4, HeadTail
      <3> QED
        BY <3>1, <3>2
    <2> QED
      BY <1>2, <2>1, <2>2, <2>3, <2>4, OnePhotoFrame
  <1>6. CASE (\E p : DismissDuplicate(p)) \/ (\E i, label : Unlink(i, label))
    <2>1. UNCHANGED <<photo, places, geocoded, history, session, calm, apart>> /\ Counted
      BY <1>6 DEF DismissDuplicate, Unlink, OnlyLinks, aux
    <2> QED
      BY <1>2, <2>1, HistoryFrame
  <1>7. CASE Kill
    <2>1. /\ \A t \in Session : session'[t] = Idle /\ (apart' => ~Agent(t))
          /\ UNCHANGED <<photo, places, geocoded, history, calm>> /\ Counted /\ (apart' => apart)
      BY <1>7 DEF Kill
    <2>2. CASE apart'
      <3>1. \A t \in Session : /\ session[t].op \notin Annotation \cup {"undo"}
                               /\ session'[t].op \notin Annotation \cup {"undo"}
        BY <2>1, <2>2, IdleKnows DEF Agent, Annotation
      <3> QED
        BY <1>2, <2>1, <2>2, <3>1, HistoryFrame
    <2>3. CASE ~apart'
      <3>1. \A t \in Session : NoteTyped(session[t])'
        BY <2>1, IdleKnows DEF NoteTyped, Annotation
      <3> QED
        BY <1>1, <1>2, <2>1, <2>3, <3>1 DEF HistoryInv, NotesTyped, PlacesTyped, HistoryTyped
    <2> QED
      BY <2>2, <2>3
  <1> QED
    BY <1>3, <1>4, <1>5, <1>6, <1>7

\* A session of the agent goes on: it is the only one while no action overlapped another.
LEMMA AgentFrame ==
    ASSUME RowsInv, HistoryInv, NEW s \in Session, NEW next, Goes(s, next), DOMAIN next = Fields,
           NoteTyped(next), PlacesTyped', HistoryTyped', opsLeft' \in 0 .. MaxOps,
           UNCHANGED <<photo, geocoded, calm>>, apart' => apart,
           calm /\ apart' =>
              /\ \A t \in Session : Agent(t) => t = s
              /\ \A h, k \in DOMAIN history' : history'[h].key = history'[k].key => h = k
              /\ \A h \in DOMAIN history' : history'[h].key > opsLeft'
              /\ next.op \in Annotation =>
                    next.key > opsLeft' /\ \A h \in DOMAIN history' : history'[h].key # next.key
              /\ HistoryLives' /\ NowhereElse' /\ Remembered'
              /\ next.op \notin Annotation \cup {"undo"} => AllSettled'
              /\ Annotates(next)' /\ Undoes(next)'
    PROVE  HistoryInv'
  <1>1. session'[s] = next /\ \A t \in Session : t # s => session'[t] = session[t]
    BY SessionGoes DEF RowsInv, RecordsTyped
  <1>2. \A t \in Session : NoteTyped(session[t])'
    BY <1>1 DEF NoteTyped, HistoryInv, NotesTyped
  <1>3. ASSUME calm', apart'
        PROVE  KeysDiffer' /\ Placed'
    <2>1. \A t \in Session : session'[t].op \in Annotation \cup {"undo"} => t = s /\ session'[t] = next
      BY <1>1, <1>3 DEF Agent
    <2>2. KeysDiffer'
      BY <1>3, <2>1 DEF KeysDiffer
    <2>3. OneAgent' /\ ((\A t \in Session : ~Agent(t))' => AllSettled')
      BY <1>1, <1>3, <2>1 DEF OneAgent, Agent
    <2>4. \A t \in Session : Annotates(session[t])'
      BY <1>3, <2>1 DEF Annotates
    <2>5. \A t \in Session : Undoes(session[t])'
      BY <1>3, <2>1 DEF Undoes
    <2> QED
      BY <1>3, <2>2, <2>3, <2>4, <2>5 DEF Placed
  <1> QED
    BY <1>2, <1>3 DEF HistoryInv, NotesTyped

\* An action of the agent begins with nothing done; its key is new.
LEMMA AnnotateBeginsInPlace ==
    ASSUME RowsInv, HistoryInv, NEW s \in Session, NEW ids \in Listings(Id),
           NEW op \in Annotation, NEW label \in Label \cup Place,
           op = "add_geoposition" <=> label \in Place, AnnotateBegin(s, op, ids, label)
    PROVE  HistoryInv'
  <1>1. PICK next : /\ Goes(s, next) /\ DOMAIN next = Fields
                    /\ next.op = op /\ next.at = "look" /\ next.ids = ids /\ next.label = label
                    /\ next.todo = ids /\ next.key = opsLeft /\ next.done = <<>>
                    /\ next.was = [i \in Id |-> NoPlace]
    <2>1. Begin(s, op, "look", ids, label, ids)
      BY DEF AnnotateBegin
    <2> QED
      BY <2>1, BeginRecord
  <1>2. /\ opsLeft > 0 /\ opsLeft' = opsLeft - 1 /\ opsLeft \in 0 .. MaxOps /\ MaxOps \in Nat
        /\ UNCHANGED <<photo, geocoded, calm, places, history>>
        /\ apart' => apart /\ \A t \in Session : ~Agent(t)
    BY LibraryAssumption DEF AnnotateBegin, Begin, Counted, OnlyNotes, Alone, HistoryInv, NotesTyped
  <1>3. ToSet(<<>>) = {}
    BY DEF ToSet
  <1>4. NoteTyped(next)
    BY <1>1, <1>2, <1>3, IdListing DEF NoteTyped, Moving
  <1>5. opsLeft' \in 0 .. MaxOps /\ PlacesTyped' /\ HistoryTyped'
    BY <1>2 DEF HistoryInv, NotesTyped, PlacesTyped, HistoryTyped
  <1>6. ASSUME calm, apart'
        PROVE  /\ \A h, k \in DOMAIN history' : history'[h].key = history'[k].key => h = k
               /\ \A h \in DOMAIN history' : history'[h].key > opsLeft' /\ history'[h].key # next.key
               /\ next.key > opsLeft'
               /\ HistoryLives' /\ NowhereElse' /\ Remembered' /\ Annotates(next)'
    <2>1. KeysDiffer /\ Placed
      BY <1>2, <1>6 DEF HistoryInv
    <2>2. \A h \in DOMAIN history : history[h].key \in Nat
      <3>1. \A h \in DOMAIN history : history[h] \in Actions
        BY DEF HistoryInv, NotesTyped, HistoryTyped, NoteRows
      <3> QED
        BY <3>1, <1>2 DEF Actions
    <2>3. \A h \in DOMAIN history' : history'[h].key > opsLeft' /\ history'[h].key # next.key
      BY <1>1, <1>2, <2>1, <2>2 DEF KeysDiffer
    <2>4. HistoryLives' /\ NowhereElse' /\ Remembered'
      BY <1>2, <2>1 DEF Placed, HistoryLives, NowhereElse, Remembered, Live
    <2>5. \A i \in Live' : Settled(i, Len(history))'
      BY <1>2, <1>6, <2>1 DEF Placed, AllSettled, Settled, Live
    <2>6. Annotates(next)'
      BY <1>1, <1>3, <2>5 DEF Annotates
    <2> QED
      BY <1>1, <1>2, <2>1, <2>3, <2>4, <2>6 DEF KeysDiffer
  <1>7. Undoes(next)' /\ next.op \in Annotation
    BY <1>1 DEF Undoes, Annotation
  <1> QED
    BY <1>1, <1>2, <1>4, <1>5, <1>6, <1>7, AgentFrame

\* An undo begins: its photos go back to where they were before the last row.
LEMMA UndoBeginsInPlace ==
    ASSUME RowsInv, HistoryInv, NEW s \in Session, UndoBegin(s)
    PROVE  HistoryInv'
  <1> DEFINE last == Last(history)
  <1>1. PICK next : /\ Goes(s, next) /\ DOMAIN next = Fields
                    /\ next.op = "undo" /\ next.ids = last.ids /\ next.label = last.label
                    /\ next.todo = <<last.key>>
    <2>1. Begin(s, "undo", "forget", last.ids, last.label, <<last.key>>)
      BY DEF UndoBegin
    <2> QED
      BY <2>1, BeginRecord
  <1>2. /\ opsLeft > 0 /\ opsLeft' = opsLeft - 1 /\ opsLeft \in 0 .. MaxOps /\ MaxOps \in Nat
        /\ UNCHANGED <<photo, geocoded, calm, history>> /\ history # <<>>
        /\ apart' => apart /\ \A t \in Session : ~Agent(t)
        /\ places' = IF last.op # "add_geoposition" THEN places
                     ELSE [i \in Id |-> IF i \in ToSet(last.ids) \cap Live THEN last.was[i] ELSE places[i]]
    BY LibraryAssumption DEF UndoBegin, Begin, Counted, OnlyNotes, Alone, HistoryInv, NotesTyped
  <1>3. /\ Len(history) \in Nat \ {0} /\ last = history[Len(history)]
        /\ DOMAIN history = 1 .. Len(history) /\ last \in Actions
    <2>1. history \in Seq(NoteRows)
      BY DEF HistoryInv, NotesTyped, HistoryTyped
    <2>2. Len(history) \in Nat \ {0} /\ last = history[Len(history)] /\ DOMAIN history = 1 .. Len(history)
      BY <1>2, <2>1, WithoutLast
    <2>3. history[Len(history)] \in NoteRows
      BY <2>1, <2>2
    <2> QED
      BY <2>2, <2>3 DEF NoteRows
  <1> HIDE DEF last
  <1>4. PlacesTyped' /\ \A i \in Id : places'[i] = IF Sets(last, i) /\ i \in Live THEN last.was[i] ELSE places[i]
    <2>1. last.was \in [Id -> Place \cup {NoPlace}] /\ places \in [Id -> Place \cup {NoPlace}]
          /\ geocoded \in [Id -> Place \cup {NoPlace}]
      BY <1>3 DEF Actions, HistoryInv, NotesTyped, PlacesTyped
    <2> QED
      BY <1>2, <2>1 DEF Sets, Moving, PlacesTyped
  <1>5. NoteTyped(next) /\ Annotates(next)' /\ next.op \notin Annotation /\ HistoryTyped'
        /\ opsLeft' \in 0 .. MaxOps
    BY <1>1, <1>2 DEF NoteTyped, Annotates, Annotation, HistoryInv, NotesTyped, HistoryTyped
  <1>6. ASSUME calm, apart'
        PROVE  /\ \A h, k \in DOMAIN history' : history'[h].key = history'[k].key => h = k
               /\ \A h \in DOMAIN history' : history'[h].key > opsLeft'
               /\ HistoryLives' /\ NowhereElse' /\ Remembered' /\ Undoes(next)'
    <2>1. KeysDiffer /\ Placed
      BY <1>2, <1>6 DEF HistoryInv
    <2>2. \A h \in DOMAIN history : history[h].key \in Nat
      <3>1. \A h \in DOMAIN history : history[h] \in Actions
        BY DEF HistoryInv, NotesTyped, HistoryTyped, NoteRows
      <3> QED
        BY <3>1, <1>2 DEF Actions
    <2>3. \A h \in DOMAIN history' : history'[h].key > opsLeft'
      BY <1>2, <2>1, <2>2 DEF KeysDiffer
    <2>4. HistoryLives' /\ NowhereElse' /\ Remembered'
      BY <1>2, <1>4, <2>1 DEF Placed, HistoryLives, NowhereElse, Remembered, Live
    <2>5. ASSUME NEW i \in Live
          PROVE  Put(history, geocoded[i], i, Len(history) - 1, places'[i])
      <3>1. i \in Id /\ Len(history) - 1 \in Nat /\ (Len(history) - 1) + 1 = Len(history)
        BY <1>3 DEF Live
      <3>2. CASE Sets(last, i)
        BY <1>3, <1>4, <2>1, <3>1, <3>2 DEF Placed, Remembered
      <3>3. CASE ~Sets(last, i)
        <4>1. Put(history, geocoded[i], i, Len(history), places[i])
          BY <1>2, <1>6, <2>1 DEF Placed, AllSettled, Settled
        <4> QED
          BY <1>3, <1>4, <3>1, <3>3, <4>1, PutMore
      <3> QED
        BY <3>2, <3>3
    <2>6. Undoes(next)'
      <3>1. Head(<<last.key>>) = last.key
        OBVIOUS
      <3>2. \A i \in Live' : Settled(i, Len(history) - 1)'
        BY <1>2, <2>5 DEF Settled, Live
      <3> QED
        BY <1>1, <1>2, <3>1, <3>2 DEF Undoes, last
    <2> QED
      BY <1>2, <2>1, <2>3, <2>4, <2>6 DEF KeysDiffer
  <1> QED
    BY <1>1, <1>2, <1>4, <1>5, <1>6, AgentFrame

\* An annotation looks at its next photo: what it has done, and noted, stays.
LEMMA LooksInPlace ==
    ASSUME RowsInv, HistoryInv, NEW s \in Session, AnnotateLook(s)
    PROVE  HistoryInv'
  <1> DEFINE i == Item(s)
             fresh == IF Linked(i, session[s].label) THEN {} ELSE {i}
             gone == [session[s] EXCEPT !.todo = Tail(@)]
             noted == [session[s] EXCEPT !.todo = Tail(@), !.new = @ \cup fresh,
                                         !.done = Append(@, i), !.of[i] = photo[i]]
             found == [session[s] EXCEPT !.at = "write", !.new = fresh, !.of[i] = photo[i],
                                         !.was[i] = places[i]]
  <1>1. /\ session[s].op \in Annotation /\ session[s].at = "look" /\ session[s].todo # <<>>
        /\ DOMAIN session[s] = Fields /\ Typed(session[s]) /\ NoteTyped(session[s])
        /\ UNCHANGED <<photo, geocoded, calm, places, history, apart, opsLeft>>
    BY DEF AnnotateLook, OnlyNotes, RowsInv, RecordsTyped, Shaped, HistoryInv, NotesTyped
  <1>2. /\ session[s].todo \in Seq(Id) /\ i \in Id /\ i \in ToSet(session[s].todo)
        /\ IsInjective(Tail(session[s].todo)) /\ i \notin ToSet(Tail(session[s].todo))
        /\ ToSet(Tail(session[s].todo)) \subseteq ToSet(session[s].todo)
        /\ i \in ToSet(session[s].ids) /\ i \notin ToSet(session[s].done)
    BY <1>1, HeadTail, TailDistinct DEF Typed, NoteTyped, Item
  <1>3. /\ Append(session[s].done, i) \in Seq(Id)
        /\ ToSet(Append(session[s].done, i)) = ToSet(session[s].done) \cup {i}
    BY <1>1, <1>2, AppendMembers DEF NoteTyped
  <1>4. /\ DOMAIN gone = Fields /\ gone.op = session[s].op /\ gone.at = "look"
        /\ gone.ids = session[s].ids /\ gone.key = session[s].key /\ gone.label = session[s].label
        /\ gone.todo = Tail(session[s].todo) /\ gone.done = session[s].done /\ gone.was = session[s].was
    BY <1>1 DEF Fields
  <1>5. /\ DOMAIN noted = Fields /\ noted.op = session[s].op /\ noted.at = "look"
        /\ noted.ids = session[s].ids /\ noted.key = session[s].key /\ noted.label = session[s].label
        /\ noted.todo = Tail(session[s].todo) /\ noted.done = Append(session[s].done, i)
        /\ noted.was = session[s].was
    BY <1>1 DEF Fields
  <1>6. /\ DOMAIN found = Fields /\ found.op = session[s].op /\ found.at = "write"
        /\ found.ids = session[s].ids /\ found.key = session[s].key /\ found.label = session[s].label
        /\ found.todo = session[s].todo /\ found.done = session[s].done
        /\ found.was = [session[s].was EXCEPT ![i] = places[i]]
    BY <1>1 DEF Fields
  <1>7. \/ Goes(s, gone)
        \/ i \in Live /\ session[s].op = "add_category" /\ Goes(s, noted)
        \/ i \in Live /\ Goes(s, found)
    BY DEF AnnotateLook
  <1> HIDE DEF gone, noted, found, fresh, i
  <1>8. PICK next :
           /\ Goes(s, next) /\ DOMAIN next = Fields
           /\ next.op = session[s].op /\ next.ids = session[s].ids
           /\ next.key = session[s].key /\ next.label = session[s].label
           /\ \/ next.at = "look" /\ next.todo = Tail(session[s].todo)
                 /\ next.done = session[s].done /\ next.was = session[s].was
              \/ /\ i \in Live /\ ~Moving(session[s])
                 /\ next.at = "look" /\ next.todo = Tail(session[s].todo)
                 /\ next.done = Append(session[s].done, i) /\ next.was = session[s].was
              \/ /\ i \in Live /\ next.at = "write" /\ next.todo = session[s].todo
                 /\ next.done = session[s].done /\ next.was = [session[s].was EXCEPT ![i] = places[i]]
    <2>1. CASE Goes(s, gone)
      BY <1>4, <2>1
    <2>2. CASE i \in Live /\ session[s].op = "add_category" /\ Goes(s, noted)
      BY <1>5, <2>2 DEF Moving
    <2>3. CASE i \in Live /\ Goes(s, found)
      BY <1>6, <2>3
    <2> QED
      BY <1>7, <2>1, <2>2, <2>3
  <1>9. places[i] \in Place \cup {NoPlace} /\ PlacesTyped' /\ HistoryTyped' /\ opsLeft' \in 0 .. MaxOps
    BY <1>1, <1>2 DEF HistoryInv, NotesTyped, PlacesTyped, HistoryTyped
  <1>10. NoteTyped(next)
    <2>1. next.was \in [Id -> Place \cup {NoPlace}] /\ next.done \in Seq(Id) /\ IsInjective(next.todo)
      BY <1>1, <1>2, <1>3, <1>8, <1>9 DEF NoteTyped
    <2>2. /\ ToSet(session[s].done) \subseteq ToSet(session[s].ids)
          /\ ToSet(session[s].done) \cap ToSet(session[s].todo) = {}
      BY <1>1 DEF NoteTyped
    <2>3. ToSet(next.done) \subseteq ToSet(next.ids) /\ ToSet(next.done) \cap ToSet(next.todo) = {}
      <3>1. CASE next.done = session[s].done
        <4>1. ToSet(next.todo) \subseteq ToSet(session[s].todo)
          BY <1>2, <1>8
        <4> QED
          BY <1>8, <2>2, <3>1, <4>1
      <3>2. CASE next.done = Append(session[s].done, i) /\ next.todo = Tail(session[s].todo)
        BY <1>2, <1>3, <1>8, <2>2, <3>2
      <3> QED
        BY <1>8, <3>1, <3>2
    <2> QED
      BY <1>1, <1>8, <2>1, <2>3 DEF NoteTyped, Moving
  <1>11. ASSUME calm, apart'
         PROVE  /\ \A t \in Session : Agent(t) => t = s
                /\ \A h, k \in DOMAIN history' : history'[h].key = history'[k].key => h = k
                /\ \A h \in DOMAIN history' : history'[h].key > opsLeft' /\ history'[h].key # next.key
                /\ next.key > opsLeft'
                /\ HistoryLives' /\ NowhereElse' /\ Remembered' /\ Annotates(next)'
    <2>1. KeysDiffer /\ Placed
      BY <1>1, <1>11 DEF HistoryInv
    <2>2. \A t \in Session : Agent(t) => t = s
      BY <1>1, <2>1 DEF Placed, OneAgent, Agent
    <2>3. HistoryLives' /\ NowhereElse' /\ Remembered'
      BY <1>1, <2>1 DEF Placed, HistoryLives, NowhereElse, Remembered, Live
    <2>4. Annotates(session[s])
      BY <2>1 DEF Placed
    <2>5. /\ ToSet(next.done) \subseteq Live
          /\ Moving(session[s]) => ToSet(next.done) = ToSet(session[s].done)
          /\ next.at = "write" => i \in Live /\ Head(next.todo) = i
      BY <1>1, <1>3, <1>8, <2>4 DEF Annotates, Item, i
    <2>6. \A j \in ToSet(session[s].done) : next.was[j] = session[s].was[j]
      <3>1. session[s].was \in [Id -> Place \cup {NoPlace}]
        BY <1>1 DEF NoteTyped
      <3>2. \A j \in ToSet(session[s].done) : j \in Id /\ j # i
        BY <1>1, <1>2, <2>4 DEF Annotates, Live
      <3> QED
        BY <1>8, <3>1, <3>2
    <2>7. next.at = "write" => next.was[i] = places[i]
      <3>1. session[s].was \in [Id -> Place \cup {NoPlace}]
        BY <1>1 DEF NoteTyped
      <3> QED
        BY <1>2, <1>8, <3>1
    <2>8. Annotates(next)'
      <3>1. CASE ~Moving(session[s])
        BY <1>1, <1>8, <2>4, <2>5, <3>1 DEF Annotates, Moving, Settled, Live
      <3>2. CASE Moving(session[s])
        <4>1. Moving(next) /\ next.label = session[s].label
          BY <1>8, <3>2 DEF Moving
        <4>2. \A j \in Live' \ ToSet(next.done) : Settled(j, Len(history))'
          BY <1>1, <2>4, <2>5, <3>2 DEF Annotates, Settled, Live
        <4>3. \A j \in ToSet(next.done) :
                 places'[j] = next.label /\ Put(history, geocoded[j], j, Len(history), next.was[j])
          BY <1>1, <1>8, <2>4, <2>5, <2>6, <3>2 DEF Annotates
        <4> QED
          BY <1>1, <2>5, <2>7, <4>1, <4>2, <4>3 DEF Annotates, Live
      <3> QED
        BY <3>1, <3>2
    <2> QED
      BY <1>1, <1>8, <2>1, <2>2, <2>3, <2>8 DEF KeysDiffer
  <1>12. Undoes(next)' /\ next.op \in Annotation
    BY <1>1, <1>8 DEF Undoes, Annotation
  <1> QED
    BY <1>1, <1>8, <1>9, <1>10, <1>11, <1>12, AgentFrame

\* An annotation writes: the place its photo had is the one it noted.
LEMMA WritesInPlace ==
    ASSUME RowsInv, HistoryInv, NEW s \in Session, AnnotateWrite(s)
    PROVE  HistoryInv'
  <1> DEFINE i == Item(s)
             written == [session[s] EXCEPT !.at = "look", !.todo = Tail(@), !.done = Append(@, i)]
  <1>1. /\ session[s].op \in Annotation /\ session[s].at = "write" /\ session[s].todo # <<>>
        /\ DOMAIN session[s] = Fields /\ Typed(session[s]) /\ NoteTyped(session[s])
        /\ UNCHANGED <<photo, geocoded, calm, history, opsLeft>>
    BY DEF AnnotateWrite, OnlyNotes, RowsInv, RecordsTyped, Shaped, HistoryInv, NotesTyped, Typed
  <1>2. /\ session[s].todo \in Seq(Id) /\ i \in Id /\ i \in ToSet(session[s].todo)
        /\ IsInjective(Tail(session[s].todo)) /\ i \notin ToSet(Tail(session[s].todo))
        /\ ToSet(Tail(session[s].todo)) \subseteq ToSet(session[s].todo)
        /\ i \in ToSet(session[s].ids) /\ i \notin ToSet(session[s].done)
    BY <1>1, HeadTail, TailDistinct DEF Typed, NoteTyped, Item
  <1>3. /\ Append(session[s].done, i) \in Seq(Id)
        /\ ToSet(Append(session[s].done, i)) = ToSet(session[s].done) \cup {i}
    BY <1>1, <1>2, AppendMembers DEF NoteTyped
  <1>4. HistoryTyped' /\ opsLeft' \in 0 .. MaxOps /\ PlacesTyped
    BY <1>1 DEF HistoryInv, NotesTyped, HistoryTyped
  <1>5. CASE End(s)
    <2>1. UNCHANGED places /\ ~apart'
      <3>1. DOMAIN written = Fields /\ written.op = session[s].op
        BY <1>1 DEF Fields
      <3>2. session'[s].op = "none" /\ "none" \notin Annotation
        BY <1>5, IdleKnows, SessionGoes DEF End, RowsInv, RecordsTyped, Annotation
      <3>3. ~Goes(s, written)
        BY <1>1, <3>1, <3>2, SessionGoes DEF RowsInv, RecordsTyped
      <3> QED
        BY <3>3 DEF AnnotateWrite
    <2>2. PlacesTyped' /\ NoteTyped(Idle) /\ DOMAIN Idle = Fields
      <3>1. PlacesTyped'
        BY <1>1, <1>4, <2>1 DEF PlacesTyped
      <3> QED
        BY <3>1, IdleKnows DEF NoteTyped, Annotation
    <2> QED
      BY <1>1, <1>4, <1>5, <2>1, <2>2, AgentFrame DEF End
  <1>6. CASE ~End(s)
    <2>1. /\ DOMAIN written = Fields /\ written.op = session[s].op /\ written.at = "look"
          /\ written.ids = session[s].ids /\ written.key = session[s].key
          /\ written.label = session[s].label /\ written.todo = Tail(session[s].todo)
          /\ written.done = Append(session[s].done, i) /\ written.was = session[s].was
      BY <1>1 DEF Fields
    <2>2. /\ Goes(s, written) /\ UNCHANGED apart
          /\ Moving(session[s]) =>
                places' = IF i \in Live THEN [places EXCEPT ![i] = session[s].label] ELSE places
          /\ ~Moving(session[s]) => places' = places
      BY <1>6 DEF AnnotateWrite, Moving
    <2> HIDE DEF written, i
    <2>3. PICK next : next = written
      OBVIOUS
    <2>4. NoteTyped(next)
      <3>1. ToSet(next.done) \subseteq ToSet(next.ids) /\ ToSet(next.done) \cap ToSet(next.todo) = {}
        <4>1. /\ ToSet(session[s].done) \subseteq ToSet(session[s].ids)
              /\ ToSet(session[s].done) \cap ToSet(session[s].todo) = {}
          BY <1>1 DEF NoteTyped
        <4> QED
          BY <1>2, <1>3, <2>1, <2>3, <4>1
      <3> QED
        BY <1>1, <1>2, <1>3, <2>1, <2>3, <3>1 DEF NoteTyped, Moving
    <2>5. PlacesTyped' /\ \A j \in Id : j # i => places'[j] = places[j]
      BY <1>1, <1>2, <1>4, <2>2 DEF PlacesTyped, NoteTyped
    <2>6. ASSUME calm, apart'
          PROVE  /\ \A t \in Session : Agent(t) => t = s
                 /\ \A h, k \in DOMAIN history' : history'[h].key = history'[k].key => h = k
                 /\ \A h \in DOMAIN history' : history'[h].key > opsLeft' /\ history'[h].key # next.key
                 /\ next.key > opsLeft'
                 /\ HistoryLives' /\ NowhereElse' /\ Remembered' /\ Annotates(next)'
      <3>1. KeysDiffer /\ Placed
        BY <2>2, <2>6 DEF HistoryInv
      <3>2. \A t \in Session : Agent(t) => t = s
        BY <1>1, <3>1 DEF Placed, OneAgent, Agent
      <3>3. Annotates(session[s])
        BY <3>1 DEF Placed
      <3>4. i \in Live
        BY <1>1, <3>3 DEF Annotates, Item, i
      <3>5. HistoryLives' /\ Remembered'
        BY <1>1, <3>1 DEF Placed, HistoryLives, Remembered, Live
      <3>6. NowhereElse'
        <4>1. \A j \in Id \ Live : j # i
          BY <3>4
        <4> QED
          BY <1>1, <2>5, <3>1, <4>1 DEF Placed, NowhereElse, Live
      <3>7. ToSet(next.done) = ToSet(session[s].done) \cup {i} /\ ToSet(next.done) \subseteq Live
        BY <1>1, <1>3, <2>1, <2>3, <3>3, <3>4 DEF Annotates
      <3>8. Annotates(next)'
        <4>1. CASE ~Moving(session[s])
          BY <1>1, <2>1, <2>2, <2>3, <3>3, <3>7, <4>1 DEF Annotates, Moving, Settled, Live
        <4>2. CASE Moving(session[s])
          <5>1. Moving(next) /\ next.label = session[s].label /\ next.was = session[s].was
            BY <2>1, <2>3, <4>2 DEF Moving
          <5>2. \A j \in Live : j \in Id
            BY DEF Live
          <5>3. \A j \in Live' \ ToSet(next.done) : Settled(j, Len(history))'
            <6>1. \A j \in Live \ ToSet(next.done) :
                     places'[j] = places[j] /\ Settled(j, Len(history))
              BY <1>1, <2>5, <3>3, <3>7, <4>2, <5>2 DEF Annotates
            <6> QED
              BY <1>1, <6>1 DEF Settled, Live
          <5>4. \A j \in ToSet(next.done) :
                   places'[j] = next.label /\ Put(history, geocoded[j], j, Len(history), next.was[j])
            <6>1. places'[i] = next.label
              BY <1>2, <1>4, <2>2, <3>4, <4>2, <5>1 DEF PlacesTyped
            <6>2. Put(history, geocoded[i], i, Len(history), next.was[i])
              <7>1. session[s].was[i] = places[i]
                BY <1>1, <3>3, <4>2 DEF Annotates, Item, i
              <7>2. Settled(i, Len(history))
                BY <1>1, <1>2, <3>3, <3>4, <4>2 DEF Annotates
              <7> QED
                BY <5>1, <7>1, <7>2 DEF Settled
            <6>3. \A j \in ToSet(session[s].done) : j # i /\ j \in Id
              BY <1>1, <1>2, <3>3, <5>2 DEF Annotates
            <6>4. \A j \in ToSet(session[s].done) :
                     places'[j] = next.label /\ Put(history, geocoded[j], j, Len(history), next.was[j])
              BY <1>1, <2>5, <3>3, <4>2, <5>1, <6>3 DEF Annotates
            <6> QED
              BY <3>7, <6>1, <6>2, <6>4
          <5>5. ToSet(next.done) \subseteq Live' /\ next.at # "write"
            BY <1>1, <2>1, <2>3, <3>7 DEF Live
          <5> QED
            BY <1>1, <5>1, <5>3, <5>4, <5>5 DEF Annotates
        <4> QED
          BY <4>1, <4>2
      <3> QED
        BY <1>1, <2>1, <2>3, <3>1, <3>2, <3>5, <3>6, <3>8 DEF KeysDiffer
    <2>7. Undoes(next)' /\ next.op \in Annotation /\ Goes(s, next) /\ DOMAIN next = Fields
      BY <1>1, <2>1, <2>2, <2>3 DEF Undoes, Annotation
    <2> QED
      BY <1>1, <1>4, <2>2, <2>4, <2>5, <2>6, <2>7, AgentFrame
  <1> QED
    BY <1>5, <1>6

\* An annotation ends: when it did anything, its row is the new last one.
LEMMA EndsInPlace ==
    ASSUME RowsInv, HistoryInv, NEW s \in Session, AnnotateEnd(s)
    PROVE  HistoryInv'
  <1> DEFINE row == Action(s)
             n == Len(history)
  <1>1. /\ session[s].op \in Annotation /\ session[s].at = "look"
        /\ Typed(session[s]) /\ NoteTyped(session[s])
        /\ UNCHANGED <<photo, geocoded, calm, places, apart, opsLeft>> /\ Goes(s, Idle)
        /\ \/ UNCHANGED history /\ (session[s].done = <<>> \/ ~Moving(session[s]))
           \/ history' = Append(history, row)
    BY DEF AnnotateEnd, RecordAction, OnlyNotes, End, Moving, RowsInv, RecordsTyped, HistoryInv, NotesTyped
  <1>2. /\ row.op = session[s].op /\ row.key = session[s].key /\ row.label = session[s].label
        /\ row.ids = session[s].done /\ row.was = session[s].was
    BY DEF Action
  <1>3. row \in NoteRows
    BY <1>1 DEF Action, Actions, NoteRows, NoteTyped, Moving
  <1> HIDE DEF row
  <1>4. /\ history \in Seq(NoteRows) /\ n \in Nat /\ DOMAIN history = 1 .. n
        /\ PlacesTyped' /\ opsLeft' \in 0 .. MaxOps
    BY <1>1 DEF HistoryInv, NotesTyped, PlacesTyped, HistoryTyped
  <1>5. history' = Append(history, row) =>
           /\ history' \in Seq(NoteRows) /\ Len(history') = n + 1 /\ DOMAIN history' = (1 .. n) \cup {n + 1}
           /\ history'[n + 1] = row /\ \A h \in 1 .. n : history'[h] = history[h]
    <2>1. /\ Append(history, row) \in Seq(NoteRows) /\ Len(Append(history, row)) = n + 1
          /\ Append(history, row)[n + 1] = row
          /\ \A h \in 1 .. n : Append(history, row)[h] = history[h]
      BY <1>3, <1>4, AppendMembers
    <2>2. DOMAIN Append(history, row) = (1 .. n) \cup {n + 1}
      BY <1>4, <2>1
    <2> QED
      BY <2>1, <2>2
  <1>6. HistoryTyped'
    BY <1>1, <1>4, <1>5 DEF HistoryTyped
  <1>7. NoteTyped(Idle) /\ Annotates(Idle)' /\ Undoes(Idle)' /\ DOMAIN Idle = Fields
        /\ Idle.op \notin Annotation
    BY IdleKnows DEF NoteTyped, Annotates, Undoes, Annotation
  <1>8. ASSUME calm, apart'
        PROVE  /\ \A t \in Session : Agent(t) => t = s
               /\ \A h, k \in DOMAIN history' : history'[h].key = history'[k].key => h = k
               /\ \A h \in DOMAIN history' : history'[h].key > opsLeft'
               /\ HistoryLives' /\ NowhereElse' /\ Remembered' /\ AllSettled'
    <2>1. KeysDiffer /\ Placed
      BY <1>1, <1>8 DEF HistoryInv
    <2>2. \A t \in Session : Agent(t) => t = s
      BY <1>1, <2>1 DEF Placed, OneAgent, Agent
    <2>3. Annotates(session[s])
      BY <2>1 DEF Placed
    <2>4. NowhereElse'
      BY <1>1, <2>1 DEF Placed, NowhereElse, Live
    <2>5. CASE UNCHANGED history
      <3>1. HistoryLives' /\ Remembered'
        BY <1>1, <2>1, <2>5 DEF Placed, HistoryLives, Remembered, Live
      <3>2. \A j \in Live : Settled(j, n)
        <4>1. CASE history' # Append(history, row) /\ session[s].done = <<>>
          <5>1. ToSet(session[s].done) = {}
            BY <4>1 DEF ToSet
          <5> QED
            BY <1>1, <2>3, <5>1 DEF Annotates
        <4>2. CASE history' # Append(history, row) /\ ~Moving(session[s])
          BY <1>1, <2>3, <4>2 DEF Annotates
        <4>3. CASE history' = Append(history, row)
          BY <1>4, <1>5, <2>5, <4>3
        <4> QED
          BY <1>1, <4>1, <4>2, <4>3
      <3>3. AllSettled'
        BY <1>1, <2>5, <3>2 DEF AllSettled, Settled, Live
      <3> QED
        BY <1>1, <2>1, <2>2, <2>4, <2>5, <3>1, <3>3 DEF KeysDiffer
    <2>6. CASE history' = Append(history, row)
      <3>1. \A h, k \in DOMAIN history' : history'[h].key = history'[k].key => h = k
        BY <1>1, <1>2, <1>4, <1>5, <2>1, <2>6 DEF KeysDiffer
      <3>2. \A h \in DOMAIN history' : history'[h].key > opsLeft'
        BY <1>1, <1>2, <1>4, <1>5, <2>1, <2>6 DEF KeysDiffer
      <3>3. HistoryLives'
        <4>1. Live' = Live /\ ToSet(row.ids) \subseteq Live
          BY <1>1, <1>2, <2>3 DEF Annotates, Live
        <4>2. \A h \in 1 .. n : ToSet(history[h].ids) \subseteq Live
          BY <1>4, <2>1 DEF Placed, HistoryLives
        <4> QED
          BY <1>5, <2>6, <4>1, <4>2 DEF HistoryLives
      <3>4. \A j : Sets(row, j) <=> Moving(session[s]) /\ j \in ToSet(session[s].done)
        BY <1>2 DEF Sets, Moving
      <3>5. Remembered'
        <4> SUFFICES ASSUME NEW h \in DOMAIN history', NEW j \in Id, Sets(history'[h], j)
                     PROVE  Put(history', geocoded[j], j, h - 1, history'[h].was[j])
          BY <1>1 DEF Remembered
        <4>1. CASE h = n + 1
          <5>1. Put(history, geocoded[j], j, n, row.was[j])
            BY <1>1, <1>2, <1>5, <2>3, <2>6, <3>4, <4>1 DEF Annotates
          <5>2. Put(history', geocoded[j], j, n, row.was[j])
            BY <1>5, <2>6, <5>1, PutAlike
          <5> QED
            BY <1>4, <1>5, <2>6, <4>1, <5>2
        <4>2. CASE h \in 1 .. n
          <5>1. Put(history, geocoded[j], j, h - 1, history[h].was[j])
            BY <1>4, <1>5, <2>1, <2>6, <4>2 DEF Placed, Remembered
          <5>2. \A k \in 1 .. (h - 1) : history[k] = history'[k]
            BY <1>4, <1>5, <2>6, <4>2
          <5>3. Put(history', geocoded[j], j, h - 1, history[h].was[j])
            BY <5>1, <5>2, PutAlike
          <5> QED
            BY <1>5, <2>6, <4>2, <5>3
        <4> QED
          BY <1>5, <2>6, <4>1, <4>2
      <3>6. ASSUME NEW j \in Live
            PROVE  Put(history', geocoded[j], j, n + 1, places[j])
        <4>1. CASE Sets(row, j)
          <5>1. places[j] = row.label
            BY <1>1, <1>2, <2>3, <3>4, <4>1 DEF Annotates
          <5> QED
            BY <1>4, <1>5, <2>6, <4>1, <5>1, PutMore
        <4>2. CASE ~Sets(row, j)
          <5>1. Settled(j, n)
            BY <1>1, <2>3, <3>4, <4>2 DEF Annotates
          <5>2. Put(history', geocoded[j], j, n, places[j])
            BY <1>5, <2>6, <5>1, PutAlike DEF Settled
          <5> QED
            BY <1>4, <1>5, <2>6, <4>2, <5>2, PutMore
        <4> QED
          BY <4>1, <4>2
      <3>7. AllSettled'
        BY <1>1, <1>5, <2>6, <3>6 DEF AllSettled, Settled, Live
      <3> QED
        BY <2>2, <2>4, <3>1, <3>2, <3>3, <3>5, <3>7
    <2> QED
      BY <1>1, <2>5, <2>6
  <1> QED
    BY <1>1, <1>4, <1>6, <1>7, <1>8, AgentFrame

\* What is left of a sequence when one of it is removed.
LEMMA RemoveTyped ==
    ASSUME NEW S, NEW q \in Seq(S), NEW h \in DOMAIN q
    PROVE  RemoveAt(q, h) \in Seq(S)
  <1>1. h \in Nat /\ 1 <= h /\ h <= Len(q) /\ Len(q) \in Nat
    OBVIOUS
  <1>2. SubSeq(q, 1, h - 1) \in Seq(S) /\ SubSeq(q, h + 1, Len(q)) \in Seq(S)
    BY <1>1
  <1> QED
    BY <1>2, ConcatProperties DEF RemoveAt

\* An undo ends: the row it undid was still the last, and is gone.
LEMMA ForgetsInPlace ==
    ASSUME RowsInv, HistoryInv, NEW s \in Session, UndoForget(s)
    PROVE  HistoryInv'
  <1> DEFINE there == {h \in DOMAIN history : history[h].key = Item(s)}
             n == Len(history)
  <1>1. /\ session[s].op = "undo" /\ Goes(s, Idle)
        /\ UNCHANGED <<photo, geocoded, calm, places, apart, opsLeft>>
        /\ history' \in IF there = {} THEN {history} ELSE {RemoveAt(history, h) : h \in there}
    BY DEF UndoForget, Doing, OnlyNotes, End
  <1>2. history \in Seq(NoteRows) /\ PlacesTyped' /\ opsLeft' \in 0 .. MaxOps
    BY <1>1 DEF HistoryInv, NotesTyped, PlacesTyped, HistoryTyped
  <1>3. HistoryTyped'
    BY <1>1, <1>2, RemoveTyped DEF HistoryTyped
  <1>4. NoteTyped(Idle) /\ Annotates(Idle)' /\ Undoes(Idle)' /\ DOMAIN Idle = Fields
        /\ Idle.op \notin Annotation
    BY IdleKnows DEF NoteTyped, Annotates, Undoes, Annotation
  <1>5. ASSUME calm, apart'
        PROVE  /\ \A t \in Session : Agent(t) => t = s
               /\ \A h, k \in DOMAIN history' : history'[h].key = history'[k].key => h = k
               /\ \A h \in DOMAIN history' : history'[h].key > opsLeft'
               /\ HistoryLives' /\ NowhereElse' /\ Remembered' /\ AllSettled'
    <2>1. KeysDiffer /\ Placed
      BY <1>1, <1>5 DEF HistoryInv
    <2>2. \A t \in Session : Agent(t) => t = s
      BY <1>1, <2>1 DEF Placed, OneAgent, Agent
    <2>3. history # <<>> /\ Last(history).key = Item(s) /\ \A j \in Live : Settled(j, n - 1)
      BY <1>1, <2>1 DEF Placed, Undoes, Item
    <2>4. /\ RemoveAt(history, n) \in Seq(NoteRows) /\ Len(RemoveAt(history, n)) = n - 1
          /\ \A h \in 1 .. (n - 1) : RemoveAt(history, n)[h] = history[h]
          /\ n \in Nat \ {0} /\ Last(history) = history[n] /\ DOMAIN history = 1 .. n
      BY <1>2, <2>3, WithoutLast
    <2>5. there = {n}
      <3>1. n \in there
        BY <2>3, <2>4
      <3> QED
        BY <2>1, <3>1 DEF KeysDiffer
    <2>6. history' = RemoveAt(history, n)
      BY <1>1, <2>5
    <2> HIDE DEF there
    <2>7. DOMAIN history' = 1 .. (n - 1) /\ \A h \in 1 .. (n - 1) : h \in DOMAIN history
      BY <2>4, <2>6
    <2>8. \A h, k \in DOMAIN history' : history'[h].key = history'[k].key => h = k
      BY <2>1, <2>4, <2>6, <2>7 DEF KeysDiffer
    <2>9. \A h \in DOMAIN history' : history'[h].key > opsLeft'
      BY <1>1, <2>1, <2>4, <2>6, <2>7 DEF KeysDiffer
    <2>10. HistoryLives' /\ NowhereElse'
      <3>1. \A h \in 1 .. (n - 1) : ToSet(history'[h].ids) \subseteq Live
        BY <2>1, <2>4, <2>6, <2>7 DEF Placed, HistoryLives
      <3> QED
        BY <1>1, <2>1, <2>7, <3>1 DEF Placed, HistoryLives, NowhereElse, Live
    <2>11. Remembered'
      <3> SUFFICES ASSUME NEW h \in DOMAIN history', NEW j \in Id, Sets(history'[h], j)
                   PROVE  Put(history', geocoded[j], j, h - 1, history'[h].was[j])
        BY <1>1 DEF Remembered
      <3>1. history'[h] = history[h] /\ h \in DOMAIN history
        BY <2>4, <2>6, <2>7
      <3>2. Put(history, geocoded[j], j, h - 1, history[h].was[j])
        BY <2>1, <3>1 DEF Placed, Remembered
      <3>3. \A k \in 1 .. (h - 1) : history[k] = history'[k]
        BY <2>4, <2>6, <2>7
      <3> QED
        BY <3>1, <3>2, <3>3, PutAlike
    <2>12. ASSUME NEW j \in Live
           PROVE  Put(history', geocoded[j], j, n - 1, places[j])
      BY <2>3, <2>4, <2>6, PutAlike DEF Settled
    <2>13. AllSettled'
      BY <1>1, <2>4, <2>6, <2>12 DEF AllSettled, Settled, Live
    <2> QED
      BY <2>2, <2>8, <2>9, <2>10, <2>11, <2>13
  <1> QED
    BY <1>1, <1>2, <1>3, <1>4, <1>5, AgentFrame

\* Every step keeps the places and the history together.
LEMMA StepHistory == RowsInv /\ HistoryInv /\ [Next]_vars => HistoryInv'
  <1> SUFFICES ASSUME RowsInv, HistoryInv, [Next]_vars
               PROVE  HistoryInv'
    OBVIOUS
  <1>1. ASSUME NEW s \in Session, NEW i \in Id,
               \/ DeleteBegins(s, i) \/ HashBegin(s, "hash", i) \/ HashBegin(s, "compare", i)
               \/ \E found \in Listings(Tag) : TagsBegin(s, i, found)
               \/ \E found \in Listings(Category) : CategoriesBegin(s, i, found)
               \/ \E others \in Listings(Id) : MarkBegin(s, i, others)
               \/ \E label \in Label : LinkBegin(s, i, label)
        PROVE  HistoryInv'
    BY <1>1, TasksKeepHistory
  <1>2. ASSUME NEW s \in Session,
               \/ DeleteFile(s) \/ TagsLock(s) \/ TagsCommit(s)
               \/ CategoriesLook(s) \/ CategoryCreated(s) \/ CategoriesCommit(s)
               \/ Hashes(s) \/ RecordPair(s) \/ Recorded(s) \/ LinkCommit(s)
        PROVE  HistoryInv'
    BY <1>2, TasksKeepHistory
  <1>3. ASSUME NEW s \in Session,
               \/ DeleteCommits(s) \/ AnnotateLook(s) \/ AnnotateWrite(s) \/ AnnotateEnd(s)
               \/ UndoBegin(s) \/ UndoForget(s)
        PROVE  HistoryInv'
    BY <1>3, PhotosKeepHistory, LooksInPlace, WritesInPlace, EndsInPlace, UndoBeginsInPlace,
       ForgetsInPlace
  <1>4. ASSUME NEW s \in Session, NEW ids \in Listings(Id),
               \/ \E tag \in Tag : AnnotateBegin(s, "add_tag", ids, tag)
               \/ \E category \in Category : AnnotateBegin(s, "add_category", ids, category)
               \/ \E place \in Place : AnnotateBegin(s, "add_geoposition", ids, place)
        PROVE  HistoryInv'
    <2>1. \E op \in Annotation, label \in Label \cup Place :
             (op = "add_geoposition" <=> label \in Place) /\ AnnotateBegin(s, op, ids, label)
      BY <1>4, LibraryAssumption DEF Annotation, Label
    <2> QED
      BY <2>1, AnnotateBeginsInPlace
  <1>5. CASE \/ \E p \in Picture : AddPhoto(p)
             \/ \E p \in Pair : DismissDuplicate(p)
             \/ \E i \in Id : \/ \E label \in Label : Unlink(i, label)
                              \/ \E place \in Place : Geocode(i, place)
             \/ Kill
    BY <1>5, PhotosKeepHistory
  <1>6. CASE UNCHANGED vars
    <2>1. opsLeft' \in 0 .. MaxOps /\ opsLeft' <= opsLeft
      BY <1>6, LibraryAssumption DEF vars, HistoryInv, NotesTyped
    <2> QED
      BY <1>6, <2>1, HistoryFrame DEF vars, aux
  <1> QED
    BY <1>1, <1>2, <1>3, <1>4, <1>5, <1>6 DEF Next, Hashes

\* The places, the history and what the agent's sessions noted agree in every reachable state.
THEOREM HistoryInvariance == Spec => []HistoryInv
  <1>1. ASSUME Init
        PROVE  HistoryInv
    <2>1. /\ \A s \in Session : session[s] = Idle
          /\ Live = {} /\ history = <<>> /\ opsLeft = MaxOps
          /\ places = [i \in Id |-> NoPlace] /\ geocoded = [i \in Id |-> NoPlace]
      BY <1>1 DEF Init, Live
    <2>2. \A s \in Session : /\ ~Agent(s) /\ NoteTyped(session[s])
                             /\ Annotates(session[s]) /\ Undoes(session[s])
      BY <2>1, IdleKnows DEF Agent, NoteTyped, Annotates, Undoes, Annotation
    <2>3. opsLeft \in 0 .. MaxOps /\ PlacesTyped /\ HistoryTyped /\ DOMAIN history = {}
      BY <2>1, LibraryAssumption DEF PlacesTyped, HistoryTyped
    <2>4. KeysDiffer
      BY <2>1, <2>3, IdleKnows DEF KeysDiffer, Annotation
    <2>5. Placed
      BY <2>1, <2>2, <2>3 DEF Placed, OneAgent, HistoryLives, NowhereElse, Remembered, AllSettled
    <2> QED
      BY <2>2, <2>3, <2>4, <2>5 DEF HistoryInv, NotesTyped
  <1> QED
    BY <1>1, StepHistory, RowsInvariance, PTL DEF Spec

\* However the agent's actions, their undos, geocoding and edits follow each other: as long as
\* no action overlapped another, a photo is where the last action that names it put it, and
\* once all of them are undone where it was without them.
THEOREM PlacesAreOfTheHistory == Spec => []PlacesFollowHistory
  <1>1. ASSUME HistoryInv
        PROVE  PlacesFollowHistory
    <2> SUFFICES ASSUME calm, apart, \A s \in Session : ~Agent(s), NEW i \in Live
                 PROVE  places[i] = IF Setters(i) = {} THEN geocoded[i] ELSE LastSet(i)
      BY DEF PlacesFollowHistory
    <2>1. Put(history, geocoded[i], i, Len(history), places[i])
      BY <1>1 DEF HistoryInv, Placed, AllSettled, Settled
    <2>2. Len(history) \in Nat /\ DOMAIN history = 1 .. Len(history)
      BY <1>1 DEF HistoryInv, NotesTyped, HistoryTyped
    <2>3. Setters(i) = {h \in 1 .. Len(history) : Sets(history[h], i)}
      BY <2>2 DEF Setters, Sets, Moving
    <2>4. CASE Setters(i) = {}
      BY <2>1, <2>3, <2>4 DEF Put
    <2>5. CASE Setters(i) # {}
      <3>1. PICK h \in Setters(i) : /\ places[i] = history[h].label
                                    /\ \A k \in 1 .. Len(history) : h < k => ~Sets(history[k], i)
        BY <2>1, <2>3, <2>5 DEF Put
      <3>2. \A k \in Setters(i) : k <= h
        BY <2>2, <2>3, <3>1
      <3>3. \A g \in Setters(i) : (\A k \in Setters(i) : k <= g) => g = h
        BY <2>2, <2>3, <3>2
      <3>4. (CHOOSE g \in Setters(i) : \A k \in Setters(i) : k <= g) = h
        BY <3>2, <3>3
      <3> QED
        BY <2>5, <3>1, <3>4 DEF LastSet
    <2> QED
      BY <2>4, <2>5
  <1> QED
    BY <1>1, HistoryInvariance, PTL

--------------------------------------------------------------------------------
(* Typing *)

OpNames == Annotation \cup {"none", "tags", "categories", "hash", "compare", "link", "delete",
                            "mark", "undo"}
AtNames == {"none", "lock", "look", "create", "write", "search", "record", "file", "forget"}

\* What a session's record holds, beside what RowsInv and HistoryInv say of it.
Good(x) ==
    /\ x \in Sessions
    /\ x.op \in {"tags", "categories"} => x.todo \in Seq(Label) /\ x.new \subseteq Label
    /\ x.op = "categories" => x.todo \in Seq(Category)
    /\ x.op \in {"link", "add_tag", "add_category"} => x.label \in Label
    /\ x.at = "create" => x.todo # <<>>
    /\ x.at = "record" => Head(x.ids) \notin ToSet(x.todo)
GoodSessions == session \in [Session -> Sessions] /\ \A s \in Session : Good(session[s])

LinkRows == [id : Id, label : Label, of : Picture \cup {NoPicture}]
Marks == /\ disk \subseteq Picture /\ categories \subseteq Category
         /\ locked \in Session \cup {Nobody}
         /\ dismissed \subseteq SUBSET Id /\ searched \subseteq Id
         /\ calm \in BOOLEAN /\ apart \in BOOLEAN
Stored == links \subseteq LinkRows /\ records \subseteq Pair /\ Marks
TypesInv == GoodSessions /\ Stored

\* What the other two invariants type.
Known == RecordsTyped /\ NotesTyped

\* A session takes a step to a good record.
LEMMA GoesGood ==
    ASSUME GoodSessions, NEW s \in Session, NEW next, Goes(s, next), Good(next)
    PROVE  GoodSessions'
  <1>1. session' = [session EXCEPT ![s] = next] /\ next \in Sessions
    BY DEF Goes, Good
  <1>2. session' \in [Session -> Sessions]
    BY <1>1 DEF GoodSessions
  <1>3. \A t \in Session : Good(session'[t])
    BY <1>1 DEF GoodSessions
  <1> QED
    BY <1>2, <1>3 DEF GoodSessions

LEMMA IdleGood == Good(Idle)
  <1>1. /\ Idle.op = "none" /\ Idle.at = "none" /\ Idle.key = 0 /\ Idle.ids = <<>>
        /\ Idle.todo = <<>> /\ Idle.new = {}
    BY DEF Idle
  <1>2. Idle \in Sessions
    BY LibraryAssumption DEF Idle, Sessions, Annotation
  <1> QED
    BY <1>1, <1>2 DEF Good

\* An operation begins with a good record.
LEMMA BeginGood ==
    ASSUME GoodSessions, Known, NEW s \in Session, NEW op \in OpNames, NEW at \in AtNames,
           NEW ids \in Seq(Id), NEW label \in Label \cup Place \cup {NoPlace},
           NEW todo \in Seq(Label \cup Nat), Begin(s, op, at, ids, label, todo),
           op \in {"tags", "categories"} => todo \in Seq(Label),
           op = "categories" => todo \in Seq(Category),
           op \in {"link", "add_tag", "add_category"} => label \in Label,
           at = "record" => Head(ids) \notin ToSet(todo), at # "create"
    PROVE  GoodSessions'
  <1> DEFINE r1 == [Idle EXCEPT !.op = op]
             r2 == [r1 EXCEPT !.at = at]
             r3 == [r2 EXCEPT !.key = opsLeft]
             r4 == [r3 EXCEPT !.ids = ids]
             r5 == [r4 EXCEPT !.of = photo]
             r6 == [r5 EXCEPT !.label = label]
             r7 == [r6 EXCEPT !.todo = todo]
  <1>1. Goes(s, r7) /\ photo \in [Id -> Picture \cup {NoPicture}] /\ opsLeft \in 0..MaxOps
    BY DEF Begin, Known, RecordsTyped, Tables, NotesTyped
  <1>2. Idle \in Sessions
    BY IdleGood DEF Good
  <1>3. r1 \in Sessions
    BY <1>2 DEF Sessions, OpNames
  <1>4. r2 \in Sessions
    <2> HIDE DEF r1
    <2> QED
      BY <1>3 DEF Sessions, AtNames
  <1>5. r3 \in Sessions
    <2> HIDE DEF r2
    <2> QED
      BY <1>1, <1>4 DEF Sessions
  <1>6. r4 \in Sessions
    <2> HIDE DEF r3
    <2> QED
      BY <1>5 DEF Sessions
  <1>7. r5 \in Sessions
    <2> HIDE DEF r4
    <2> QED
      BY <1>1, <1>6 DEF Sessions
  <1>8. r6 \in Sessions
    <2> HIDE DEF r5
    <2> QED
      BY <1>7 DEF Sessions
  <1>9. r7 \in Sessions
    <2> HIDE DEF r6
    <2> QED
      BY <1>8 DEF Sessions
  <1>10. /\ r7.op = op /\ r7.at = at /\ r7.ids = ids /\ r7.label = label /\ r7.todo = todo
         /\ r7.new = {}
    BY DEF Idle
  <1> HIDE DEF r7
  <1>11. Good(r7)
    BY <1>9, <1>10 DEF Good
  <1> QED
    BY <1>1, <1>11, GoesGood

\* A listing of ids, or of labels, is a sequence of them; sequences of ids are of numbers.
LEMMA LabelListing ==
    ASSUME NEW S, IsFiniteSet(S), NEW q \in Listings(S)
    PROVE  q \in Seq(S)
  <1>1. PICK R \in SUBSET S : q = SetToSeq(R)
    BY DEF Listings
  <1>2. IsFiniteSet(R)
    BY FS_Subset
  <1>3. q \in Seq(R)
    BY <1>1, <1>2, Listing
  <1> QED
    BY <1>1, <1>3, SeqMonotonic

LEMMA Wider ==
    /\ \A q : q \in Seq(Id) => q \in Seq(Label \cup Nat)
    /\ \A q : q \in Seq(Tag) => q \in Seq(Label)
    /\ \A q : q \in Seq(Category) => q \in Seq(Label)
    /\ \A q : q \in Seq(Label) => q \in Seq(Label \cup Nat)
  <1>1. Id \subseteq Label \cup Nat /\ Tag \subseteq Label /\ Category \subseteq Label
        /\ Label \subseteq Label \cup Nat
    BY DEF Id, Label
  <1> QED
    BY <1>1, SeqMonotonic

\* A session begins.
LEMMA BeginTypes ==
    ASSUME Known, TypesInv, NEW s \in Session,
           \/ \E i \in Id : \/ DeleteBegins(s, i) \/ HashBegin(s, "hash", i) \/ HashBegin(s, "compare", i)
                            \/ \E found \in Listings(Tag) : TagsBegin(s, i, found)
                            \/ \E found \in Listings(Category) : CategoriesBegin(s, i, found)
                            \/ \E others \in Listings(Id) : MarkBegin(s, i, others)
                            \/ \E label \in Label : LinkBegin(s, i, label)
           \/ \E ids \in Listings(Id) :
                 \/ \E tag \in Tag : AnnotateBegin(s, "add_tag", ids, tag)
                 \/ \E category \in Category : AnnotateBegin(s, "add_category", ids, category)
                 \/ \E place \in Place : AnnotateBegin(s, "add_geoposition", ids, place)
    PROVE  TypesInv'
  <1> USE DEF TypesInv, Stored
  <1>1. ASSUME NEW i \in Id, NEW op \in OpNames, NEW at \in AtNames \ {"record", "create"}, NEW label, NEW todo,
               Begin(s, op, at, <<i>>, label, todo), op \notin Annotation,
               label \in Label \/ (label = NoPlace /\ op # "link"),
               todo = <<>> \/ todo \in Seq(Category) \/ (todo \in Seq(Tag) /\ op = "tags")
        PROVE  GoodSessions'
    <2>1. <<i>> \in Seq(Id)
      BY OneFirst
    <2>2. todo \in Seq(Label) /\ (op = "categories" => todo \in Seq(Category))
      <3>1. <<>> \in Seq(Category)
        OBVIOUS
      <3> QED
        BY <1>1, <3>1, Wider
    <2> QED
      BY <1>1, <2>1, <2>2, Wider, BeginGood DEF Annotation
  <1>2. ASSUME NEW i \in Id, NEW found,
               \/ DeleteBegins(s, i) \/ HashBegin(s, "hash", i) \/ HashBegin(s, "compare", i)
               \/ found \in Listings(Tag) /\ TagsBegin(s, i, found)
               \/ found \in Listings(Category) /\ CategoriesBegin(s, i, found)
        PROVE  TypesInv'
    <2>1. found \in Listings(Tag) => found \in Seq(Tag)
      BY LabelListing, LibraryAssumption
    <2>2. found \in Listings(Category) => found \in Seq(Category)
      BY LabelListing, LibraryAssumption
    <2>o. {"delete", "hash", "compare", "tags", "categories"} \subseteq OpNames \ Annotation
          /\ {"write", "lock", "look"} \subseteq AtNames \ {"record", "create"}
      BY DEF OpNames, AtNames, Annotation
    <2>3. GoodSessions'
      <3>1. ASSUME DeleteBegins(s, i) PROVE GoodSessions'
        <4>1. Begin(s, "delete", "write", <<i>>, NoPlace, <<>>)
          BY <3>1 DEF DeleteBegins
        <4> QED BY <1>1, <2>o, <4>1
      <3>2. ASSUME NEW op \in {"hash", "compare"}, HashBegin(s, op, i) PROVE GoodSessions'
        <4>1. Begin(s, op, "look", <<i>>, NoPlace, <<>>)
          BY <3>2 DEF HashBegin
        <4> QED BY <1>1, <2>o, <4>1
      <3>3. ASSUME found \in Listings(Tag), TagsBegin(s, i, found) PROVE GoodSessions'
        <4>1. Begin(s, "tags", "lock", <<i>>, NoPlace, found)
          BY <3>3 DEF TagsBegin
        <4> QED BY <1>1, <2>o, <2>1, <3>3, <4>1
      <3>4. ASSUME found \in Listings(Category), CategoriesBegin(s, i, found) PROVE GoodSessions'
        <4>1. Begin(s, "categories", "look", <<i>>, NoPlace, found)
          BY <3>4 DEF CategoriesBegin
        <4> QED BY <1>1, <2>o, <2>2, <3>4, <4>1
      <3> QED
        BY <1>2, <3>1, <3>2, <3>3, <3>4
    <2>4. Stored'
      BY <1>2 DEF DeleteBegins, HashBegin, TagsBegin, CategoriesBegin, OnlyLinks, OnlyPairs, aux, Marks
    <2> QED
      BY <2>3, <2>4
  <1>3. ASSUME NEW i \in Id, NEW label \in Label, LinkBegin(s, i, label)
        PROVE  TypesInv'
    <2>1. GoodSessions'
      <3>1. Begin(s, "link", "write", <<i>>, label, <<>>)
        BY <1>3 DEF LinkBegin
      <3>2. "link" \in OpNames \ Annotation /\ "write" \in AtNames \ {"record", "create"}
        BY DEF OpNames, AtNames, Annotation
      <3> QED
        BY <1>1, <3>1, <3>2
    <2>2. Stored'
      BY <1>3 DEF LinkBegin, OnlyLinks, aux, Marks
    <2> QED
      BY <2>1, <2>2
  <1>4. ASSUME NEW i \in Id, NEW others \in Listings(Id), MarkBegin(s, i, others)
        PROVE  TypesInv'
    <2>1. others \in Seq(Id)
      BY IdListing
    <2>2. <<i>> \o others \in Seq(Id) /\ Head(<<i>> \o others) = i
      BY <2>1, OneFirst
    <2>3. GoodSessions'
      BY <1>4, <2>1, <2>2, Wider, BeginGood DEF MarkBegin, OpNames, AtNames, Annotation
    <2>4. Stored'
      BY <1>4 DEF MarkBegin, OnlyPairs, Marks
    <2> QED
      BY <2>3, <2>4
  <1>5. ASSUME NEW ids \in Listings(Id), NEW op \in Annotation, NEW label \in Label \cup Place,
               op # "add_geoposition" => label \in Label,
               op = "add_category" => label \in Category, AnnotateBegin(s, op, ids, label)
        PROVE  TypesInv'
    <2>1. ids \in Seq(Id)
      BY IdListing
    <2>2. GoodSessions'
      BY <1>5, <2>1, Wider, BeginGood DEF AnnotateBegin, OpNames, AtNames, Annotation
    <2>3. Stored'
      BY <1>5 DEF AnnotateBegin, OnlyNotes, Alone, Marks
    <2> QED
      BY <2>2, <2>3
  <1>6. ASSUME NEW ids \in Listings(Id),
               \/ \E tag \in Tag : AnnotateBegin(s, "add_tag", ids, tag)
               \/ \E category \in Category : AnnotateBegin(s, "add_category", ids, category)
               \/ \E place \in Place : AnnotateBegin(s, "add_geoposition", ids, place)
        PROVE  TypesInv'
    <2>1. {"add_tag", "add_category", "add_geoposition"} = Annotation
          /\ Tag \subseteq Label /\ Category \subseteq Label
      BY DEF Annotation, Label
    <2> QED
      BY <1>5, <1>6, <2>1
  <1> HIDE DEF TypesInv, Stored
  <1> QED
    BY <1>2, <1>3, <1>4, <1>6

\* Links of a session's photos are rows of the table.
LEMMA RowsGood ==
    ASSUME Known, NEW s \in Session, NEW i \in Id, NEW labels \in SUBSET Label
    PROVE  Rows(s, i, labels) \subseteq LinkRows
  <1>1. session[s].of \in [Id -> Picture \cup {NoPicture}]
    BY DEF Known, RecordsTyped, Typed
  <1> QED
    BY <1>1 DEF Rows, LinkRows

\* A session that ends, with links stored or not.
LEMMA EndTypes ==
    ASSUME TypesInv, NEW s \in Session, End(s)
    PROVE  GoodSessions'
  BY IdleGood, GoesGood DEF End, TypesInv

\* A task that pends, creates or stores links, and the edit of one.
LEMMA LinkTypes ==
    ASSUME Known, TypesInv, NEW s \in Session,
           \/ TagsLock(s) \/ TagsCommit(s) \/ CategoriesLook(s) \/ CategoryCreated(s)
           \/ CategoriesCommit(s) \/ LinkCommit(s)
    PROVE  TypesInv'
  <1> DEFINE x == session[s]
  <1>1. x \in Sessions /\ Good(x) /\ GoodSessions /\ Stored /\ Marks
    BY DEF TypesInv, GoodSessions, Stored
  <1>2. ASSUME NEW labels \in SUBSET Label, x.op \in {"tags", "categories", "link"}
        PROVE  Rows(s, Target(s), labels) \subseteq LinkRows
    <2>1. Target(s) \in Id
      BY <1>2, TargetIsId DEF Known, OfPhoto
    <2> QED
      BY <2>1, RowsGood
  <1>3. ASSUME x.op \in {"tags", "categories"}
        PROVE  x.todo \in Seq(Label) /\ x.new \subseteq Label /\ x.op \notin {"link", "add_tag", "add_category"}
               /\ (x.todo # <<>> => Item(s) \in Label /\ Tail(x.todo) \in Seq(Label) /\ ToSet(x.todo) \subseteq Label)
               /\ ToSet(x.todo) \subseteq Label
    BY <1>1, <1>3, HeadTail DEF Good, Item, ToSet
  <1>4. ASSUME x.op = "categories"
        PROVE  x.todo \in Seq(Category)
               /\ (x.todo # <<>> => Item(s) \in Category /\ Tail(x.todo) \in Seq(Category))
    BY <1>1, <1>4, HeadTail DEF Good, Item
  <1>5. ASSUME NEW at \in AtNames \ {"record"}, NEW todo \in Seq(Label), NEW new \in SUBSET Label,
               x.op \in {"tags", "categories"}, x.op = "categories" => todo \in Seq(Category),
               at = "create" => todo # <<>>
        PROVE  Good([x EXCEPT !.at = at, !.todo = todo, !.new = new])
    <2> DEFINE y == [x EXCEPT !.at = at, !.todo = todo, !.new = new]
    <2>1. todo \in Seq(Label \cup Nat) /\ new \in SUBSET (Label \cup Id)
      BY Wider
    <2>2. y \in Sessions
      <3> DEFINE y1 == [x EXCEPT !.at = at]
                 y2 == [y1 EXCEPT !.todo = todo]
                 y3 == [y2 EXCEPT !.new = new]
      <3>1. y1 \in Sessions
        BY <1>1 DEF Sessions, AtNames
      <3>2. y2 \in Sessions
        <4> HIDE DEF y1
        <4> QED
          BY <2>1, <3>1 DEF Sessions
      <3>3. y3 \in Sessions
        <4> HIDE DEF y2
        <4> QED
          BY <2>1, <3>2 DEF Sessions
      <3> QED
        BY <3>3
    <2>3. y.op = x.op /\ y.at = at /\ y.todo = todo /\ y.new = new
      BY <1>1 DEF Sessions
    <2>4. x.op \in {"tags", "categories"} /\ at # "record" /\ x.op \notin {"link", "add_tag", "add_category"}
      BY <1>5
    <2>5. Good(y)
      <3> HIDE DEF y
      <3> QED
        BY <1>5, <2>2, <2>3, <2>4 DEF Good
    <2> QED
      BY <2>5
  <1>6. CASE TagsLock(s)
    <2>1. x.op = "tags"
      BY <1>6 DEF TagsLock, Doing
    <2> DEFINE new == {b \in ToSet(x.todo) : ~Linked(Target(s), b)}
               y == [x EXCEPT !.at = "write", !.todo = x.todo, !.new = new]
    <2>2. new \in SUBSET Label
      BY <1>3, <2>1
    <2>3. Good(y)
      <3> HIDE DEF new
      <3> QED
        BY <1>3, <1>5, <2>1, <2>2 DEF AtNames
    <2>4. [x EXCEPT !.at = "write", !.new = new] = y
      BY <1>1 DEF Sessions
    <2>5. Goes(s, y) \/ End(s)
      BY <1>6, <2>4 DEF TagsLock
    <2> HIDE DEF y
    <2>6. GoodSessions'
      BY <1>1, <2>3, <2>5, GoesGood, EndTypes
    <2>7. Stored'
      BY <1>1, <1>6 DEF TagsLock, OnlyLinks, aux, Marks, Stored
    <2> QED
      BY <2>6, <2>7 DEF TypesInv
  <1>7. CASE TagsCommit(s) \/ CategoriesCommit(s)
    <2>1. End(s) /\ x.op \in {"tags", "categories"}
      BY <1>7 DEF TagsCommit, CategoriesCommit, Doing
    <2>2. Rows(s, Target(s), x.new) \subseteq LinkRows
      BY <1>2, <1>3, <2>1
    <2>3. links' \subseteq LinkRows
      BY <1>1, <1>7, <2>2 DEF TagsCommit, CategoriesCommit, Commit, Stored
    <2>4. Stored'
      BY <1>1, <1>7, <2>3 DEF TagsCommit, CategoriesCommit, OnlyLinks, aux, Marks, Stored
    <2> QED
      BY <2>1, <2>4, EndTypes DEF TypesInv
  <1>8. ASSUME NEW more \in SUBSET Label, x.op = "categories", x.todo # <<>>
        PROVE  /\ Good([x EXCEPT !.at = "look", !.todo = Tail(@), !.new = more])
               /\ Good([x EXCEPT !.at = "create"])
    <2>1. [x EXCEPT !.at = "create"] = [x EXCEPT !.at = "create", !.todo = x.todo, !.new = x.new]
      BY <1>1 DEF Sessions
    <2>2. Good([x EXCEPT !.at = "create", !.todo = x.todo, !.new = x.new])
      BY <1>3, <1>4, <1>5, <1>8 DEF AtNames
    <2>3. Good([x EXCEPT !.at = "look", !.todo = Tail(x.todo), !.new = more])
      BY <1>3, <1>4, <1>5, <1>8 DEF AtNames
    <2> QED
      BY <2>1, <2>2, <2>3
  <1> DEFINE pend == IF Linked(Target(s), Item(s)) THEN x.new ELSE x.new \cup {Item(s)}
  <1>9. x.op = "categories" /\ x.todo # <<>> =>
            /\ Pended(s) = [x EXCEPT !.at = "look", !.todo = Tail(@), !.new = pend]
            /\ [Pended(s) EXCEPT !.new = @ \ x.new]
                 = [x EXCEPT !.at = "look", !.todo = Tail(@), !.new = pend \ x.new]
            /\ pend \in SUBSET Label
    BY <1>1, <1>3 DEF Pended, Sessions
  <1> HIDE DEF pend
  <1>10. CASE CategoriesLook(s)
    <2>1. x.op = "categories" /\ x.todo # <<>>
      BY <1>10 DEF CategoriesLook, Doing
    <2>2. Good(Pended(s)) /\ Good([x EXCEPT !.at = "create"])
      BY <1>8, <1>9, <2>1
    <2>3. Goes(s, Pended(s)) \/ Goes(s, [x EXCEPT !.at = "create"])
      BY <1>10 DEF CategoriesLook
    <2>4. GoodSessions'
      BY <1>1, <2>2, <2>3, GoesGood
    <2>5. Stored'
      BY <1>1, <1>10 DEF CategoriesLook, OnlyLinks, aux, Marks, Stored
    <2> QED
      BY <2>4, <2>5 DEF TypesInv
  <1>11. CASE CategoryCreated(s)
    <2>1. x.op = "categories" /\ x.todo # <<>>
      BY <1>1, <1>11 DEF CategoryCreated, Doing, Good
    <2>2. {Item(s)} \in SUBSET Label /\ pend \ x.new \in SUBSET Label
      BY <1>3, <1>9, <2>1
    <2>3. Good([x EXCEPT !.at = "look", !.todo = Tail(@), !.new = {Item(s)}])
      BY <1>8, <2>1, <2>2
    <2>4. Good([Pended(s) EXCEPT !.new = @ \ x.new])
      BY <1>8, <1>9, <2>1, <2>2
    <2>5. CASE Item(s) \notin categories /\ ~Collides(s)
      <3>1. Goes(s, [x EXCEPT !.at = "look", !.todo = Tail(@), !.new = {Item(s)}]) /\ Commit(s)
            /\ categories' = categories \cup {Item(s)}
        BY <1>11, <2>5 DEF CategoryCreated
      <3>2. GoodSessions'
        BY <1>1, <2>3, <3>1, GoesGood
      <3>3. links' \subseteq LinkRows
        BY <1>1, <1>2, <1>3, <2>1, <3>1 DEF Commit, Stored
      <3>4. categories' \subseteq Category
        BY <1>1, <1>4, <2>1, <3>1 DEF Marks
      <3>5. Stored'
        BY <1>1, <1>11, <3>3, <3>4 DEF CategoryCreated, OnlyLinks, aux, Marks, Stored
      <3> QED
        BY <3>2, <3>5 DEF TypesInv
    <2>6. CASE ~(Item(s) \notin categories /\ ~Collides(s))
      <3>1. Goes(s, [Pended(s) EXCEPT !.new = @ \ x.new]) \/ End(s)
        BY <1>11, <2>6 DEF CategoryCreated
      <3>2. GoodSessions'
        BY <1>1, <2>4, <3>1, GoesGood, EndTypes
      <3>3. Stored'
        BY <1>1, <1>11, <2>6 DEF CategoryCreated, OnlyLinks, aux, Marks, Stored
      <3> QED
        BY <3>2, <3>3 DEF TypesInv
    <2> QED
      BY <2>5, <2>6
  <1>12. CASE LinkCommit(s)
    <2>1. End(s) /\ x.op = "link" /\ x.label \in Label
      BY <1>1, <1>12 DEF LinkCommit, Doing, Good
    <2>2. Rows(s, Target(s), {x.label}) \subseteq LinkRows
      BY <1>2, <2>1
    <2>3. links' \subseteq LinkRows /\ categories' \subseteq Category
      BY <1>1, <1>12, <2>2 DEF LinkCommit, Marks, Stored
    <2>4. Stored'
      BY <1>1, <1>12, <2>3 DEF LinkCommit, OnlyLinks, aux, Marks, Stored
    <2> QED
      BY <2>1, <2>4, EndTypes DEF TypesInv
  <1> QED
    BY <1>6, <1>7, <1>10, <1>11, <1>12

\* A session of one photo goes on.
LEMMA MovedGood ==
    ASSUME NEW x, Good(x), NEW at \in AtNames \ {"record", "create"}
    PROVE  Good([x EXCEPT !.at = at])
  <1> DEFINE y == [x EXCEPT !.at = at]
  <1>1. y \in Sessions /\ y.at = at /\ y.op = x.op /\ y.todo = x.todo /\ y.new = x.new
        /\ y.label = x.label /\ y.ids = x.ids
    BY DEF Good, Sessions, AtNames
  <1>2. Good(y)
    <2> HIDE DEF y
    <2> QED
      BY <1>1 DEF Good
  <1> QED
    BY <1>2

\* A session that lists photos goes on to the next one, or begins to list them.
LEMMA ListedGood ==
    ASSUME NEW x, Good(x), NEW todo \in Seq(Id), x.op \in {"hash", "mark"},
           Head(x.ids) \notin ToSet(todo)
    PROVE  Good([x EXCEPT !.at = "record", !.todo = todo])
  <1> DEFINE y1 == [x EXCEPT !.at = "record"]
             y == [y1 EXCEPT !.todo = todo]
  <1>1. y1 \in Sessions /\ y1.at = "record" /\ y1.op = x.op /\ y1.ids = x.ids
    BY DEF Good, Sessions
  <1>2. todo \in Seq(Label \cup Nat)
    BY Wider
  <1>3. y \in Sessions /\ y.at = "record" /\ y.op = x.op /\ y.ids = x.ids /\ y.todo = todo
    <2> HIDE DEF y1
    <2> QED
      BY <1>1, <1>2 DEF Sessions
  <1>4. Good(y)
    <2>1. y.op \notin {"tags", "categories", "link", "add_tag", "add_category"}
      BY <1>3
    <2> HIDE DEF y
    <2> QED
      BY <1>3, <2>1 DEF Good
  <1> QED
    BY <1>4

\* Hashes, searches and duplicate records.
LEMMA PairsTypes ==
    ASSUME Known, TypesInv, NEW s \in Session,
           Hashes(s) \/ RecordPair(s) \/ Recorded(s)
    PROVE  TypesInv'
  <1> DEFINE x == session[s]
  <1>1. Good(x) /\ x \in Sessions /\ GoodSessions /\ Stored /\ Marks /\ Typed(x)
    BY DEF TypesInv, GoodSessions, Stored, Good, Known, RecordsTyped
  <1>2. x.op \in OfPhoto => Target(s) \in Id
    BY TargetIsId DEF Known
  <1>3. CASE HashLook(s) \/ HashSave(s) \/ HashFails(s)
    <2>1. Good([x EXCEPT !.at = "search"]) /\ Good([x EXCEPT !.at = "write"])
      BY <1>1, MovedGood DEF AtNames
    <2>2. \/ Goes(s, [x EXCEPT !.at = "search"]) \/ Goes(s, [x EXCEPT !.at = "write"])
          \/ End(s)
      BY <1>3 DEF HashLook, HashSave, HashFails, HashStored
    <2>3. GoodSessions'
      BY <1>1, <2>1, <2>2, GoesGood, EndTypes
    <2>4. Stored'
      BY <1>1, <1>3 DEF HashLook, HashSave, HashFails, OnlyPairs, Marks, Stored
    <2> QED
      BY <2>3, <2>4 DEF TypesInv
  <1>4. CASE HashSearch(s)
    <2> DEFINE others == {j \in Id \ {Target(s)} : hashes[j] # NoPicture}
               todo == IF hashes[Target(s)] = NoPicture THEN <<>> ELSE SetToSeq(others)
    <2>1. IsFiniteSet(others)
      BY IdListing
    <2>2. SetToSeq(others) \in Seq(others) /\ ToSet(SetToSeq(others)) = others
      BY <2>1, Listing
    <2>3. SetToSeq(others) \in Seq(Id)
      BY <2>2, SeqMonotonic
    <2>4. <<>> \in Seq(Id) /\ ToSet(<<>>) = {}
      BY DEF ToSet
    <2>5. todo \in Seq(Id) /\ Head(x.ids) \notin ToSet(todo)
      BY <2>2, <2>3, <2>4 DEF Target
    <2>6. x.op = "hash" /\ Goes(s, [x EXCEPT !.at = "record", !.todo = todo])
      BY <1>4 DEF HashSearch, Doing
    <2> HIDE DEF todo
    <2>7. GoodSessions'
      BY <1>1, <2>5, <2>6, ListedGood, GoesGood
    <2>8. Stored'
      BY <1>1, <1>4 DEF HashSearch, OnlyPairs, Marks, Stored
    <2> QED
      BY <2>7, <2>8 DEF TypesInv
  <1>5. CASE RecordPair(s)
    <2>1. x.at = "record" /\ x.todo # <<>> /\ x.op \in {"hash", "mark"} /\ x.todo \in Seq(Id)
      BY <1>1, <1>5 DEF RecordPair, Typed
    <2>2. /\ Item(s) \in Id /\ Item(s) \in ToSet(x.todo) /\ Tail(x.todo) \in Seq(Id)
          /\ ToSet(Tail(x.todo)) \subseteq ToSet(x.todo)
      BY <2>1, HeadTail DEF Item
    <2>3. Target(s) \in Id /\ Target(s) \notin ToSet(x.todo)
      BY <1>1, <1>2, <2>1 DEF Good, Target, OfPhoto
    <2>4. Good([x EXCEPT !.at = "record", !.todo = Tail(x.todo)])
      BY <1>1, <2>1, <2>2, <2>3, ListedGood DEF Target
    <2>5. [x EXCEPT !.todo = Tail(@)] = [x EXCEPT !.at = "record", !.todo = Tail(x.todo)]
      BY <1>1, <2>1 DEF Sessions
    <2>6. Goes(s, [x EXCEPT !.todo = Tail(@)])
      BY <1>5 DEF RecordPair
    <2>7. GoodSessions'
      BY <1>1, <2>4, <2>5, <2>6, GoesGood
    <2>8. <<Target(s), Item(s)>> \in Pair
      BY <2>2, <2>3 DEF Pair
    <2>9. records' \subseteq Pair
      BY <1>1, <1>5, <2>8 DEF RecordPair, Stored
    <2>10. Stored'
      BY <1>1, <1>5, <2>9 DEF RecordPair, OnlyPairs, Marks, Stored
    <2> QED
      BY <2>7, <2>10 DEF TypesInv
  <1>6. CASE Recorded(s)
    <2>1. GoodSessions'
      BY <1>6, EndTypes DEF Recorded
    <2>2. searched' \subseteq Id
      BY <1>1, <1>2, <1>6 DEF Recorded, Marks, OfPhoto
    <2>3. Stored'
      BY <1>1, <1>6, <2>2 DEF Recorded, OnlyPairs, Marks, Stored
    <2> QED
      BY <2>1, <2>3 DEF TypesInv
  <1> QED
    BY <1>3, <1>4, <1>5, <1>6 DEF Hashes

\* A deletion, its rows and then its file.
LEMMA DeleteTypes ==
    ASSUME Known, TypesInv, NEW s \in Session, DeleteCommits(s) \/ DeleteFile(s)
    PROVE  TypesInv'
  <1>1. Good(session[s]) /\ GoodSessions /\ Stored /\ Marks
    BY DEF TypesInv, GoodSessions, Stored
  <1>2. CASE DeleteCommits(s)
    <2>1. Good([session[s] EXCEPT !.at = "file"])
      BY <1>1, MovedGood DEF AtNames
    <2>2. Goes(s, [session[s] EXCEPT !.at = "file"]) \/ End(s)
      BY <1>2 DEF DeleteCommits
    <2>3. GoodSessions'
      BY <1>1, <2>1, <2>2, GoesGood, EndTypes
    <2>4. /\ links' \subseteq links /\ records' \subseteq records
          /\ dismissed' \subseteq dismissed /\ searched' \subseteq searched
      BY <1>2 DEF DeleteCommits, DeleteRows
    <2>5. calm' \in BOOLEAN /\ UNCHANGED <<disk, categories, locked, apart>>
      BY <1>1, <1>2 DEF DeleteCommits, Marks
    <2>6. Stored'
      BY <1>1, <2>4, <2>5 DEF Marks, Stored
    <2> QED
      BY <2>3, <2>6 DEF TypesInv
  <1>3. CASE DeleteFile(s)
    <2>1. GoodSessions'
      BY <1>3, EndTypes DEF DeleteFile
    <2>2. Stored'
      BY <1>1, <1>3 DEF DeleteFile, aux, Marks, Stored
    <2> QED
      BY <2>1, <2>2 DEF TypesInv
  <1> QED
    BY <1>2, <1>3

\* What happens without a session, and the end of the backend.
LEMMA WorldTypes ==
    ASSUME Known, TypesInv,
           \/ \E p \in Picture : AddPhoto(p)
           \/ \E p \in Pair : DismissDuplicate(p)
           \/ \E i \in Id : \/ \E label \in Label : Unlink(i, label)
                            \/ \E place \in Place : Geocode(i, place)
           \/ Kill
    PROVE  TypesInv'
  <1>1. GoodSessions /\ Stored /\ Marks
    BY DEF TypesInv, Stored
  <1>2. ASSUME NEW p \in Picture, AddPhoto(p)
        PROVE  TypesInv'
    BY <1>1, <1>2 DEF AddPhoto, aux, Marks, Stored, TypesInv, GoodSessions
  <1>3. ASSUME NEW p \in Pair, DismissDuplicate(p)
        PROVE  TypesInv'
    <2>1. {p[1], p[2]} \in SUBSET Id
      BY DEF Pair
    <2>2. records' \subseteq records /\ dismissed' \subseteq SUBSET Id
      BY <1>1, <1>3, <2>1 DEF DismissDuplicate, Marks
    <2> QED
      BY <1>1, <1>3, <2>2 DEF DismissDuplicate, Marks, Stored, TypesInv, GoodSessions
  <1>4. ASSUME NEW i \in Id, NEW label \in Label, Unlink(i, label)
        PROVE  TypesInv'
    BY <1>1, <1>4 DEF Unlink, OnlyLinks, aux, Marks, Stored, TypesInv, GoodSessions
  <1>5. ASSUME NEW i \in Id, NEW place \in Place, Geocode(i, place)
        PROVE  TypesInv'
    <2>1. apart' \in BOOLEAN
      BY <1>1, <1>5 DEF Geocode, Marks
    <2> QED
      BY <1>1, <1>5, <2>1 DEF Geocode, Marks, Stored, TypesInv, GoodSessions
  <1>6. CASE Kill
    <2>1. apart' \in BOOLEAN
      BY <1>1, <1>6 DEF Kill, Marks
    <2>2. GoodSessions'
      <3>1. session' = [s \in Session |-> Idle]
        BY <1>6 DEF Kill
      <3> QED
        BY <3>1, IdleGood DEF GoodSessions, Good
    <2>3. Stored'
      BY <1>1, <1>6, <2>1 DEF Kill, Marks, Stored
    <2> QED
      BY <2>2, <2>3 DEF TypesInv
  <1> QED
    BY <1>2, <1>3, <1>4, <1>5, <1>6

\* An annotation goes on: what remains of its photos, what is to be linked, what it noted.
LEMMA NotedGood ==
    ASSUME NEW x, Good(x), x.op \in Annotation, NEW at \in {"look", "write"},
           NEW todo \in Seq(Id), NEW new \in SUBSET (Label \cup Id), NEW done \in Seq(Id),
           NEW of \in [Id -> Picture \cup {NoPicture}], NEW was \in [Id -> Place \cup {NoPlace}]
    PROVE  Good([x EXCEPT !.at = at, !.todo = todo, !.new = new, !.done = done, !.of = of, !.was = was])
  <1> DEFINE y1 == [x EXCEPT !.at = at]
             y2 == [y1 EXCEPT !.todo = todo]
             y3 == [y2 EXCEPT !.new = new]
             y4 == [y3 EXCEPT !.done = done]
             y5 == [y4 EXCEPT !.of = of]
             y6 == [y5 EXCEPT !.was = was]
  <1>1. todo \in Seq(Label \cup Nat)
    BY Wider
  <1>2. y1 \in Sessions /\ y1.op = x.op /\ y1.at = at /\ y1.label = x.label
    BY DEF Good, Sessions
  <1>3. y2 \in Sessions /\ y2.op = x.op /\ y2.at = at /\ y2.label = x.label
    <2> HIDE DEF y1
    <2> QED
      BY <1>1, <1>2 DEF Sessions
  <1>4. y3 \in Sessions /\ y3.op = x.op /\ y3.at = at /\ y3.label = x.label
    <2> HIDE DEF y2
    <2> QED
      BY <1>3 DEF Sessions
  <1>5. y4 \in Sessions /\ y4.op = x.op /\ y4.at = at /\ y4.label = x.label
    <2> HIDE DEF y3
    <2> QED
      BY <1>4 DEF Sessions
  <1>6. y5 \in Sessions /\ y5.op = x.op /\ y5.at = at /\ y5.label = x.label
    <2> HIDE DEF y4
    <2> QED
      BY <1>5 DEF Sessions
  <1>7. y6 \in Sessions /\ y6.op = x.op /\ y6.at = at /\ y6.label = x.label
    <2> HIDE DEF y5
    <2> QED
      BY <1>6 DEF Sessions
  <1>8. Good(y6)
    <2>1. x.op \notin {"tags", "categories", "link"} /\ at \notin {"create", "record"}
      BY DEF Annotation
    <2>2. x.op \in {"add_tag", "add_category"} => x.label \in Label
      BY DEF Good
    <2> HIDE DEF y6
    <2> QED
      BY <1>7, <2>1, <2>2 DEF Good
  <1> QED
    BY <1>8

\* Links the agent adds are rows of the table.
LEMMA TaggedRows ==
    ASSUME Known, NEW s \in Session, NEW ids \in SUBSET Id, session[s].label \in Label
    PROVE  Tagged(s, ids) \subseteq LinkRows
  <1>1. \A i \in ids : Rows(s, i, {session[s].label}) \subseteq LinkRows
    BY RowsGood
  <1> QED
    BY <1>1 DEF Tagged

\* The agent's annotations and undos, once they have begun.
LEMMA NotesTypes ==
    ASSUME Known, TypesInv, NEW s \in Session,
           AnnotateLook(s) \/ AnnotateWrite(s) \/ AnnotateEnd(s) \/ UndoBegin(s) \/ UndoForget(s)
    PROVE  TypesInv'
  <1> DEFINE x == session[s]
             i == Item(s)
  <1>1. Good(x) /\ x \in Sessions /\ GoodSessions /\ Stored /\ Marks /\ Typed(x)
    BY DEF TypesInv, GoodSessions, Stored, Good, Known, RecordsTyped
  <1>2. ASSUME x.op \in Annotation
        PROVE  /\ x.todo \in Seq(Id) /\ x.new \subseteq Id /\ x.new \in SUBSET (Label \cup Id)
               /\ x.done \in Seq(Id) /\ x.of \in [Id -> Picture \cup {NoPicture}]
               /\ x.was \in [Id -> Place \cup {NoPlace}]
               /\ x.op # "add_geoposition" => x.label \in Label
    <2>1. x.ids \in Seq(Id) /\ x.new \subseteq ToSet(x.ids)
      BY <1>1, <1>2 DEF Typed
    <2>2. ToSet(x.ids) \subseteq Id
      BY <2>1 DEF ToSet
    <2> QED
      BY <1>1, <1>2, <2>1, <2>2 DEF Typed, Good, Sessions, Annotation
  <1>3. CASE AnnotateLook(s)
    <2> DEFINE fresh == IF Linked(i, x.label) THEN {} ELSE {i}
    <2>1. x.op \in Annotation /\ x.todo # <<>> /\ x.at = "look"
      BY <1>3 DEF AnnotateLook
    <2>2. i \in Id /\ Tail(x.todo) \in Seq(Id)
      BY <1>2, <2>1, HeadTail DEF Item
    <2>3. photo[i] \in Picture \cup {NoPicture} /\ places[i] \in Place \cup {NoPlace}
      BY <2>2 DEF Known, RecordsTyped, Tables, NotesTyped, PlacesTyped
    <2>4. /\ fresh \in SUBSET (Label \cup Id) /\ Append(x.done, i) \in Seq(Id)
          /\ [x.of EXCEPT ![i] = photo[i]] \in [Id -> Picture \cup {NoPicture}]
          /\ [x.was EXCEPT ![i] = places[i]] \in [Id -> Place \cup {NoPlace}]
      BY <1>2, <2>1, <2>2, <2>3, AppendProperties
    <2> HIDE DEF fresh
    <2>5. Good([x EXCEPT !.todo = Tail(@)])
      <3>1. [x EXCEPT !.todo = Tail(@)] =
              [x EXCEPT !.at = "look", !.todo = Tail(x.todo), !.new = x.new, !.done = x.done,
                        !.of = x.of, !.was = x.was]
        BY <1>1, <2>1 DEF Sessions
      <3>2. Good([x EXCEPT !.at = "look", !.todo = Tail(x.todo), !.new = x.new, !.done = x.done,
                           !.of = x.of, !.was = x.was])
        BY <1>1, <1>2, <2>1, <2>2, NotedGood
      <3> QED
        BY <3>1, <3>2
    <2>6. Good([x EXCEPT !.todo = Tail(@), !.new = @ \cup fresh, !.done = Append(@, i), !.of[i] = photo[i]])
      <3>1. [x EXCEPT !.todo = Tail(@), !.new = @ \cup fresh, !.done = Append(@, i), !.of[i] = photo[i]] =
              [x EXCEPT !.at = "look", !.todo = Tail(x.todo), !.new = x.new \cup fresh,
                        !.done = Append(x.done, i), !.of = [x.of EXCEPT ![i] = photo[i]], !.was = x.was]
        BY <1>1, <2>1 DEF Sessions
      <3>2. Good([x EXCEPT !.at = "look", !.todo = Tail(x.todo), !.new = x.new \cup fresh,
                        !.done = Append(x.done, i), !.of = [x.of EXCEPT ![i] = photo[i]], !.was = x.was])
        <4>1. x.new \cup fresh \in SUBSET (Label \cup Id)
          BY <1>2, <2>1, <2>4
        <4> QED
          BY <1>1, <1>2, <2>1, <2>2, <2>4, <4>1, NotedGood
      <3> QED
        BY <3>1, <3>2
    <2>7. Good([x EXCEPT !.at = "write", !.new = fresh, !.of[i] = photo[i], !.was[i] = places[i]])
      <3>1. [x EXCEPT !.at = "write", !.new = fresh, !.of[i] = photo[i], !.was[i] = places[i]] =
              [x EXCEPT !.at = "write", !.todo = x.todo, !.new = fresh, !.done = x.done,
                        !.of = [x.of EXCEPT ![i] = photo[i]], !.was = [x.was EXCEPT ![i] = places[i]]]
        BY <1>1 DEF Sessions
      <3>2. Good([x EXCEPT !.at = "write", !.todo = x.todo, !.new = fresh, !.done = x.done,
                        !.of = [x.of EXCEPT ![i] = photo[i]], !.was = [x.was EXCEPT ![i] = places[i]]])
        BY <1>1, <1>2, <2>1, <2>4, NotedGood
      <3> QED
        BY <3>1, <3>2
    <2>8. \/ Goes(s, [x EXCEPT !.todo = Tail(@)])
          \/ Goes(s, [x EXCEPT !.todo = Tail(@), !.new = @ \cup fresh, !.done = Append(@, i), !.of[i] = photo[i]])
          \/ Goes(s, [x EXCEPT !.at = "write", !.new = fresh, !.of[i] = photo[i], !.was[i] = places[i]])
      BY <1>3 DEF AnnotateLook, fresh
    <2>9. GoodSessions'
      <3>1. ASSUME Goes(s, [x EXCEPT !.todo = Tail(@)]) PROVE GoodSessions'
        BY <1>1, <2>5, <3>1, GoesGood
      <3>2. ASSUME Goes(s, [x EXCEPT !.todo = Tail(@), !.new = @ \cup fresh, !.done = Append(@, i), !.of[i] = photo[i]])
            PROVE  GoodSessions'
        BY <1>1, <2>6, <3>2, GoesGood
      <3>3. ASSUME Goes(s, [x EXCEPT !.at = "write", !.new = fresh, !.of[i] = photo[i], !.was[i] = places[i]])
            PROVE  GoodSessions'
        BY <1>1, <2>7, <3>3, GoesGood
      <3> QED
        BY <2>8, <3>1, <3>2, <3>3
    <2>10. Stored'
      BY <1>1, <1>3 DEF AnnotateLook, OnlyNotes, Marks, Stored
    <2> QED
      BY <2>9, <2>10 DEF TypesInv
  <1>4. CASE AnnotateWrite(s)
    <2> DEFINE next == [x EXCEPT !.at = "look", !.todo = Tail(@), !.done = Append(@, i)]
    <2>1. x.op \in Annotation /\ x.at = "write"
      BY <1>4 DEF AnnotateWrite
    <2>2. i \in Id /\ Tail(x.todo) \in Seq(Id)
      <3>1. x.todo # <<>>
        BY <1>1, <2>1 DEF Typed
      <3> QED
        BY <1>2, <2>1, <3>1, HeadTail DEF Item
    <2>3. Good(next)
      <3>1. next = [x EXCEPT !.at = "look", !.todo = Tail(x.todo), !.new = x.new,
                             !.done = Append(x.done, i), !.of = x.of, !.was = x.was]
        BY <1>1 DEF Sessions
      <3>2. Append(x.done, i) \in Seq(Id)
        BY <1>2, <2>1, <2>2, AppendProperties
      <3>3. Good([x EXCEPT !.at = "look", !.todo = Tail(x.todo), !.new = x.new,
                             !.done = Append(x.done, i), !.of = x.of, !.was = x.was])
        BY <1>1, <1>2, <2>1, <2>2, <3>2, NotedGood
      <3> QED
        BY <3>1, <3>3
    <2>4. Goes(s, next) \/ End(s)
      BY <1>4 DEF AnnotateWrite
    <2> HIDE DEF next
    <2>5. GoodSessions'
      BY <1>1, <2>3, <2>4, GoesGood, EndTypes
    <2>6. links' \subseteq LinkRows /\ apart' \in BOOLEAN
      <3>1. CASE x.op = "add_geoposition"
        BY <1>1, <1>4, <3>1 DEF AnnotateWrite, Stored, Marks
      <3>2. CASE x.op # "add_geoposition"
        <4>1. Tagged(s, x.new) \subseteq LinkRows
          BY <1>2, <2>1, <3>2, TaggedRows
        <4> QED
          BY <1>1, <1>4, <3>2, <4>1 DEF AnnotateWrite, Stored, Marks
      <3> QED
        BY <3>1, <3>2
    <2>7. Stored'
      BY <1>1, <1>4, <2>6 DEF AnnotateWrite, OnlyNotes, Marks, Stored
    <2> QED
      BY <2>5, <2>7 DEF TypesInv
  <1>5. CASE AnnotateEnd(s)
    <2>1. x.op \in Annotation /\ End(s)
      BY <1>5 DEF AnnotateEnd
    <2>2. x.op = "add_category" => Tagged(s, x.new) \subseteq LinkRows
      BY <1>2, <2>1, TaggedRows
    <2>3. links' \subseteq LinkRows
      BY <1>1, <1>5, <2>2 DEF AnnotateEnd, Stored
    <2>4. Stored'
      BY <1>1, <1>5, <2>3 DEF AnnotateEnd, OnlyNotes, Marks, Stored
    <2> QED
      BY <2>1, <2>4, EndTypes DEF TypesInv
  <1>6. CASE UndoBegin(s)
    <2> DEFINE last == Last(history)
    <2>1. history \in Seq(NoteRows) /\ history # <<>>
      BY <1>6 DEF UndoBegin, Known, NotesTyped, HistoryTyped
    <2>2. last \in Actions
      BY <2>1 DEF Last, NoteRows
    <2>3. last.ids \in Seq(Id) /\ last.label \in Label \cup Place /\ last.key \in Nat
      BY <2>2, LibraryAssumption DEF Actions
    <2>4. <<last.key>> \in Seq(Label \cup Nat)
      BY <2>3
    <2>5. Begin(s, "undo", "forget", last.ids, last.label, <<last.key>>)
          /\ links' \subseteq links
      BY <1>6 DEF UndoBegin
    <2> HIDE DEF last
    <2>6. GoodSessions'
      BY <1>1, <2>3, <2>4, <2>5, BeginGood DEF OpNames, AtNames
    <2>7. apart' \in BOOLEAN
      BY <1>1, <1>6 DEF UndoBegin, Alone, Marks
    <2>8. Stored'
      BY <1>1, <1>6, <2>5, <2>7 DEF UndoBegin, OnlyNotes, Marks, Stored
    <2> QED
      BY <2>6, <2>8 DEF TypesInv
  <1>7. CASE UndoForget(s)
    <2>1. GoodSessions'
      BY <1>7, EndTypes DEF UndoForget
    <2>2. Stored'
      BY <1>1, <1>7 DEF UndoForget, OnlyNotes, Marks, Stored
    <2> QED
      BY <2>1, <2>2 DEF TypesInv
  <1> QED
    BY <1>3, <1>4, <1>5, <1>6, <1>7

\* Every action keeps what is typed here.
LEMMA StepTypes == Known /\ TypesInv /\ [Next]_vars => TypesInv'
  <1> SUFFICES ASSUME Known, TypesInv, [Next]_vars
               PROVE  TypesInv'
    OBVIOUS
  <1>1. CASE UNCHANGED vars
    BY <1>1 DEF vars, aux, TypesInv, GoodSessions, Stored, Marks
  <1>2. CASE Next
    <2>1. ASSUME NEW s \in Session,
                 \/ \E i \in Id : \/ DeleteBegins(s, i) \/ HashBegin(s, "hash", i) \/ HashBegin(s, "compare", i)
                                  \/ \E found \in Listings(Tag) : TagsBegin(s, i, found)
                                  \/ \E found \in Listings(Category) : CategoriesBegin(s, i, found)
                                  \/ \E others \in Listings(Id) : MarkBegin(s, i, others)
                                  \/ \E label \in Label : LinkBegin(s, i, label)
                 \/ \E ids \in Listings(Id) :
                       \/ \E tag \in Tag : AnnotateBegin(s, "add_tag", ids, tag)
                       \/ \E category \in Category : AnnotateBegin(s, "add_category", ids, category)
                       \/ \E place \in Place : AnnotateBegin(s, "add_geoposition", ids, place)
          PROVE  TypesInv'
      BY <2>1, BeginTypes
    <2>2. ASSUME NEW s \in Session,
                 \/ TagsLock(s) \/ TagsCommit(s) \/ CategoriesLook(s) \/ CategoryCreated(s)
                 \/ CategoriesCommit(s) \/ LinkCommit(s)
          PROVE  TypesInv'
      BY <2>2, LinkTypes
    <2>3. ASSUME NEW s \in Session,
                 \/ Hashes(s) \/ RecordPair(s) \/ Recorded(s)
                 \/ DeleteCommits(s) \/ DeleteFile(s)
          PROVE  TypesInv'
      BY <2>3, PairsTypes, DeleteTypes
    <2>4. ASSUME NEW s \in Session,
                 AnnotateLook(s) \/ AnnotateWrite(s) \/ AnnotateEnd(s) \/ UndoBegin(s) \/ UndoForget(s)
          PROVE  TypesInv'
      BY <2>4, NotesTypes
    <2> QED
      BY <1>2, <2>1, <2>2, <2>3, <2>4, WorldTypes DEF Next, Hashes
  <1> QED
    BY <1>1, <1>2

\* Every reachable state of the library is well typed: rows name ids that can be, a session's
\* record holds what its operation reads from it, and no duplicate record is of one photo.
THEOREM LibraryTypeCorrect == Spec => []TypeOK
  <1>1. Init => TypesInv
    <2> SUFFICES ASSUME Init
                 PROVE  TypesInv
      OBVIOUS
    <2>1. GoodSessions
      BY IdleGood DEF Init, GoodSessions, Good
    <2>2. Stored
      BY DEF Init, Stored, Marks
    <2> QED
      BY <2>1, <2>2 DEF TypesInv
  <1>2. RowsInv /\ HistoryInv => Known
    BY DEF RowsInv, HistoryInv, Known
  <1>3. ASSUME Known, TypesInv
        PROVE  TypeOK
    <2>1. history \in Seq(Actions)
      <3>1. NoteRows \subseteq Actions /\ history \in Seq(NoteRows)
        BY <1>3 DEF Known, NotesTyped, HistoryTyped, NoteRows
      <3> QED
        BY <3>1, SeqMonotonic
    <2> QED
      BY <1>3, <2>1 DEF Known, RecordsTyped, Tables, NotesTyped, PlacesTyped, TypesInv, GoodSessions,
                        Stored, Marks, LinkRows, TypeOK
  <1> QED
    BY <1>1, <1>2, <1>3, StepTypes, RowsInvariance, HistoryInvariance, PTL DEF Spec

================================================================================
