--------------------------------- MODULE AgentProofs ---------------------------------
(***************************************************************************)
(* The agent: what it does to files, and how it talks.                      *)
(*                                                                         *)
(* ActionHistory for any number of photos, folders, actions, undos,         *)
(* failures and kills: its typing, and, unless one photo took the place of  *)
(* another of its name or a kill met an append, that no picture is lost,    *)
(* that rows and files agree between actions, and that an undo brings back  *)
(* what its action found.                                                   *)
(*                                                                         *)
(* Chat for any number of turns, threads, configurations and restarts: its  *)
(* typing, that a reset of the registry governs every later use of the      *)
(* chat model, and that the page goes on with a thread that holds what was  *)
(* answered.                                                                *)
(***************************************************************************)
EXTENDS Chat, ActionHistory, FiniteSetTheorems, WellFoundedInduction, TLAPS

--------------------------------------------------------------------------------
(* Actions: what holds in every reachable state *)

MoveOrigins == UNION {[S -> Path] : S \in SUBSET Photo}
ArchiveOrigins == UNION {[S -> Path] : S \in SUBSET Name}
OriginsOf(kind) == IF kind = "move" THEN MoveOrigins ELSE ArchiveOrigins

\* An operation has the kind, the photos or names and the original paths of its stage.
OpKinds ==
    op # NoOp =>
        /\ op.orig \in OriginsOf(op.kind)
        /\ op.at \in {"moving", "zipping", "removing"} => op.todo \subseteq Photo
        /\ op.at = "moving" => op.kind = "move" /\ op.dest \in Folder
        /\ op.at \in {"zipping", "removing"} => op.kind = "archive"
        /\ op.at = "unmoving" => op.kind = "move" /\ op.todo \subseteq DOMAIN op.orig
        /\ op.at = "restoring" =>
              op.kind = "archive" /\ op.todo \subseteq DOMAIN op.orig \cap NamesInZip
RecordKinds == \A i \in 1..Len(history) : history[i].orig \in OriginsOf(history[i].kind)

Typed == ActionTypeOK /\ OpKinds /\ RecordKinds

\* Files, rows, originals and entries bear the name of their picture.
RowsNamed(rows) == \A x \in Photo : rows[x][2] = NameOf[x]
OrigNamed(kind, orig) ==
    \A x \in DOMAIN orig : orig[x][2] = IF kind = "move" THEN NameOf[x] ELSE x
FilesNamed == \A q \in Path : file[q] # NoPhoto => q[2] = NameOf[file[q]]
ZipNamed == \A i \in 1..Len(zip) : zip[i].name = NameOf[zip[i].picture]
OpNamed == op # NoOp => RowsNamed(op.rows) /\ OrigNamed(op.kind, op.orig)
HistoryNamed == \A i \in 1..Len(history) : OrigNamed(history[i].kind, history[i].orig)
Named == RowsNamed(path) /\ FilesNamed /\ ZipNamed /\ OpNamed /\ HistoryNamed
Somewhere(x) == \/ \E q \in Path : file[q] = x
                \/ \E i \in 1..Len(zip) : zip[i].picture = x
\* Of a name the archive has one picture.
OneName == \A i, j \in 1..Len(zip) : zip[i].name = zip[j].name => zip[i].picture = zip[j].picture
\* An original goes after it is in the archive; what a kill takes from a new archive is in
\* the files still; an entry goes after its file is back.
Copied ==
    /\ op.at \in {"zipping", "removing"} =>
          \A x \in DOMAIN op.orig : file[op.orig[x]] # NoPhoto =>
              \E i \in 1..Len(zip) : zip[i].picture = file[op.orig[x]]
    /\ op.at = "zipping" /\ op.before.zip = <<>> =>
          \A i \in 1..Len(zip) : \E q \in Path : file[q] = zip[i].picture
    /\ op.at = "restoring" =>
          \A x \in (DOMAIN op.orig \cap NamesInZip) \ op.todo :
              file[op.orig[x]] = LastEntry(x).picture
Safe == OneName /\ Copied /\ \A x \in Photo : Somewhere(x)
PictureInv == Typed /\ Named /\ (~spoilt => Safe)

\* Rows, marks, files and archive of a state agree.
SoundFiles(files, rows, marks) ==
    \A x \in Photo : \A q \in Path : files[q] = x <=> x \notin marks /\ rows[x] = q
SoundMarks(marks, entries) ==
    \A x \in Photo : x \in marks <=> \E i \in 1..Len(entries) : entries[i].picture = x
OneOfAName(entries) ==
    \A i, j \in 1..Len(entries) : entries[i].name = entries[j].name => i = j
Sound(s) ==
    SoundFiles(s.file, s.path, s.archived) /\ SoundMarks(s.archived, s.zip) /\ OneOfAName(s.zip)

\* The entries of new are those of old and then those of the names.
Grown(old, new, names) ==
    /\ Len(old) <= Len(new)
    /\ \A i \in 1..Len(old) : old[i] = new[i] /\ new[i].name \notin names
    /\ \A i \in (Len(old) + 1)..Len(new) : new[i].name \in names

\* What a history row or an operation remembers leads from a state back to the one before.
UndoesMove(s, h) ==
    /\ h.before.archived = s.archived /\ h.before.zip = s.zip
    /\ DOMAIN h.orig \subseteq Photo \ s.archived
    /\ \A x \in Photo : h.before.path[x] = IF x \in DOMAIN h.orig THEN h.orig[x] ELSE s.path[x]
UndoesArchive(s, h, newly) ==
    /\ h.before.path = s.path
    /\ newly \subseteq s.archived /\ h.before.archived = s.archived \ newly
    /\ DOMAIN h.orig = {NameOf[x] : x \in newly}
    /\ \A x \in newly : h.orig[NameOf[x]] = s.path[x]
    /\ Grown(h.before.zip, s.zip, DOMAIN h.orig)
Undoes(s, h) == IF h.kind = "move" THEN UndoesMove(s, h) ELSE UndoesArchive(s, h, h.newly)

\* The history leads back from a state, row by row.
Reaches(s) == Sound(s) /\ (history # <<>> => Undoes(s, history[Len(history)]))
Chain ==
    /\ \A i \in 1..Len(history) : Sound(history[i].before)
    /\ \A i \in 1..Len(history) : i > 1 => Undoes(history[i].before, history[i - 1])

\* The state as it is with these files, rows, marks and entries.
State(files, rows, marks, entries) ==
    [file |-> files, path |-> rows, archived |-> marks, zip |-> entries]

\* How far an action is from the state it began in.
Moving ==
    LET s == State(file, op.rows, archived, zip)
    IN  path = op.before.path /\ Sound(s) /\ UndoesMove(s, op) /\ op.todo \cap DOMAIN op.orig = {}
Archiving ==
    LET rest == [q \in Path |-> IF q \in Kept THEN NoPhoto ELSE file[q]]
        done == op.newly \ op.todo
        s == State(rest, path, archived \cup done, zip)
    IN  Sound(s) /\ UndoesArchive(s, op, done \ archived)
Zipping == file = op.before.file /\ op.todo \subseteq op.newly /\ Archiving
Removing == op.todo = {} /\ Archiving
Recording == Sound(Snapshot) /\ Undoes(Snapshot, op)

\* How far an undo is from the state it brings back.
OfLast ==
    /\ history # <<>>
    /\ LET h == history[Len(history)]
       IN  op.kind = h.kind /\ op.orig = h.orig /\ op.newly = h.newly /\ op.before = h.before
Unmoving ==
    /\ Sound(State(file, op.rows, archived, zip))
    /\ op.before.archived = archived /\ op.before.zip = zip
    /\ op.todo \cap archived = {}
    /\ \A x \in Photo : op.before.path[x] = IF x \in op.todo THEN op.orig[x] ELSE op.rows[x]
Unarchived == op.before.path = path /\ op.before.archived = archived \ op.newly
Restoring ==
    /\ Unarchived
    /\ \A q \in Path : file[q] = IF \E x \in op.todo : op.orig[x] = q THEN NoPhoto
                                 ELSE op.before.file[q]
    /\ DOMAIN op.orig = {NameOf[x] : x \in op.newly}
    /\ \A x \in op.newly : op.orig[NameOf[x]] = path[x]
    /\ Grown(op.before.zip, zip, DOMAIN op.orig)
    /\ op.newly \subseteq archived /\ SoundMarks(archived, zip) /\ OneOfAName(zip)
Unmarking == Unarchived /\ file = op.before.file /\ zip = op.before.zip
Forgetting == Snapshot = op.before

Stack ==
    /\ Chain
    /\ op.at = "idle" => Reaches(Snapshot)
    /\ op.at \in {"moving", "zipping", "removing", "recording"} => Reaches(op.before)
    /\ op.at = "moving" => Moving
    /\ op.at = "zipping" => Zipping
    /\ op.at = "removing" => Removing
    /\ op.at = "recording" => Recording
    /\ op.at \in {"unmoving", "restoring", "unmarking", "forgetting"} => OfLast
    /\ op.at = "unmoving" => Unmoving
    /\ op.at = "restoring" => Restoring
    /\ op.at = "unmarking" => Unmarking
    /\ op.at = "forgetting" => Forgetting
StackInv == NoFault /\ ~spoilt => Stack

--------------------------------------------------------------------------------
(* Typing *)

\* Of a name in a list there is a last position.
LEMMA LastPosition ==
    ASSUME NEW list, NEW k \in Nat, DOMAIN list = 1..k, NEW n, \E i \in 1..k : list[i] = n
    PROVE  LastOf(list, n) \in 1..k /\ list[LastOf(list, n)] = n
  <1> DEFINE above == {k - i : i \in {j \in 1..k : list[j] = n}}
  <1>1. above \subseteq Nat /\ above # {}
    OBVIOUS
  <1>2. PICK x \in above : \A y \in above : ~(<<y, x>> \in OpToRel(<, Nat))
    BY <1>1, NatLessThanWellFounded, WFMin
  <1>3. \A y \in above : ~(y < x)
    BY <1>1, <1>2 DEF OpToRel
  <1>4. PICK i \in 1..k : x = k - i /\ list[i] = n
    OBVIOUS
  <1>5. ASSUME NEW j \in 1..k, list[j] = n
        PROVE  j <= i
    <2>1. k - j \in above
      BY <1>5
    <2> HIDE DEF above
    <2> QED
      BY <1>3, <1>4, <2>1
  <1>6. \E l \in DOMAIN list : list[l] = n /\ \A j \in DOMAIN list : list[j] = n => j <= l
    BY <1>4, <1>5
  <1> QED
    BY <1>6, Zenon DEF LastOf

\* An order of a finite set is a list of its elements, each once.
LEMMA OrderIsList ==
    ASSUME NEW S, IsFiniteSet(S), NEW order \in Orders(S)
    PROVE  /\ Cardinality(S) \in Nat /\ order \in [1..Cardinality(S) -> S]
           /\ DOMAIN order = 1..Cardinality(S)
           /\ \A x \in S : \E i \in 1..Cardinality(S) : order[i] = x
           /\ \A i, j \in 1..Cardinality(S) : order[i] = order[j] => i = j
  <1>1. Cardinality(S) \in Nat
    BY FS_CardinalityType
  <1>2. order \in Injection(1..Cardinality(S), S) /\ order \in Surjection(1..Cardinality(S), S)
    BY DEF Orders, Bijection
  <1> QED
    BY <1>1, <1>2 DEF Injection, Surjection, IsInjective

\* The last entry of a name that is in the archive.
LEMMA LastEntryOfName ==
    ASSUME zip \in Entries, NEW n \in NamesInZip
    PROVE  /\ \E i \in 1..Len(zip) : LastEntry(n) = zip[i] /\ zip[i].name = n
           /\ LastEntry(n) \in Entry
  <1> DEFINE list == [i \in DOMAIN zip |-> zip[i].name]
  <1>1. Len(zip) \in Nat /\ DOMAIN zip = 1..Len(zip)
    BY DEF Entries
  <1>2. DOMAIN list = 1..Len(zip) /\ \E i \in 1..Len(zip) : list[i] = n
    BY <1>1 DEF NamesInZip
  <1>3. LastOf(list, n) \in 1..Len(zip) /\ list[LastOf(list, n)] = n
    <2> HIDE DEF list
    <2> QED
      BY <1>1, <1>2, LastPosition
  <1>4. \E i \in 1..Len(zip) : LastEntry(n) = zip[i] /\ zip[i].name = n
    BY <1>1, <1>3 DEF LastEntry
  <1> QED
    BY <1>4 DEF Entries

\* The operation in progress, when there is one.
LEMMA OpIsOp ==
    ASSUME ActionTypeOK
    PROVE  /\ op.at # "idle" => op # NoOp
           /\ op # NoOp => op \in Ops /\ op.at \in Stage /\ op.at # "idle"
  BY DEF ActionTypeOK, NoOp, Ops, Stage

LEMMA SnapshotType == ActionTypeOK => Snapshot \in Snapshots
  BY DEF ActionTypeOK, Snapshot, Snapshots

LEMMA OriginsTyped == MoveOrigins \subseteq Origins /\ ArchiveOrigins \subseteq Origins
  BY DEF MoveOrigins, ArchiveOrigins, Origins

LEMMA EmptyOrigins == <<>> \in MoveOrigins /\ <<>> \in ArchiveOrigins
  <1>1. <<>> \in [{} -> Path]
    OBVIOUS
  <1> QED
    BY <1>1 DEF MoveOrigins, ArchiveOrigins

LEMMA NamesTyped == \A x \in Photo : NameOf[x] \in Name
  BY DEF Name

LEMMA OneOrigin ==
    ASSUME NEW orig \in MoveOrigins, NEW x \in Photo, NEW q \in Path
    PROVE  [y \in DOMAIN orig \cup {x} |-> IF y = x THEN q ELSE orig[y]] \in MoveOrigins
  <1>1. PICK S \in SUBSET Photo : orig \in [S -> Path]
    BY DEF MoveOrigins
  <1>2. [y \in DOMAIN orig \cup {x} |-> IF y = x THEN q ELSE orig[y]] \in [S \cup {x} -> Path]
    BY <1>1
  <1> QED
    BY <1>2 DEF MoveOrigins

LEMMA OneNameOrigin ==
    ASSUME NEW orig \in ArchiveOrigins, NEW n \in Name, NEW q \in Path
    PROVE  [y \in DOMAIN orig \cup {n} |-> IF y = n THEN q ELSE orig[y]] \in ArchiveOrigins
  <1>1. PICK S \in SUBSET Name : orig \in [S -> Path]
    BY DEF ArchiveOrigins
  <1>2. [y \in DOMAIN orig \cup {n} |-> IF y = n THEN q ELSE orig[y]] \in [S \cup {n} -> Path]
    BY <1>1
  <1> QED
    BY <1>2 DEF ArchiveOrigins

LEMMA OriginsHold ==
    ASSUME NEW kind, NEW orig \in OriginsOf(kind)
    PROVE  /\ \A x \in DOMAIN orig : orig[x] \in Path
           /\ kind = "move" => DOMAIN orig \subseteq Photo
           /\ kind # "move" => DOMAIN orig \subseteq Name
           /\ orig \in Origins
  <1>1. CASE kind = "move"
    BY <1>1, OriginsTyped DEF OriginsOf, MoveOrigins
  <1>2. CASE kind # "move"
    BY <1>2, OriginsTyped DEF OriginsOf, ArchiveOrigins
  <1> QED
    BY <1>1, <1>2

LEMMA MovedType ==
    ASSUME file \in Files, NEW from \in Path, NEW to \in Path
    PROVE  Moved(from, to) \in Files
  BY DEF Files, Moved

\* What an action leaves is typed, whatever it does.
LEMMA StartTyped ==
    ASSUME Typed, StartAction
    PROVE  /\ (file' \in Files /\ path' \in Rows /\ archived' \in SUBSET Photo /\ zip' \in Entries)
           /\ torn' \in BOOLEAN /\ spoilt' \in BOOLEAN
           /\ history' \in Seq(Records) /\ RecordKinds'
           /\ actionsLeft' \in 0..MaxActions /\ faultsLeft' \in 0..MaxFaults
  BY HistoryAssumption DEF Typed, ActionTypeOK, StartAction, RecordKinds

LEMMA BeginTyped ==
    ASSUME ActionTypeOK, NEW stage \in Stage, NEW kind \in Kind, NEW todo \in SUBSET (Photo \cup Name)
    PROVE  /\ Begin(stage, kind, todo) \in Ops
           /\ Begin(stage, kind, todo).orig \in OriginsOf(kind)
  <1>1. Snapshot \in Snapshots /\ path \in Rows
    BY SnapshotType DEF ActionTypeOK
  <1>2. <<>> \in Origins /\ <<>> \in OriginsOf(kind)
    BY EmptyOrigins, OriginsTyped DEF OriginsOf
  <1> QED
    BY <1>1, <1>2 DEF Begin, Ops

LEMMA TypedInit == ActionInit => Typed
  <1> SUFFICES ASSUME ActionInit
               PROVE  Typed
    OBVIOUS
  <1>1. \A x \in Photo : <<Home[x], NameOf[x]>> \in Path
    BY HistoryAssumption, NamesTyped DEF Path
  <1>2. path \in Rows
    BY <1>1 DEF ActionInit, Rows
  <1>3. \A q \in Path : (\E x \in Photo : path[x] = q) =>
                          (CHOOSE x \in Photo : path[x] = q) \in Photo
    OBVIOUS
  <1>4. file \in Files
    BY <1>3 DEF ActionInit, Files
  <1>5. zip \in Entries /\ history \in Seq(Records) /\ archived \in SUBSET Photo /\ RecordKinds
    BY DEF ActionInit, Entries, RecordKinds
  <1>6. OpKinds
    BY DEF ActionInit, OpKinds
  <1>7. torn \in BOOLEAN /\ spoilt \in BOOLEAN
    BY DEF ActionInit
  <1>8. actionsLeft \in 0..MaxActions /\ faultsLeft \in 0..MaxFaults /\ op = NoOp
    BY HistoryAssumption DEF ActionInit
  <1> QED
    BY <1>2, <1>4, <1>5, <1>6, <1>7, <1>8 DEF Typed, ActionTypeOK

LEMMA ListIsSeq ==
    ASSUME NEW S, NEW k \in Nat, NEW list, DOMAIN list = 1..k, list = [i \in 1..k |-> list[i]],
           \A i \in 1..k : list[i] \in S
    PROVE  list \in Seq(S) /\ Len(list) = k
  <1>1. list \in [1..k -> S]
    OBVIOUS
  <1> QED
    BY <1>1

\* What ZipOne appends and remembers of a picture that is there.
Zipped(p, from, name) ==
    /\ from = path[p] /\ name = NameOf[p] /\ from \in Path /\ name \in Name
    /\ file[from] \in Photo
    /\ zip' \in Entries /\ Len(zip') = Len(zip) + 1 /\ Len(zip) \in Nat
    /\ \A i \in 1..Len(zip) : zip'[i] = zip[i]
    /\ zip'[Len(zip) + 1] = [name |-> name, picture |-> file[from]]
    /\ op'.orig \in ArchiveOrigins
    /\ DOMAIN op'.orig = DOMAIN op.orig \cup {name}
    /\ \A x \in DOMAIN op'.orig : op'.orig[x] = IF x = name THEN from ELSE op.orig[x]
    /\ ~spoilt' => file[from] = p /\ \A i \in 1..Len(zip) : zip[i].name = name => zip[i].picture = p

LEMMA ZipStep ==
    ASSUME Typed, NEW p \in Photo, ZipOne(p)
    PROVE  /\ op \in Ops /\ op # NoOp /\ op.at = "zipping" /\ op.kind = "archive"
           /\ op.orig \in ArchiveOrigins /\ op.todo \subseteq Photo /\ p \in op.todo
           /\ op' \in Ops /\ op'.at = "zipping" /\ op'.kind = op.kind /\ op'.rows = op.rows
           /\ op'.newly = op.newly /\ op'.before = op.before /\ op'.todo = op.todo \ {p}
           /\ UNCHANGED <<file, path, archived, history, actionBounds>>
           /\ \/ /\ file[path[p]] = NoPhoto
                 /\ op'.orig = op.orig /\ UNCHANGED <<zip, torn, spoilt>>
              \/ /\ file[path[p]] # NoPhoto
                 /\ torn' = TRUE /\ spoilt' \in BOOLEAN /\ (spoilt => spoilt')
                 /\ Zipped(p, path[p], NameOf[p])
  <1>1. /\ op \in Ops /\ op # NoOp /\ op.at = "zipping" /\ op.kind = "archive"
        /\ op.todo \subseteq Photo /\ p \in op.todo
        /\ UNCHANGED <<file, path, archived, history, actionBounds>>
    BY OpIsOp DEF ZipOne, Typed, OpKinds
  <1>2. op.orig \in ArchiveOrigins
    BY <1>1, OpIsOp DEF Typed, OpKinds, OriginsOf
  <1>3. file \in Files /\ path \in Rows /\ zip \in Entries /\ spoilt \in BOOLEAN
    BY DEF Typed, ActionTypeOK
  <1> DEFINE from == path[p]
             name == NameOf[p]
             orig == [n \in DOMAIN op.orig \cup {name} |-> IF n = name THEN from ELSE op.orig[n]]
  <1>4. from \in Path /\ name \in Name
    BY <1>3, NamesTyped DEF Rows
  <1>5. CASE file[from] = NoPhoto
    <2>1. op' = [op EXCEPT !.todo = @ \ {p}] /\ UNCHANGED <<zip, torn, spoilt>>
      BY <1>5 DEF ZipOne
    <2> QED
      BY <1>1, <1>2, <1>5, <2>1 DEF Ops
  <1>6. CASE file[from] # NoPhoto
    <2>1. /\ zip' = Append(zip, [name |-> name, picture |-> file[from]])
          /\ torn' = TRUE
          /\ spoilt' = (\/ spoilt \/ file[from] # p
                        \/ \E i \in DOMAIN zip : zip[i].name = name /\ zip[i].picture # p)
          /\ op' = [op EXCEPT !.todo = @ \ {p}, !.orig = orig]
      BY <1>6 DEF ZipOne
    <2>2. orig \in ArchiveOrigins /\ orig \in Origins
      <3>1. orig \in ArchiveOrigins
        BY <1>2, <1>4, OneNameOrigin
      <3> QED
        BY <3>1, OriginsTyped
    <2>3. DOMAIN orig = DOMAIN op.orig \cup {name}
          /\ \A x \in DOMAIN orig : orig[x] = IF x = name THEN from ELSE op.orig[x]
      OBVIOUS
    <2> HIDE DEF orig, from, name
    <2>4. /\ op' \in Ops /\ op'.at = "zipping" /\ op'.kind = op.kind /\ op'.rows = op.rows
          /\ op'.newly = op.newly /\ op'.before = op.before /\ op'.todo = op.todo \ {p}
          /\ op'.orig = orig
      BY <1>1, <2>1, <2>2 DEF Ops
    <2>5. file[from] \in Photo
      BY <1>3, <1>4, <1>6 DEF Files
    <2> DEFINE entry == [name |-> name, picture |-> file[from]]
    <2>6. entry \in Entry
      BY <1>4, <2>5 DEF Entry
    <2> HIDE DEF entry
    <2>7. /\ zip' \in Entries /\ Len(zip') = Len(zip) + 1 /\ Len(zip) \in Nat
          /\ \A i \in 1..Len(zip) : zip'[i] = zip[i]
          /\ zip'[Len(zip) + 1] = entry
      <3>1. zip \in Seq(Entry) /\ zip' = Append(zip, entry)
        BY <1>3, <2>1 DEF Entries, entry
      <3> QED
        BY <2>6, <3>1 DEF Entries
    <2>8. ~spoilt' => file[from] = p /\ \A i \in 1..Len(zip) : zip[i].name = name => zip[i].picture = p
      <3>1. DOMAIN zip = 1..Len(zip)
        BY <1>3 DEF Entries
      <3> QED
        BY <2>1, <3>1
    <2>9. spoilt' \in BOOLEAN /\ (spoilt => spoilt')
      BY <1>3, <2>1
    <2>10. Zipped(p, from, name)
      BY <1>4, <2>2, <2>3, <2>4, <2>5, <2>7, <2>8 DEF Zipped, entry, from, name
    <2> QED
      BY <1>1, <1>2, <1>6, <2>1, <2>4, <2>9, <2>10 DEF from, name
  <1> QED
    BY <1>5, <1>6

\* What TrimZip keeps: k entries, and the places they had.
Trimmed(k, order) ==
    /\ order \in [1..k -> 1..Len(zip)]
    /\ zip' \in Entries /\ Len(zip') = k
    /\ \A i, j \in 1..k : i < j => order[i] < order[j]
    /\ \A j \in 1..Len(zip) : (\E i \in 1..k : order[i] = j) <=> zip[j].name \notin DOMAIN op.orig
    /\ \A i \in 1..k : \E j \in 1..Len(zip) :
          zip'[i] = zip[j] /\ zip[j].name = zip[order[i]].name

LEMMA TrimStep ==
    ASSUME Typed, TrimZip
    PROVE  \E k \in Nat : \E order : Trimmed(k, order)
  <1> DEFINE rest == {i \in DOMAIN zip : zip[i].name \notin DOMAIN op.orig}
  <1>1. PICK order \in Orders(rest) :
          /\ \A i, j \in DOMAIN order : i < j => order[i] < order[j]
          /\ zip' = [i \in DOMAIN order |-> LastEntry(zip[order[i]].name)]
    BY DEF TrimZip
  <1>2. zip \in Entries /\ Len(zip) \in Nat /\ DOMAIN zip = 1..Len(zip)
    BY DEF Typed, ActionTypeOK, Entries
  <1>3. IsFiniteSet(rest)
    <2>1. IsFiniteSet(1..Len(zip)) /\ rest \subseteq 1..Len(zip)
      BY <1>2, FS_Interval
    <2> QED
      BY <2>1, FS_Subset
  <1> DEFINE k == Cardinality(rest)
  <1>4. /\ k \in Nat /\ order \in [1..k -> rest] /\ DOMAIN order = 1..k
        /\ \A x \in rest : \E i \in 1..k : order[i] = x
    <2> HIDE DEF rest
    <2> QED
      BY <1>3, OrderIsList
  <1>5. /\ \A i \in 1..k : order[i] \in 1..Len(zip)
        /\ \A j \in 1..Len(zip) :
             (\E i \in 1..k : order[i] = j) <=> zip[j].name \notin DOMAIN op.orig
    <2>1. \A i \in 1..k : order[i] \in rest
      BY <1>4
    <2>2. \A j \in 1..Len(zip) : j \in rest <=> zip[j].name \notin DOMAIN op.orig
      BY <1>2
    <2>3. rest \subseteq 1..Len(zip)
      BY <1>2
    <2> HIDE DEF rest, k
    <2> QED
      BY <1>4, <2>1, <2>2, <2>3
  <1> HIDE DEF rest, k
  <1>6. ASSUME NEW i \in 1..k
        PROVE  /\ zip'[i] = LastEntry(zip[order[i]].name)
               /\ \E j \in 1..Len(zip) : zip'[i] = zip[j] /\ zip[j].name = zip[order[i]].name
    <2>1. zip[order[i]].name \in NamesInZip
      BY <1>2, <1>5, <1>6 DEF NamesInZip
    <2>2. zip'[i] = LastEntry(zip[order[i]].name)
      BY <1>1, <1>4, <1>6
    <2> QED
      BY <1>2, <2>1, <2>2, LastEntryOfName
  <1>7. zip' \in Entries /\ Len(zip') = k
    <2>1. DOMAIN zip' = 1..k /\ zip' = [i \in 1..k |-> zip'[i]]
      BY <1>1, <1>4
    <2>2. ASSUME NEW i \in 1..k
          PROVE  zip'[i] \in Entry
      <3>1. PICK j \in 1..Len(zip) : zip'[i] = zip[j]
        BY <1>6, <2>2
      <3> QED
        BY <1>2, <3>1 DEF Entries
    <2> DEFINE new == zip'
    <2> HIDE DEF new
    <2>3. new \in Seq(Entry) /\ Len(new) = k
      BY <1>4, <2>1, <2>2, ListIsSeq DEF new
    <2> QED
      BY <2>3 DEF new, Entries
  <1>8. order \in [1..k -> 1..Len(zip)]
    BY <1>4, <1>5
  <1>9. \A i, j \in 1..k : i < j => order[i] < order[j]
    BY <1>1, <1>4
  <1>10. Trimmed(k, order)
    BY <1>5, <1>6, <1>7, <1>8, <1>9 DEF Trimmed
  <1> QED
    BY <1>4, <1>10

\* The state without the operation, and the operation.
StateTyped ==
    /\ file \in Files /\ path \in Rows /\ archived \in SUBSET Photo /\ zip \in Entries
    /\ torn \in BOOLEAN /\ spoilt \in BOOLEAN
    /\ history \in Seq(Records) /\ RecordKinds
    /\ actionsLeft \in 0..MaxActions /\ faultsLeft \in 0..MaxFaults
OpTyped == (op = NoOp \/ op \in Ops) /\ OpKinds

LEMMA TypedParts == Typed <=> StateTyped /\ OpTyped
  BY DEF Typed, ActionTypeOK, StateTyped, OpTyped

LEMMA NoOpTyped == ASSUME op' = NoOp PROVE OpTyped'
  BY DEF OpTyped, OpKinds, NoOp

LEMMA OpParts ==
    ASSUME Typed, op # NoOp
    PROVE  /\ op.at \in Stage /\ op.kind \in Kind /\ op.todo \subseteq Photo \cup Name
           /\ op.dest \in Folder \cup {NoFolder} /\ op.rows \in Rows
           /\ op.orig \in Origins /\ op.newly \subseteq Photo /\ op.before \in Snapshots
           /\ op.orig \in OriginsOf(op.kind)
  BY OpIsOp DEF Typed, OpKinds, Ops

LEMMA RecordParts ==
    ASSUME Typed, NEW i \in 1..Len(history)
    PROVE  /\ history[i].kind \in Kind /\ history[i].orig \in Origins
           /\ history[i].newly \subseteq Photo /\ history[i].before \in Snapshots
           /\ history[i].orig \in OriginsOf(history[i].kind)
  <1>1. history[i] \in Records
    BY DEF Typed, ActionTypeOK
  <1> QED
    BY <1>1 DEF Typed, RecordKinds, Records

LEMMA TypedStep == Typed /\ [ActionNext]_actionVars => Typed'
  <1> SUFFICES ASSUME Typed, [ActionNext]_actionVars
               PROVE  StateTyped' /\ OpTyped'
    BY DEF Typed, ActionTypeOK, StateTyped, OpTyped
  <1> USE HistoryAssumption DEF actionBounds
  <1>0. StateTyped /\ OpTyped
    BY TypedParts
  <1>1. ASSUME NEW ps \in SUBSET Photo, ArchivePhotos(ps)
        PROVE  StateTyped' /\ OpTyped'
    <2>1. op' = [Begin("zipping", "archive", ps) EXCEPT !.newly = ps] /\ StateTyped'
      BY <1>0, <1>1, StartTyped DEF ArchivePhotos, StateTyped
    <2>2. op' \in Ops /\ op'.orig \in OriginsOf("archive")
      <3>1. /\ Begin("zipping", "archive", ps) \in Ops
            /\ Begin("zipping", "archive", ps).orig \in OriginsOf("archive")
        BY BeginTyped DEF Typed, Stage, Kind
      <3> QED
        BY <2>1, <3>1 DEF Ops
    <2>3. op'.kind = "archive" /\ op'.at = "zipping" /\ op'.todo = ps
      BY <2>1 DEF Begin
    <2> QED
      BY <2>1, <2>2, <2>3 DEF OpTyped, OpKinds
  <1>2. ASSUME NEW ps \in SUBSET Photo, NEW dest \in Folder, MovePhotos(ps, dest)
        PROVE  StateTyped' /\ OpTyped'
    <2>1. op' = [Begin("moving", "move", ps) EXCEPT !.dest = dest] /\ StateTyped'
      BY <1>0, <1>2, StartTyped DEF MovePhotos, StateTyped
    <2>2. /\ Begin("moving", "move", ps) \in Ops
          /\ Begin("moving", "move", ps).orig \in OriginsOf("move")
      BY BeginTyped DEF Typed, Stage, Kind
    <2>3. op' \in Ops /\ op'.orig \in OriginsOf("move") /\ op'.dest = dest
      BY <2>1, <2>2 DEF Ops
    <2>4. op'.kind = "move" /\ op'.at = "moving" /\ op'.todo = ps
      BY <2>1 DEF Begin
    <2> QED
      BY <2>1, <2>3, <2>4 DEF OpTyped, OpKinds
  <1>3. ASSUME NEW p \in Photo, MoveOne(p)
        PROVE  StateTyped' /\ OpTyped'
    <2>1. /\ op \in Ops /\ op.at = "moving" /\ op.kind = "move" /\ op.todo \subseteq Photo
          /\ op.dest \in Folder
      BY <1>3, OpIsOp DEF MoveOne, Typed, OpKinds
    <2>2. op.orig \in MoveOrigins /\ op.rows \in Rows
      BY <2>1, OpParts, OpIsOp DEF Typed, OriginsOf
    <2> DEFINE to == <<op.dest, NameOf[p]>>
               orig == [x \in DOMAIN op.orig \cup {p} |-> IF x = p THEN op.rows[p] ELSE op.orig[x]]
    <2>3. op.rows[p] \in Path /\ to \in Path
      BY <2>1, <2>2, NamesTyped DEF Rows, Path
    <2>4. orig \in MoveOrigins
      BY <2>2, <2>3, OneOrigin
    <2>5. StateTyped'
      <3>1. file' \in Files
        BY <1>0, <1>3, <2>3, MovedType DEF MoveOne, MoveFile, StateTyped
      <3>2. spoilt' \in BOOLEAN
        BY <1>0, <1>3 DEF MoveOne, MoveFile, StateTyped
      <3> QED
        BY <1>0, <1>3, <3>1, <3>2 DEF MoveOne, StateTyped, RecordKinds
    <2>6. CASE op' = [op EXCEPT !.todo = @ \ {p}]
      <3>1. op' \in Ops /\ op'.at = "moving" /\ op'.kind = "move" /\ op'.dest = op.dest
        BY <2>1, <2>6 DEF Ops
      <3>2. op'.todo = op.todo \ {p} /\ op'.orig = op.orig
        BY <2>1, <2>6 DEF Ops
      <3> QED
        BY <2>1, <2>2, <2>5, <3>1, <3>2 DEF OpTyped, OpKinds, OriginsOf
    <2>7. CASE op' = [op EXCEPT !.todo = @ \ {p}, !.rows[p] = to, !.orig = orig]
      <3>1. [op.rows EXCEPT ![p] = to] \in Rows /\ orig \in Origins
        BY <2>2, <2>3, <2>4, OriginsTyped DEF Rows
      <3> HIDE DEF orig, to
      <3>2. op' \in Ops /\ op'.at = "moving" /\ op'.kind = "move" /\ op'.dest = op.dest
        BY <2>1, <2>7, <3>1 DEF Ops
      <3>3. op'.todo = op.todo \ {p} /\ op'.orig = orig
        BY <2>1, <2>7 DEF Ops
      <3> QED
        BY <2>1, <2>4, <2>5, <3>2, <3>3 DEF OpTyped, OpKinds, OriginsOf
    <2> QED
      BY <1>3, <2>6, <2>7 DEF MoveOne
  <1>4. ASSUME NEW p \in Photo, UnmoveOne(p)
        PROVE  StateTyped' /\ OpTyped'
    <2>1. /\ op \in Ops /\ op.at = "unmoving" /\ op.kind = "move" /\ op.todo \subseteq DOMAIN op.orig
          /\ p \in op.todo
      BY <1>4, OpIsOp DEF UnmoveOne, Typed, OpKinds
    <2>2. op.orig \in OriginsOf("move") /\ op.rows \in Rows
      BY <2>1, OpParts, OpIsOp DEF Typed
    <2>3. op.rows[p] \in Path /\ op.orig[p] \in Path
      BY <2>1, <2>2, OriginsHold DEF Rows
    <2>5. StateTyped'
      <3>1. file' \in Files
        BY <1>0, <1>4, <2>3, MovedType DEF UnmoveOne, MoveFile, StateTyped
      <3>2. spoilt' \in BOOLEAN
        BY <1>0, <1>4 DEF UnmoveOne, MoveFile, StateTyped
      <3> QED
        BY <1>0, <1>4, <3>1, <3>2 DEF UnmoveOne, StateTyped, RecordKinds
    <2>6. [op.rows EXCEPT ![p] = op.orig[p]] \in Rows
      BY <2>2, <2>3 DEF Rows
    <2>7. /\ op' \in Ops /\ op'.at = "unmoving" /\ op'.kind = "move" /\ op'.orig = op.orig
          /\ op'.todo = op.todo \ {p}
      <3>1. CASE op' = [op EXCEPT !.todo = @ \ {p}]
        BY <2>1, <3>1 DEF Ops
      <3>2. CASE op' = [op EXCEPT !.todo = @ \ {p}, !.rows[p] = op.orig[p]]
        BY <2>1, <2>6, <3>2 DEF Ops
      <3> QED
        BY <1>4, <3>1, <3>2 DEF UnmoveOne
    <2> QED
      BY <2>1, <2>2, <2>5, <2>7 DEF OpTyped, OpKinds
  <1>5. CASE CommitMove
    <2>1. op \in Ops /\ op.rows \in Rows /\ op.orig \in OriginsOf(op.kind)
      BY <1>5, OpParts, OpIsOp DEF CommitMove, Typed
    <2>2. op' \in Ops /\ op'.at = "recording" /\ op'.kind = op.kind /\ op'.orig = op.orig
      BY <1>5, <2>1 DEF CommitMove, Ops, Stage
    <2> QED
      BY <1>0, <1>5, <2>1, <2>2 DEF CommitMove, StateTyped, RecordKinds, OpTyped, OpKinds
  <1>6. ASSUME NEW p \in Photo, ZipOne(p)
        PROVE  StateTyped' /\ OpTyped'
    <2>1. /\ op' \in Ops /\ op'.at = "zipping" /\ op'.kind = "archive"
          /\ op'.todo \subseteq Photo
          /\ UNCHANGED <<file, path, archived, history, actionBounds>>
      BY <1>6, ZipStep
    <2>2. /\ zip' \in Entries /\ torn' \in BOOLEAN /\ spoilt' \in BOOLEAN
          /\ op'.orig \in ArchiveOrigins
      BY <1>0, <1>6, ZipStep DEF StateTyped, Zipped
    <2>3. StateTyped'
      BY <1>0, <2>1, <2>2 DEF StateTyped, RecordKinds, actionBounds
    <2> QED
      BY <2>1, <2>2, <2>3 DEF OpTyped, OpKinds, OriginsOf
  <1>18. CASE CloseZip
    <2>1. op \in Ops /\ op.todo \subseteq Photo /\ op.kind = "archive" /\ op.orig \in OriginsOf(op.kind)
      BY <1>18, OpParts, OpIsOp DEF CloseZip, Typed, OpKinds
    <2>2. /\ op' \in Ops /\ op'.at = "removing" /\ op'.kind = op.kind /\ op'.orig = op.orig
          /\ op'.todo = op.todo
      BY <1>18, <2>1 DEF CloseZip, Ops, Stage
    <2>3. StateTyped'
      BY <1>0, <1>18 DEF CloseZip, StateTyped, RecordKinds, actionBounds
    <2> QED
      BY <2>1, <2>2, <2>3 DEF OpTyped, OpKinds
  <1>7. CASE RemoveOriginals
    <2>1. file' \in Files
      BY <1>0, <1>7 DEF RemoveOriginals, StateTyped, Files
    <2> QED
      BY <1>0, <1>7, <2>1 DEF RemoveOriginals, StateTyped, RecordKinds, OpTyped, OpKinds
  <1>8. CASE CommitArchive
    <2>1. op \in Ops /\ op.at = "removing" /\ op.newly \subseteq Photo /\ op.orig \in OriginsOf(op.kind)
      BY <1>8, OpParts, OpIsOp DEF CommitArchive, Typed, OpKinds
    <2>2. op' \in Ops /\ op'.at = "recording" /\ op'.kind = op.kind /\ op'.orig = op.orig
      BY <1>8, <2>1 DEF CommitArchive, Ops, Stage
    <2>3. faultsLeft' \in 0..MaxFaults /\ archived' \subseteq Photo
      BY <1>0, <1>8, <2>1 DEF CommitArchive, StateTyped
    <2> QED
      BY <1>0, <1>8, <2>1, <2>2, <2>3 DEF CommitArchive, StateTyped, RecordKinds, OpTyped, OpKinds
  <1>9. CASE RecordAction
    <2>1. op \in Ops /\ op.orig \in OriginsOf(op.kind)
      BY <1>9, OpParts, OpIsOp DEF RecordAction, Typed
    <2> DEFINE row == [kind |-> op.kind, orig |-> op.orig, newly |-> op.newly, before |-> op.before]
    <2>2. row \in Records /\ row.orig \in OriginsOf(row.kind)
      BY <2>1 DEF Ops, Records
    <2> HIDE DEF row
    <2>3. history' = history \/ history' = Append(history, row)
      BY <1>9 DEF RecordAction, row
    <2>4. history' \in Seq(Records) /\ RecordKinds'
      BY <1>0, <2>2, <2>3 DEF StateTyped, RecordKinds
    <2>5. OpTyped'
      BY <1>9, NoOpTyped DEF RecordAction
    <2> QED
      BY <1>0, <1>9, <2>4, <2>5 DEF RecordAction, StateTyped
  <1>10. CASE UndoLastAction
    <2> DEFINE h == Last(history)
               stage == IF h.kind = "move" THEN "unmoving"
                        ELSE IF zip = <<>> THEN "unmarking" ELSE "restoring"
               todo == IF h.kind = "move" THEN DOMAIN h.orig ELSE DOMAIN h.orig \cap NamesInZip
    <2>1. Len(history) \in 1..Len(history) /\ h = history[Len(history)]
      BY <1>0, <1>10 DEF StateTyped, UndoLastAction, Last
    <2>2. /\ h.kind \in Kind /\ h.orig \in Origins /\ h.newly \subseteq Photo
          /\ h.before \in Snapshots /\ h.orig \in OriginsOf(h.kind)
      BY <2>1, RecordParts
    <2>3. todo \subseteq Photo \cup Name
      BY <2>2, OriginsHold
    <2>4. stage \in Stage /\ Begin(stage, h.kind, todo) \in Ops
      BY <2>2, <2>3, BeginTyped DEF Typed, Stage
    <2>5. op' = [Begin(stage, h.kind, todo) EXCEPT
                   !.orig = h.orig, !.newly = h.newly, !.before = h.before]
      BY <1>10 DEF UndoLastAction
    <2>6. /\ Begin(stage, h.kind, todo).at = stage /\ Begin(stage, h.kind, todo).kind = h.kind
          /\ Begin(stage, h.kind, todo).todo = todo
      BY DEF Begin
    <2>7. /\ stage = "unmoving" => h.kind = "move" /\ todo = DOMAIN h.orig
          /\ stage = "restoring" => h.kind = "archive" /\ todo = DOMAIN h.orig \cap NamesInZip
          /\ stage \in {"unmoving", "unmarking", "restoring"}
      BY <2>2 DEF Kind
    <2> HIDE DEF stage, todo, h
    <2>8. /\ op' \in Ops /\ op'.at = stage /\ op'.kind = h.kind /\ op'.todo = todo
          /\ op'.orig = h.orig
      BY <2>2, <2>4, <2>5, <2>6 DEF Ops
    <2>9. NamesInZip' = NamesInZip
      BY <1>10 DEF UndoLastAction, NamesInZip
    <2> QED
      BY <1>0, <1>10, <2>2, <2>7, <2>8, <2>9 DEF UndoLastAction, StateTyped, RecordKinds, OpTyped, OpKinds
  <1>11. CASE CommitUnmove
    <2>1. op \in Ops /\ op.rows \in Rows /\ op.orig \in OriginsOf(op.kind)
      BY <1>11, OpParts, OpIsOp DEF CommitUnmove, Typed
    <2>2. op' \in Ops /\ op'.at = "forgetting" /\ op'.kind = op.kind /\ op'.orig = op.orig
      BY <1>11, <2>1 DEF CommitUnmove, Ops, Stage
    <2> QED
      BY <1>0, <1>11, <2>1, <2>2 DEF CommitUnmove, StateTyped, RecordKinds, OpTyped, OpKinds
  <1>12. ASSUME NEW n \in Name, RestoreOne(n)
         PROVE  StateTyped' /\ OpTyped'
    <2>1. /\ op \in Ops /\ op.at = "restoring" /\ op.kind = "archive"
          /\ op.todo \subseteq DOMAIN op.orig \cap NamesInZip /\ n \in op.todo
          /\ op.orig \in OriginsOf(op.kind)
      BY <1>12, OpParts, OpIsOp DEF RestoreOne, Typed, OpKinds
    <2>2. LastEntry(n).picture \in Photo
      <3>1. zip \in Entries /\ n \in NamesInZip
        BY <1>0, <2>1 DEF StateTyped
      <3> QED
        BY <3>1, LastEntryOfName DEF Entry
    <2>3. file' \in Files
      BY <1>0, <1>12, <2>2 DEF RestoreOne, StateTyped, Files
    <2>4. /\ op' \in Ops /\ op'.at = "restoring" /\ op'.kind = op.kind /\ op'.orig = op.orig
          /\ op'.todo = op.todo \ {n}
      BY <1>12, <2>1 DEF RestoreOne, Ops
    <2>5. NamesInZip' = NamesInZip
      BY <1>12 DEF RestoreOne, NamesInZip
    <2> QED
      BY <1>0, <1>12, <2>1, <2>3, <2>4, <2>5 DEF RestoreOne, StateTyped, RecordKinds, OpTyped, OpKinds
  <1>13. CASE TrimZip
    <2>1. op \in Ops /\ op.orig \in OriginsOf(op.kind)
      BY <1>13, OpParts, OpIsOp DEF TrimZip, Typed
    <2>2. op' \in Ops /\ op'.at = "unmarking" /\ op'.kind = op.kind /\ op'.orig = op.orig
      BY <1>13, <2>1 DEF TrimZip, Ops, Stage
    <2>3. zip' \in Entries
      BY <1>13, TrimStep DEF Trimmed
    <2> QED
      BY <1>0, <1>13, <2>1, <2>2, <2>3 DEF TrimZip, StateTyped, RecordKinds, OpTyped, OpKinds
  <1>14. CASE Unmark
    <2>1. op \in Ops /\ op.orig \in OriginsOf(op.kind)
      BY <1>14, OpParts, OpIsOp DEF Unmark, Typed
    <2>2. op' \in Ops /\ op'.at = "forgetting" /\ op'.kind = op.kind /\ op'.orig = op.orig
      BY <1>14, <2>1 DEF Unmark, Ops, Stage
    <2> QED
      BY <1>0, <1>14, <2>1, <2>2 DEF Unmark, StateTyped, RecordKinds, OpTyped, OpKinds
  <1>15. CASE Forget
    <2>1. OpTyped'
      BY <1>15, NoOpTyped DEF Forget
    <2>2. history' = SubSeq(history, 1, Len(history) - 1) /\ history \in Seq(Records)
      BY <1>0, <1>15 DEF Forget, StateTyped
    <2>3. /\ history' \in Seq(Records) /\ Len(history') <= Len(history)
          /\ \A i \in 1..Len(history') : history'[i] = history[i] /\ i \in 1..Len(history)
      BY <2>2
    <2>4. RecordKinds'
      BY <1>0, <2>3 DEF StateTyped, RecordKinds
    <2> QED
      BY <1>0, <1>15, <2>1, <2>3, <2>4 DEF Forget, StateTyped
  <1>16. CASE Fail
    <2>1. OpTyped'
      BY <1>16, NoOpTyped DEF Fail, CutShort
    <2> QED
      BY <1>0, <1>16, <2>1 DEF Fail, CutShort, StateTyped, RecordKinds
  <1>19. CASE Kill
    <2>1. OpTyped'
      BY <1>19, NoOpTyped DEF Kill, CutShort
    <2>2. <<>> \in Entries
      BY DEF Entries
    <2>3. zip' \in Entries /\ spoilt' \in BOOLEAN
      BY <1>0, <1>19, <2>2 DEF Kill, StateTyped
    <2> QED
      BY <1>0, <1>19, <2>1, <2>3 DEF Kill, CutShort, StateTyped, RecordKinds
  <1>17. CASE UNCHANGED actionVars
    BY <1>0, <1>17 DEF actionVars, StateTyped, RecordKinds, OpTyped, OpKinds, NamesInZip
  <1> QED
    BY <1>1, <1>2, <1>3, <1>4, <1>5, <1>6, <1>7, <1>8, <1>9, <1>10, <1>11, <1>12, <1>13,
       <1>14, <1>15, <1>16, <1>17, <1>18, <1>19 DEF ActionNext

--------------------------------------------------------------------------------
(* Pictures *)

LEMMA PathNames == \A f \in Folder, n \in Name : <<f, n>> \in Path /\ <<f, n>>[2] = n
  BY DEF Path

\* Moving a file to a path of its name keeps files named.
LEMMA MovedNamed ==
    ASSUME FilesNamed, file \in Files, NEW from \in Path, NEW to \in Path, from[2] = to[2],
           file' = Moved(from, to)
    PROVE  FilesNamed'
  BY DEF FilesNamed, Moved, Files

LEMMA NamedInit == ActionInit => Named
  <1> SUFFICES ASSUME ActionInit
               PROVE  Named
    OBVIOUS
  <1>1. RowsNamed(path)
    BY DEF ActionInit, RowsNamed
  <1>2. FilesNamed
    <2> SUFFICES ASSUME NEW q \in Path, file[q] # NoPhoto
                 PROVE  q[2] = NameOf[file[q]]
      BY DEF FilesNamed
    <2>1. PICK p \in Photo : p = file[q] /\ path[p] = q
      BY DEF ActionInit
    <2> QED
      BY <1>1, <2>1 DEF RowsNamed
  <1> QED
    BY <1>1, <1>2 DEF ActionInit, Named, ZipNamed, OpNamed, HistoryNamed

\* An operation that begins, or does not change its rows and originals, is named.
LEMMA BeginNamed ==
    ASSUME Named, NEW stage, NEW kind, NEW todo
    PROVE  /\ RowsNamed(Begin(stage, kind, todo).rows)
           /\ OrigNamed(kind, Begin(stage, kind, todo).orig)
           /\ Begin(stage, kind, todo).kind = kind
  BY DEF Begin, Named, OrigNamed

LEMMA OpNamedKept ==
    ASSUME OpNamed, op # NoOp,
           op'.rows = op.rows /\ op'.kind = op.kind /\ op'.orig = op.orig
    PROVE  OpNamed'
  BY DEF OpNamed, RowsNamed, OrigNamed

LEMMA NamedStep == Typed /\ Named /\ [ActionNext]_actionVars => Named'
  <1> SUFFICES ASSUME Typed, Named, [ActionNext]_actionVars
               PROVE  Named'
    OBVIOUS
  <1>0. /\ file \in Files /\ path \in Rows /\ zip \in Entries /\ history \in Seq(Records)
        /\ RowsNamed(path) /\ FilesNamed /\ ZipNamed /\ OpNamed /\ HistoryNamed
    BY DEF Typed, ActionTypeOK, Named
  <1>1. ASSUME NEW ps \in SUBSET Photo, ArchivePhotos(ps)
        PROVE  Named'
    <2>1. /\ op'.rows = Begin("zipping", "archive", ps).rows /\ op'.kind = "archive"
          /\ op'.orig = Begin("zipping", "archive", ps).orig
      BY <1>1 DEF ArchivePhotos, Begin
    <2>3. OpNamed'
      BY <2>1, BeginNamed DEF OpNamed, RowsNamed, OrigNamed
    <2> QED
      BY <1>0, <1>1, <2>3
         DEF ArchivePhotos, StartAction, Named, RowsNamed, FilesNamed, ZipNamed, HistoryNamed, OrigNamed
  <1>2. ASSUME NEW ps \in SUBSET Photo, NEW dest \in Folder, MovePhotos(ps, dest)
        PROVE  Named'
    <2>1. /\ op'.rows = Begin("moving", "move", ps).rows /\ op'.kind = "move"
          /\ op'.orig = Begin("moving", "move", ps).orig
      BY <1>2 DEF MovePhotos, Begin
    <2>2. OpNamed'
      BY <2>1, BeginNamed DEF OpNamed, RowsNamed, OrigNamed
    <2> QED
      BY <1>0, <1>2, <2>2
         DEF MovePhotos, StartAction, Named, RowsNamed, FilesNamed, ZipNamed, HistoryNamed, OrigNamed
  <1>3. ASSUME NEW p \in Photo, MoveOne(p)
        PROVE  Named'
    <2>1. op \in Ops /\ op # NoOp /\ op.at = "moving" /\ op.kind = "move" /\ op.dest \in Folder
      BY <1>3, OpIsOp DEF MoveOne, Typed, OpKinds
    <2>2. op.rows \in Rows /\ RowsNamed(op.rows) /\ OrigNamed("move", op.orig)
      BY <1>0, <2>1, OpParts DEF OpNamed
    <2> DEFINE to == <<op.dest, NameOf[p]>>
               orig == [x \in DOMAIN op.orig \cup {p} |-> IF x = p THEN op.rows[p] ELSE op.orig[x]]
    <2>3. op.rows[p] \in Path /\ to \in Path /\ op.rows[p][2] = NameOf[p] /\ to[2] = NameOf[p]
      BY <2>1, <2>2, NamesTyped, PathNames DEF Rows, RowsNamed
    <2>4. OrigNamed("move", orig)
      BY <2>2, <2>3 DEF OrigNamed
    <2>5. RowsNamed([op.rows EXCEPT ![p] = to])
      BY <2>2, <2>3 DEF RowsNamed, Rows
    <2>6. FilesNamed'
      <3>1. CASE UNCHANGED file
        BY <1>0, <3>1 DEF FilesNamed
      <3>2. CASE file' = Moved(op.rows[p], to)
        BY <1>0, <2>3, <3>2, MovedNamed
      <3> QED
        BY <1>3, <3>1, <3>2 DEF MoveOne, MoveFile
    <2>7. OpNamed'
      <3>1. CASE op' = [op EXCEPT !.todo = @ \ {p}]
        BY <1>0, <2>1, <3>1, OpNamedKept DEF Ops
      <3>2. CASE op' = [op EXCEPT !.todo = @ \ {p}, !.rows[p] = to, !.orig = orig]
        <4>1. op'.rows = [op.rows EXCEPT ![p] = to] /\ op'.orig = orig /\ op'.kind = "move"
          BY <2>1, <3>2 DEF Ops
        <4> HIDE DEF orig
        <4> QED
          BY <2>4, <2>5, <4>1 DEF OpNamed, RowsNamed, OrigNamed
      <3> QED
        BY <1>3, <3>1, <3>2 DEF MoveOne
    <2> QED
      BY <1>0, <1>3, <2>6, <2>7 DEF MoveOne, Named, RowsNamed, ZipNamed, HistoryNamed, OrigNamed
  <1>4. ASSUME NEW p \in Photo, UnmoveOne(p)
        PROVE  Named'
    <2>1. /\ op \in Ops /\ op # NoOp /\ op.kind = "move" /\ p \in op.todo
          /\ op.todo \subseteq DOMAIN op.orig
      BY <1>4, OpIsOp DEF UnmoveOne, Typed, OpKinds
    <2>2. /\ op.rows \in Rows /\ RowsNamed(op.rows) /\ OrigNamed("move", op.orig)
          /\ op.orig \in OriginsOf("move")
      BY <1>0, <2>1, OpParts DEF OpNamed
    <2>3. /\ op.rows[p] \in Path /\ op.orig[p] \in Path
          /\ op.rows[p][2] = NameOf[p] /\ op.orig[p][2] = NameOf[p]
      BY <2>1, <2>2, OriginsHold DEF Rows, RowsNamed, OrigNamed
    <2>4. RowsNamed([op.rows EXCEPT ![p] = op.orig[p]])
      BY <2>2, <2>3 DEF RowsNamed, Rows
    <2>5. FilesNamed'
      <3>1. CASE UNCHANGED file
        BY <1>0, <3>1 DEF FilesNamed
      <3>2. CASE file' = Moved(op.rows[p], op.orig[p])
        BY <1>0, <2>3, <3>2, MovedNamed
      <3> QED
        BY <1>4, <3>1, <3>2 DEF UnmoveOne, MoveFile
    <2>6. OpNamed'
      <3>1. CASE op' = [op EXCEPT !.todo = @ \ {p}]
        BY <1>0, <2>1, <3>1, OpNamedKept DEF Ops
      <3>2. CASE op' = [op EXCEPT !.todo = @ \ {p}, !.rows[p] = op.orig[p]]
        <4>1. op'.rows = [op.rows EXCEPT ![p] = op.orig[p]] /\ op'.orig = op.orig /\ op'.kind = "move"
          BY <2>1, <3>2 DEF Ops
        <4> QED
          BY <2>2, <2>4, <4>1 DEF OpNamed, RowsNamed, OrigNamed
      <3> QED
        BY <1>4, <3>1, <3>2 DEF UnmoveOne
    <2> QED
      BY <1>0, <1>4, <2>5, <2>6 DEF UnmoveOne, Named, RowsNamed, ZipNamed, HistoryNamed, OrigNamed
  <1>5. ASSUME CommitMove \/ CommitUnmove
        PROVE  Named'
    <2>1. op \in Ops /\ op # NoOp
      BY <1>5, OpIsOp DEF CommitMove, CommitUnmove, Typed
    <2>2. op'.rows = op.rows /\ op'.kind = op.kind /\ op'.orig = op.orig
      BY <1>5, <2>1 DEF CommitMove, CommitUnmove, Ops
    <2>3. OpNamed' /\ RowsNamed(path')
      BY <1>0, <1>5, <2>1, <2>2, OpNamedKept DEF CommitMove, CommitUnmove, OpNamed
    <2> QED
      BY <1>0, <1>5, <2>3
         DEF CommitMove, CommitUnmove, Named, RowsNamed, FilesNamed, ZipNamed, HistoryNamed, OrigNamed
  <1>6. ASSUME NEW p \in Photo, ZipOne(p)
        PROVE  Named'
    <2>1. /\ op # NoOp /\ op.kind = "archive" /\ op'.rows = op.rows /\ op'.kind = op.kind
          /\ UNCHANGED <<file, path, history>>
      BY <1>6, ZipStep
    <2>2. CASE op'.orig = op.orig /\ UNCHANGED zip
      <3>1. OpNamed'
        BY <1>0, <2>1, <2>2, OpNamedKept
      <3> QED
        BY <1>0, <2>1, <2>2, <3>1 DEF Named, RowsNamed, FilesNamed, ZipNamed, HistoryNamed, OrigNamed
    <2>3. CASE Zipped(p, path[p], NameOf[p])
      <3>1. path[p] \in Path /\ path[p][2] = NameOf[p] /\ file[path[p]] \in Photo
        BY <1>0, <2>3 DEF Zipped, RowsNamed
      <3>2. NameOf[p] = NameOf[file[path[p]]]
        BY <1>0, <3>1, HistoryAssumption DEF FilesNamed
      <3>3. ZipNamed'
        BY <1>0, <2>3, <3>2 DEF ZipNamed, Zipped
      <3>4. OpNamed'
        <4>1. \A n \in DOMAIN op'.orig : op'.orig[n][2] = n
          BY <1>0, <2>1, <2>3, <3>1 DEF Zipped, OpNamed, OrigNamed
        <4> QED
          BY <1>0, <2>1, <4>1 DEF OpNamed, RowsNamed, OrigNamed
      <3> QED
        BY <1>0, <2>1, <3>3, <3>4 DEF Named, RowsNamed, FilesNamed, HistoryNamed, OrigNamed
    <2> QED
      BY <1>6, <2>2, <2>3, ZipStep
  <1>7. CASE RemoveOriginals
    <2>1. FilesNamed'
      BY <1>0, <1>7 DEF RemoveOriginals, FilesNamed, Files
    <2> QED
      BY <1>0, <1>7, <2>1
         DEF RemoveOriginals, Named, RowsNamed, ZipNamed, OpNamed, HistoryNamed, OrigNamed
  <1>8. ASSUME CommitArchive \/ Unmark \/ CloseZip
        PROVE  Named'
    <2>1. op \in Ops /\ op # NoOp
      BY <1>8, OpIsOp DEF CommitArchive, Unmark, CloseZip, Typed
    <2>2. op'.rows = op.rows /\ op'.kind = op.kind /\ op'.orig = op.orig
      BY <1>8, <2>1 DEF CommitArchive, Unmark, CloseZip, Ops
    <2>3. OpNamed'
      BY <1>0, <2>1, <2>2, OpNamedKept
    <2> QED
      BY <1>0, <1>8, <2>3
         DEF CommitArchive, Unmark, CloseZip, Named, RowsNamed, FilesNamed, ZipNamed, HistoryNamed,
             OrigNamed
  <1>9. CASE RecordAction
    <2>1. op # NoOp
      BY <1>9, OpIsOp DEF RecordAction, Typed
    <2> DEFINE row == [kind |-> op.kind, orig |-> op.orig, newly |-> op.newly, before |-> op.before]
    <2>2. OrigNamed(row.kind, row.orig)
      BY <1>0, <2>1 DEF OpNamed
    <2> HIDE DEF row
    <2>3. history' = history \/ history' = Append(history, row)
      BY <1>9 DEF RecordAction, row
    <2>4. HistoryNamed'
      <3>1. CASE history' = history
        BY <1>0, <3>1 DEF HistoryNamed, OrigNamed
      <3>2. CASE history' = Append(history, row)
        <4>1. Len(history') = Len(history) + 1 /\ Len(history) \in Nat
          BY <1>0, <3>2
        <4>2. \A i \in 1..Len(history') : history'[i] = IF i <= Len(history) THEN history[i] ELSE row
          BY <1>0, <3>2
        <4> QED
          BY <1>0, <2>2, <4>1, <4>2 DEF HistoryNamed, OrigNamed
      <3> QED
        BY <2>3, <3>1, <3>2
    <2> QED
      BY <1>0, <1>9, <2>4 DEF RecordAction, Named, RowsNamed, FilesNamed, ZipNamed, OpNamed
  <1>10. CASE UndoLastAction
    <2> DEFINE h == Last(history)
    <2>1. OrigNamed(h.kind, h.orig)
      BY <1>0, <1>10 DEF UndoLastAction, Last, HistoryNamed
    <2>2. op'.rows = path /\ op'.kind = h.kind /\ op'.orig = h.orig
      BY <1>10 DEF UndoLastAction, Begin
    <2>3. OpNamed'
      BY <1>0, <2>1, <2>2 DEF OpNamed, RowsNamed, OrigNamed
    <2> QED
      BY <1>0, <1>10, <2>3
         DEF UndoLastAction, Named, RowsNamed, FilesNamed, ZipNamed, HistoryNamed, OrigNamed
  <1>12. ASSUME NEW n \in Name, RestoreOne(n)
         PROVE  Named'
    <2>1. /\ op \in Ops /\ op # NoOp /\ op.kind = "archive"
          /\ op.todo \subseteq DOMAIN op.orig \cap NamesInZip /\ n \in op.todo
      BY <1>12, OpIsOp DEF RestoreOne, Typed, OpKinds
    <2>2. OrigNamed("archive", op.orig) /\ op.orig[n][2] = n
      BY <1>0, <2>1 DEF OpNamed, OrigNamed
    <2>3. NameOf[LastEntry(n).picture] = n
      BY <1>0, <2>1, LastEntryOfName DEF ZipNamed
    <2>4. FilesNamed'
      BY <1>0, <1>12, <2>2, <2>3 DEF RestoreOne, FilesNamed, Files
    <2>5. OpNamed'
      <3>1. op'.rows = op.rows /\ op'.kind = op.kind /\ op'.orig = op.orig
        BY <1>12, <2>1 DEF RestoreOne, Ops
      <3> QED
        BY <1>0, <2>1, <3>1, OpNamedKept
    <2> QED
      BY <1>0, <1>12, <2>4, <2>5 DEF RestoreOne, Named, RowsNamed, ZipNamed, HistoryNamed, OrigNamed
  <1>13. CASE TrimZip
    <2>1. op \in Ops /\ op # NoOp
      BY <1>13, OpIsOp DEF TrimZip, Typed
    <2>2. PICK k \in Nat : \E order : Trimmed(k, order)
      BY <1>13, TrimStep
    <2>3. ZipNamed'
      <3>1. PICK order : Trimmed(k, order)
        BY <2>2
      <3>2. /\ Len(zip') = k
            /\ \A i \in 1..k : \E j \in 1..Len(zip) : zip'[i] = zip[j]
        BY <3>1 DEF Trimmed
      <3> SUFFICES ASSUME NEW i \in 1..k
                   PROVE  zip'[i].name = NameOf[zip'[i].picture]
        BY <3>2 DEF ZipNamed
      <3>3. PICK j \in 1..Len(zip) : zip'[i] = zip[j]
        BY <3>2
      <3>4. zip[j].name = NameOf[zip[j].picture]
        BY <1>0 DEF ZipNamed
      <3> QED
        BY <3>3, <3>4
    <2>4. OpNamed'
      <3>1. op'.rows = op.rows /\ op'.kind = op.kind /\ op'.orig = op.orig
        BY <1>13, <2>1 DEF TrimZip, Ops
      <3> QED
        BY <1>0, <2>1, <3>1, OpNamedKept
    <2> QED
      BY <1>0, <1>13, <2>3, <2>4 DEF TrimZip, Named, RowsNamed, FilesNamed, HistoryNamed, OrigNamed
  <1>15. CASE Forget
    <2>1. /\ Len(history') <= Len(history)
          /\ \A i \in 1..Len(history') : history'[i] = history[i] /\ i \in 1..Len(history)
      BY <1>0, <1>15 DEF Forget
    <2>2. HistoryNamed'
      BY <1>0, <2>1 DEF HistoryNamed, OrigNamed
    <2> QED
      BY <1>0, <1>15, <2>2 DEF Forget, Named, RowsNamed, FilesNamed, ZipNamed, OpNamed
  <1>18. ASSUME Kill
         PROVE  Named'
    <2>1. op' = NoOp /\ UNCHANGED <<file, path, history>> /\ (zip' = <<>> \/ zip' = zip)
      BY <1>18 DEF Kill, CutShort
    <2>2. ZipNamed'
      BY <1>0, <2>1 DEF ZipNamed
    <2> QED
      BY <1>0, <2>1, <2>2 DEF Named, RowsNamed, FilesNamed, OpNamed, HistoryNamed, OrigNamed
  <1>16. CASE Fail
    BY <1>0, <1>16
       DEF Fail, CutShort, Named, RowsNamed, FilesNamed, ZipNamed, OpNamed, HistoryNamed, OrigNamed
  <1>17. CASE UNCHANGED actionVars
    BY <1>0, <1>17
       DEF actionVars, Named, RowsNamed, FilesNamed, ZipNamed, OpNamed, HistoryNamed, OrigNamed
  <1> QED
    BY <1>1, <1>2, <1>3, <1>4, <1>5, <1>6, <1>7, <1>8, <1>9, <1>10, <1>12, <1>13,
       <1>15, <1>16, <1>17, <1>18 DEF ActionNext

LEMMA SurvivalIs == ASSUME Typed PROVE (\A x \in Photo : Somewhere(x)) => PicturesSurvive
  <1>1. DOMAIN zip = 1..Len(zip)
    BY DEF Typed, ActionTypeOK, Entries
  <1> QED
    BY <1>1 DEF PicturesSurvive, InFiles, InZip, Somewhere

\* What an entry is read by.
LEMMA EntryOfName ==
    ASSUME Typed, OneName, NEW i \in 1..Len(zip)
    PROVE  /\ zip[i].name \in NamesInZip /\ zip[i] \in Entry
           /\ LastEntry(zip[i].name).picture = zip[i].picture
  <1>1. zip \in Entries /\ zip[i] \in Entry /\ zip[i].name \in NamesInZip
    BY DEF Typed, ActionTypeOK, Entries, NamesInZip
  <1>2. PICK j \in 1..Len(zip) : LastEntry(zip[i].name) = zip[j] /\ zip[j].name = zip[i].name
    BY <1>1, LastEntryOfName
  <1> QED
    BY <1>1, <1>2 DEF OneName

\* The file of a photo, moved to where there is no other, keeps every picture.
LEMMA MovedSurvives ==
    ASSUME file \in Files, NEW p \in Photo, NEW from \in Path, NEW to \in Path,
           MoveFile(p, from, to), ~spoilt'
    PROVE  /\ ~spoilt
           /\ \A x \in Photo : (\E q \in Path : file[q] = x) => \E q \in Path : file'[q] = x
  <1>1. ~spoilt /\ file[from] = p /\ file[to] \in {NoPhoto, p} /\ file' = Moved(from, to)
    BY DEF MoveFile, Replaces
  <1>2. file'[to] = p /\ \A q \in Path : q # from /\ q # to => file'[q] = file[q]
    BY <1>1 DEF Moved, Files
  <1>3. \A x \in Photo, q \in Path : file[q] = x /\ (q = from \/ q = to) => x = p
    BY <1>1, HistoryAssumption
  <1> QED
    BY <1>1, <1>2, <1>3

LEMMA SafeInit == ActionInit => Safe
  <1> SUFFICES ASSUME ActionInit
               PROVE  Safe
    OBVIOUS
  <1>1. OneName /\ Copied
    BY DEF ActionInit, OneName, Copied, NoOp
  <1>2. ASSUME NEW x \in Photo
        PROVE  Somewhere(x)
    <2>1. path[x] \in Path /\ \A y \in Photo : path[y] = path[x] => y = x
      BY HistoryAssumption, NamesTyped, PathNames DEF ActionInit
    <2>2. file[path[x]] = CHOOSE y \in Photo : path[y] = path[x]
      BY <2>1 DEF ActionInit
    <2> QED
      BY <2>1, <2>2 DEF Somewhere
  <1> QED
    BY <1>1, <1>2 DEF Safe

\* No step takes back that something was spoilt.
LEMMA SpoiltStays ==
    ASSUME Typed, [ActionNext]_actionVars, spoilt
    PROVE  spoilt'
  <1>1. ASSUME \/ \E ps \in SUBSET Photo :
                    ArchivePhotos(ps) \/ \E dest \in Folder : MovePhotos(ps, dest)
               \/ UNCHANGED actionVars
        PROVE  spoilt'
    BY <1>1 DEF ArchivePhotos, MovePhotos, StartAction, actionVars
  <1>2. ASSUME NEW p \in Photo, MoveOne(p) \/ UnmoveOne(p)
        PROVE  spoilt'
    <2>1. UNCHANGED spoilt \/ \E from, to : MoveFile(p, from, to)
      BY <1>2 DEF MoveOne, UnmoveOne
    <2> QED
      BY <2>1 DEF MoveFile
  <1>3. ASSUME NEW p \in Photo, ZipOne(p)
        PROVE  spoilt'
    BY <1>3, ZipStep
  <1>4. ASSUME \/ CommitMove \/ CloseZip \/ RemoveOriginals \/ CommitArchive \/ RecordAction
               \/ UndoLastAction \/ CommitUnmove \/ TrimZip \/ Unmark \/ Forget \/ Fail
        PROVE  spoilt'
    BY <1>4 DEF CommitMove, CloseZip, RemoveOriginals, CommitArchive, RecordAction, UndoLastAction,
                CommitUnmove, TrimZip, Unmark, Forget, Fail
  <1>5. ASSUME Kill \/ \E n \in Name : RestoreOne(n)
        PROVE  spoilt'
    BY <1>5 DEF Kill, RestoreOne
  <1> QED
    BY <1>1, <1>2, <1>3, <1>4, <1>5 DEF ActionNext

LEMMA SafeStep ==
    ASSUME PictureInv, [ActionNext]_actionVars, ~spoilt'
    PROVE  Safe'
  <1>0. /\ Typed /\ Named /\ OneName /\ Copied /\ file \in Files /\ zip \in Entries
        /\ \A x \in Photo : Somewhere(x)
    <2>1. Typed /\ ~spoilt
      BY SpoiltStays DEF PictureInv
    <2> QED
      BY <2>1 DEF PictureInv, Safe, Typed, ActionTypeOK
  \* A step that keeps the files and the archive, and does not go on with one of the stages.
  <1>1. ASSUME UNCHANGED <<file, zip>>,
               op'.at \in {"zipping", "removing", "restoring"} => UNCHANGED op
        PROVE  Safe'
    <2>1. CASE UNCHANGED op
      BY <1>0, <1>1, <2>1 DEF Safe, OneName, Copied, Somewhere, NamesInZip, LastEntry
    <2>2. CASE op'.at \notin {"zipping", "removing", "restoring"}
      BY <1>0, <1>1, <2>2 DEF Safe, OneName, Copied, Somewhere
    <2> QED
      BY <1>1, <2>1, <2>2
  \* A step that keeps pictures where they are, or puts them elsewhere, outside the stages.
  <1>2. ASSUME op'.at \notin {"zipping", "removing", "restoring"}, UNCHANGED zip,
               \A x \in Photo : (\E q \in Path : file[q] = x) => \E q \in Path : file'[q] = x
        PROVE  Safe'
    BY <1>0, <1>2 DEF Safe, OneName, Copied, Somewhere
  <1>3. ASSUME NEW ps \in SUBSET Photo,
               ArchivePhotos(ps) \/ \E dest \in Folder : MovePhotos(ps, dest)
        PROVE  Safe'
    <2>1. UNCHANGED <<file, zip>>
      BY <1>3 DEF ArchivePhotos, MovePhotos, StartAction
    <2>2. CASE ArchivePhotos(ps)
      <3>1. op'.at = "zipping" /\ DOMAIN op'.orig = {} /\ op'.before.zip = zip
        BY <2>2 DEF ArchivePhotos, Begin, Snapshot
      <3>2. Copied'
        <4>1. zip = <<>> => \A i \in 1..Len(zip') : \E q \in Path : file'[q] = zip'[i].picture
          BY <2>1
        <4> QED
          BY <2>1, <3>1, <4>1 DEF Copied
      <3> QED
        BY <1>0, <2>1, <3>2 DEF Safe, OneName, Somewhere
    <2>3. CASE \E dest \in Folder : MovePhotos(ps, dest)
      <3>1. op'.at = "moving"
        BY <2>3 DEF MovePhotos, Begin
      <3> QED
        BY <1>1, <2>1, <3>1
    <2> QED
      BY <1>3, <2>2, <2>3
  <1>4. ASSUME NEW p \in Photo, MoveOne(p)
        PROVE  Safe'
    <2>1. /\ op \in Ops /\ op # NoOp /\ op.at = "moving" /\ op.dest \in Folder /\ op.rows \in Rows
      BY <1>0, <1>4, OpIsOp, OpParts DEF MoveOne, Typed, OpKinds
    <2> DEFINE to == <<op.dest, NameOf[p]>>
    <2>2. op.rows[p] \in Path /\ to \in Path
      BY <2>1, NamesTyped, PathNames DEF Rows
    <2>3. op'.at = "moving" /\ UNCHANGED zip
      BY <1>4, <2>1 DEF MoveOne, Ops
    <2>4. \A x \in Photo : (\E q \in Path : file[q] = x) => \E q \in Path : file'[q] = x
      <3>1. CASE UNCHANGED file
        BY <3>1
      <3>2. CASE MoveFile(p, op.rows[p], to)
        BY <1>0, <2>2, <3>2, MovedSurvives
      <3> QED
        BY <1>4, <3>1, <3>2 DEF MoveOne
    <2> QED
      BY <1>2, <2>3, <2>4
  <1>5. ASSUME NEW p \in Photo, UnmoveOne(p)
        PROVE  Safe'
    <2>1. /\ op \in Ops /\ op # NoOp /\ op.at = "unmoving" /\ op.kind = "move"
          /\ p \in DOMAIN op.orig /\ op.rows \in Rows /\ op.orig \in OriginsOf("move")
      BY <1>0, <1>5, OpIsOp, OpParts DEF UnmoveOne, Typed, OpKinds
    <2>2. op.rows[p] \in Path /\ op.orig[p] \in Path
      BY <2>1, OriginsHold DEF Rows
    <2>3. op'.at = "unmoving" /\ UNCHANGED zip
      BY <1>5, <2>1 DEF UnmoveOne, Ops
    <2>4. \A x \in Photo : (\E q \in Path : file[q] = x) => \E q \in Path : file'[q] = x
      <3>1. CASE UNCHANGED file
        BY <3>1
      <3>2. CASE MoveFile(p, op.rows[p], op.orig[p])
        BY <1>0, <2>2, <3>2, MovedSurvives
      <3> QED
        BY <1>5, <3>1, <3>2 DEF UnmoveOne
    <2> QED
      BY <1>2, <2>3, <2>4
  <1>6. ASSUME CommitMove \/ CommitUnmove \/ CommitArchive \/ Unmark
        PROVE  Safe'
    <2>1. op \in Ops
      BY <1>0, <1>6, OpIsOp DEF CommitMove, CommitUnmove, CommitArchive, Unmark, Typed
    <2>2. op'.at \in {"recording", "forgetting"} /\ UNCHANGED <<file, zip>>
      BY <1>6, <2>1 DEF CommitMove, CommitUnmove, CommitArchive, Unmark, Ops
    <2> QED
      BY <1>1, <2>2
  <1>7. ASSUME NEW p \in Photo, ZipOne(p)
        PROVE  Safe'
    <2>1. /\ op.at = "zipping" /\ op'.at = "zipping" /\ op'.before = op.before
          /\ op.orig \in ArchiveOrigins /\ UNCHANGED file
      BY <1>0, <1>7, ZipStep
    <2>2. CASE op'.orig = op.orig /\ UNCHANGED zip
      BY <1>0, <2>1, <2>2 DEF Safe, OneName, Copied, Somewhere
    <2>3. CASE Zipped(p, path[p], NameOf[p])
      <3> DEFINE k == Len(zip) + 1
      <3>1. /\ k \in Nat /\ Len(zip') = k /\ Len(zip) \in Nat
            /\ \A i \in 1..Len(zip) : zip'[i] = zip[i] /\ i \in 1..k
            /\ zip'[k].name = NameOf[p] /\ zip'[k].picture = p /\ k \in 1..k
            /\ file[path[p]] = p /\ path[p] \in Path
            /\ \A i \in 1..Len(zip) : zip[i].name = NameOf[p] => zip[i].picture = p
        BY <2>3 DEF Zipped
      <3>2. \A i \in 1..k : i \in 1..Len(zip) \/ i = k
        BY <3>1
      <3> HIDE DEF k
      <3>3. OneName'
        <4> SUFFICES ASSUME NEW i \in 1..k, NEW j \in 1..k, zip'[i].name = zip'[j].name
                     PROVE  zip'[i].picture = zip'[j].picture
          BY <3>1 DEF OneName
        <4>1. CASE i \in 1..Len(zip) /\ j \in 1..Len(zip)
          BY <1>0, <3>1, <4>1 DEF OneName
        <4>2. CASE i = k \/ j = k
          BY <3>1, <3>2, <4>2
        <4> QED
          BY <3>2, <4>1, <4>2
      <3>4. ASSUME NEW x \in DOMAIN op'.orig, file'[op'.orig[x]] # NoPhoto
            PROVE  \E i \in 1..Len(zip') : zip'[i].picture = file'[op'.orig[x]]
        <4>1. op'.orig[x] = IF x = NameOf[p] THEN path[p] ELSE op.orig[x]
          BY <2>3 DEF Zipped
        <4>2. CASE x = NameOf[p]
          BY <2>1, <3>1, <4>1, <4>2
        <4>3. CASE x # NameOf[p]
          <5>1. x \in DOMAIN op.orig /\ op'.orig[x] = op.orig[x]
            BY <2>3, <4>1, <4>3 DEF Zipped
          <5>2. PICK i \in 1..Len(zip) : zip[i].picture = file[op.orig[x]]
            BY <1>0, <2>1, <3>4, <5>1 DEF Copied
          <5> QED
            BY <2>1, <3>1, <5>1, <5>2
        <4> QED
          BY <4>2, <4>3
      <3>5. ASSUME op.before.zip = <<>>, NEW i \in 1..k
            PROVE  \E q \in Path : file'[q] = zip'[i].picture
        <4>1. CASE i \in 1..Len(zip)
          BY <1>0, <2>1, <3>1, <3>5, <4>1 DEF Copied
        <4>2. CASE i = k
          BY <2>1, <3>1, <4>2
        <4> QED
          BY <3>2, <4>1, <4>2
      <3>6. Copied'
        BY <2>1, <3>1, <3>4, <3>5 DEF Copied
      <3>7. ASSUME NEW x \in Photo
            PROVE  Somewhere(x)'
        BY <1>0, <2>1, <3>1 DEF Somewhere
      <3> QED
        BY <3>3, <3>6, <3>7 DEF Safe
    <2> QED
      BY <1>0, <1>7, <2>2, <2>3, ZipStep
  <1>14. CASE CloseZip
    <2>1. op.at = "zipping" /\ op \in Ops /\ UNCHANGED <<file, zip>>
      BY <1>0, <1>14, OpIsOp DEF CloseZip, Typed
    <2>2. op'.at = "removing" /\ op'.orig = op.orig
      BY <1>14, <2>1 DEF CloseZip, Ops
    <2> QED
      BY <1>0, <2>1, <2>2 DEF Safe, OneName, Copied, Somewhere
  <1>8. CASE RemoveOriginals
    <2>1. op.at = "removing" /\ UNCHANGED <<zip, op>>
      BY <1>8 DEF RemoveOriginals
    <2>2. PICK n \in DOMAIN op.orig :
            file[op.orig[n]] # NoPhoto /\ file' = [file EXCEPT ![op.orig[n]] = NoPhoto]
      BY <1>8 DEF RemoveOriginals, Kept
    <2>3. PICK i \in 1..Len(zip) : zip[i].picture = file[op.orig[n]]
      BY <1>0, <2>1, <2>2 DEF Copied
    <2>4. \A q \in Path : file'[q] = NoPhoto \/ (q # op.orig[n] /\ file'[q] = file[q])
      BY <1>0, <2>2 DEF Files
    <2>5. ASSUME NEW x \in Photo
          PROVE  Somewhere(x)'
      <3>1. CASE \E q \in Path : q # op.orig[n] /\ file[q] = x
        BY <1>0, <2>2, <3>1 DEF Somewhere, Files
      <3>2. CASE \E q \in Path : q = op.orig[n] /\ file[q] = x
        BY <2>1, <2>3, <3>2 DEF Somewhere
      <3>3. CASE \E j \in 1..Len(zip) : zip[j].picture = x
        BY <2>1, <3>3 DEF Somewhere
      <3> QED
        BY <1>0, <3>1, <3>2, <3>3 DEF Somewhere
    <2>6. Copied'
      <3>1. \A x \in DOMAIN op.orig : op.orig[x] \in Path
        <4>1. op # NoOp
          BY <1>0, <2>1, OpIsOp DEF Typed
        <4> QED
          BY <1>0, <4>1, OpParts, OriginsHold
      <3>2. \A x \in DOMAIN op.orig : file'[op.orig[x]] # NoPhoto =>
               \E j \in 1..Len(zip) : zip[j].picture = file'[op.orig[x]]
        BY <1>0, <2>1, <2>4, <3>1 DEF Copied
      <3> QED
        BY <2>1, <3>2 DEF Copied
    <2>7. OneName'
      BY <1>0, <2>1 DEF OneName
    <2> QED
      BY <2>5, <2>6, <2>7 DEF Safe
  <1>9. CASE UndoLastAction
    <2> DEFINE h == Last(history)
    <2>1. /\ op'.todo = IF h.kind = "move" THEN DOMAIN h.orig ELSE DOMAIN h.orig \cap NamesInZip
          /\ op'.orig = h.orig /\ UNCHANGED <<file, zip>>
          /\ op'.at = "restoring" => h.kind # "move"
          /\ op'.at \in {"unmoving", "unmarking", "restoring"}
      BY <1>9 DEF UndoLastAction, Begin
    <2>2. Copied'
      BY <2>1 DEF Copied, NamesInZip
    <2>3. OneName'
      BY <1>0, <2>1 DEF OneName
    <2> QED
      BY <1>0, <2>1, <2>2, <2>3 DEF Safe, Somewhere
  <1>10. ASSUME NEW n \in Name, RestoreOne(n)
         PROVE  Safe'
    <2>1. /\ op \in Ops /\ op # NoOp /\ op.kind = "archive" /\ op.at = "restoring"
          /\ op.todo \subseteq DOMAIN op.orig \cap NamesInZip /\ n \in op.todo
          /\ OrigNamed("archive", op.orig) /\ op.orig[n][2] = n /\ op.orig \in OriginsOf("archive")
      BY <1>0, <1>10, OpIsOp, OpParts DEF RestoreOne, Typed, OpKinds, Named, OpNamed, OrigNamed
    <2> DEFINE picture == LastEntry(n).picture
    <2>2. /\ op'.at = "restoring" /\ op'.orig = op.orig /\ op'.todo = op.todo \ {n}
          /\ file' = [file EXCEPT ![op.orig[n]] = picture] /\ UNCHANGED zip
          /\ file[op.orig[n]] \in {NoPhoto, picture}
      BY <1>10, <2>1 DEF RestoreOne, Ops, Replaces
    <2>3. \A x : LastEntry(x)' = LastEntry(x)
      BY <2>2 DEF LastEntry
    <2>4. NamesInZip' = NamesInZip
      BY <2>2 DEF NamesInZip
    <2>5. \A x \in DOMAIN op.orig : op.orig[x] \in Path
      BY <2>1, OriginsHold
    <2> HIDE DEF picture
    <2>6. Copied'
      <3>1. ASSUME NEW x \in (DOMAIN op.orig \cap NamesInZip) \ op'.todo
            PROVE  file'[op.orig[x]] = LastEntry(x).picture
        <4>1. CASE x = n
          BY <1>0, <2>2, <2>5, <4>1 DEF Files, picture
        <4>2. CASE x # n
          <5>1. file[op.orig[x]] = LastEntry(x).picture
            BY <1>0, <2>1, <2>2, <4>2 DEF Copied
          <5>2. op.orig[x] # op.orig[n]
            BY <2>1, <4>2 DEF OrigNamed
          <5> QED
            BY <1>0, <2>2, <2>5, <5>1, <5>2 DEF Files
        <4> QED
          BY <4>1, <4>2
      <3>2. \A x \in (DOMAIN op'.orig \cap NamesInZip') \ op'.todo :
               file'[op'.orig[x]] = LastEntry(x)'.picture
        BY <2>2, <2>3, <2>4, <3>1
      <3> QED
        BY <2>2, <3>2 DEF Copied
    <2>7. ASSUME NEW x \in Photo
          PROVE  Somewhere(x)'
      <3>1. CASE \E q \in Path : q # op.orig[n] /\ file[q] = x
        BY <1>0, <2>2, <3>1 DEF Somewhere, Files
      <3>2. CASE \E q \in Path : q = op.orig[n] /\ file[q] = x
        <4>1. picture = x
          BY <2>2, <3>2, HistoryAssumption
        <4> QED
          BY <1>0, <2>1, <2>2, <2>5, <4>1 DEF Somewhere, Files
      <3>3. CASE \E j \in 1..Len(zip) : zip[j].picture = x
        BY <2>2, <3>3 DEF Somewhere
      <3> QED
        BY <1>0, <3>1, <3>2, <3>3 DEF Somewhere
    <2>8. OneName'
      BY <1>0, <2>2 DEF OneName
    <2> QED
      BY <2>6, <2>7, <2>8 DEF Safe
  <1>11. CASE TrimZip
    <2>1. /\ op \in Ops /\ op # NoOp /\ op.kind = "archive" /\ op.at = "restoring" /\ op.todo = {}
          /\ op.orig \in OriginsOf("archive")
          /\ \A x \in DOMAIN op.orig \cap NamesInZip : file[op.orig[x]] = LastEntry(x).picture
      BY <1>0, <1>11, OpIsOp, OpParts DEF TrimZip, Typed, OpKinds, Copied
    <2>2. op'.at = "unmarking" /\ UNCHANGED file
      BY <1>11, <2>1 DEF TrimZip, Ops
    <2>3. PICK k \in Nat : \E order : Trimmed(k, order)
      BY <1>0, <1>11, TrimStep
    <2>4. PICK order : Trimmed(k, order)
      BY <2>3
    <2>5. ASSUME NEW x \in Photo
          PROVE  Somewhere(x)'
      <3>1. CASE \E q \in Path : file[q] = x
        BY <2>2, <3>1 DEF Somewhere
      <3>2. ASSUME NEW j \in 1..Len(zip), zip[j].picture = x
            PROVE  Somewhere(x)'
        <4> DEFINE n == zip[j].name
        <4>1. n \in NamesInZip /\ LastEntry(n).picture = x
          BY <1>0, <3>2, EntryOfName
        <4>2. CASE n \in DOMAIN op.orig
          <5>1. op.orig[n] \in Path /\ file[op.orig[n]] = x
            BY <2>1, <4>1, <4>2, OriginsHold
          <5> QED
            BY <2>2, <5>1 DEF Somewhere
        <4>3. CASE n \notin DOMAIN op.orig
          <5>1. PICK i \in 1..k : order[i] = j
            BY <2>4, <4>3 DEF Trimmed
          <5>2. PICK l \in 1..Len(zip) : zip'[i] = zip[l] /\ zip[l].name = zip[order[i]].name
            BY <2>4, <5>1 DEF Trimmed
          <5>3. zip[l].picture = x
            BY <1>0, <3>2, <5>1, <5>2 DEF OneName
          <5>4. i \in 1..Len(zip') /\ zip'[i].picture = x
            BY <2>4, <5>1, <5>2, <5>3 DEF Trimmed
          <5> QED
            BY <5>4 DEF Somewhere
        <4> QED
          BY <4>2, <4>3
      <3> QED
        BY <1>0, <3>1, <3>2 DEF Somewhere
    <2>6. OneName'
      <3>1. Len(zip') = k /\ \A i \in 1..k : \E j \in 1..Len(zip) : zip'[i] = zip[j]
        BY <2>4 DEF Trimmed
      <3> SUFFICES ASSUME NEW i \in 1..k, NEW j \in 1..k, zip'[i].name = zip'[j].name
                   PROVE  zip'[i].picture = zip'[j].picture
        BY <3>1 DEF OneName
      <3>2. PICK a \in 1..Len(zip) : zip'[i] = zip[a]
        BY <3>1
      <3>3. PICK b \in 1..Len(zip) : zip'[j] = zip[b]
        BY <3>1
      <3> QED
        BY <1>0, <3>2, <3>3 DEF OneName
    <2> QED
      BY <2>2, <2>5, <2>6 DEF Safe, Copied
  <1>12. ASSUME RecordAction \/ Forget \/ Fail
         PROVE  Safe'
    <2>1. op'.at = "idle" /\ UNCHANGED <<file, zip>>
      BY <1>12 DEF RecordAction, Forget, Fail, CutShort, NoOp
    <2> QED
      BY <1>1, <2>1
  <1>15. CASE Kill
    <2>1. op'.at = "idle" /\ UNCHANGED file
      BY <1>15 DEF Kill, CutShort, NoOp
    <2>2. CASE UNCHANGED zip
      BY <1>1, <2>1, <2>2
    <2>3. CASE op.at = "zipping" /\ zip' = <<>> /\ op.before.zip = <<>>
      <3>1. \A x \in Photo : \E q \in Path : file[q] = x
        BY <1>0, <2>3 DEF Copied, Somewhere
      <3>2. \A x \in Photo : Somewhere(x)'
        BY <2>1, <3>1 DEF Somewhere
      <3>3. OneName' /\ Copied'
        BY <2>1, <2>3 DEF OneName, Copied
      <3> QED
        BY <3>2, <3>3 DEF Safe
    <2> QED
      BY <1>15, <2>2, <2>3 DEF Kill
  <1>13. CASE UNCHANGED actionVars
    BY <1>1, <1>13 DEF actionVars
  <1> QED
    BY <1>3, <1>4, <1>5, <1>6, <1>7, <1>8, <1>9, <1>10, <1>11, <1>12, <1>13, <1>14, <1>15
       DEF ActionNext

LEMMA PictureInvInit == ActionInit => PictureInv
  BY TypedInit, NamedInit, SafeInit DEF PictureInv

LEMMA PictureInvStep == PictureInv /\ [ActionNext]_actionVars => PictureInv'
  BY TypedStep, NamedStep, SafeStep DEF PictureInv

--------------------------------------------------------------------------------
(* The way back *)

\* Rows and marks say what the files are.
LEMMA SameFiles ==
    ASSUME NEW f \in Files, NEW g \in Files, NEW r, NEW a,
           SoundFiles(f, r, a), SoundFiles(g, r, a)
    PROVE  f = g
  <1>1. \A q \in Path : f[q] \in Photo \/ g[q] \in Photo => f[q] = g[q]
    BY DEF SoundFiles
  <1>2. \A q \in Path : f[q] = g[q]
    BY <1>1 DEF Files
  <1> QED
    BY <1>2 DEF Files

LEMMA SnapshotIs ==
    /\ Snapshot = State(file, path, archived, zip)
    /\ Snapshot.file = file /\ Snapshot.path = path
    /\ Snapshot.archived = archived /\ Snapshot.zip = zip
  BY DEF Snapshot, State

LEMMA StateIs ==
    ASSUME NEW f, NEW r, NEW a, NEW z
    PROVE  /\ State(f, r, a, z).file = f /\ State(f, r, a, z).path = r
           /\ State(f, r, a, z).archived = a /\ State(f, r, a, z).zip = z
           /\ Sound(State(f, r, a, z)) <=>
                SoundFiles(f, r, a) /\ SoundMarks(a, z) /\ OneOfAName(z)
  BY DEF State, Sound

LEMMA SameSnapshot ==
    ASSUME NEW s \in Snapshots,
           s.file = file /\ s.path = path /\ s.archived = archived /\ s.zip = zip
    PROVE  Snapshot = s
  BY DEF Snapshot, Snapshots

\* Nothing grew when there is no name.
LEMMA GrownByNothing ==
    ASSUME NEW old \in Entries, NEW new \in Entries, Grown(old, new, {})
    PROVE  old = new
  <1>1. Len(old) = Len(new)
    <2>1. Len(old) \in Nat /\ Len(new) \in Nat
      BY DEF Entries
    <2>2. ~(Len(old) < Len(new))
      BY <2>1 DEF Grown
    <2> QED
      BY <2>1, <2>2 DEF Grown
  <1> QED
    BY <1>1 DEF Grown, Entries

\* An operation that touched no file left the state as it was.
LEMMA TouchedNothing ==
    ASSUME NEW h, NEW s \in Snapshots, h.before \in Snapshots, Sound(s), Sound(h.before),
           DOMAIN h.orig = {}, Undoes(s, h)
    PROVE  h.before = s
  <1>1. h.before.path = s.path /\ h.before.archived = s.archived /\ h.before.zip = s.zip
    <2>1. CASE h.kind = "move"
      BY <2>1 DEF Undoes, UndoesMove, Snapshots, Rows
    <2>2. CASE h.kind # "move"
      <3>1. UndoesArchive(s, h, h.newly)
        BY <2>2 DEF Undoes
      <3>2. h.newly = {}
        BY <3>1 DEF UndoesArchive
      <3> QED
        BY <3>1, <3>2, GrownByNothing DEF UndoesArchive, Snapshots
    <2> QED
      BY <2>1, <2>2
  <1>2. h.before.file = s.file
    <2>1. /\ SoundFiles(s.file, s.path, s.archived)
          /\ SoundFiles(h.before.file, s.path, s.archived)
          /\ s.file \in Files /\ h.before.file \in Files
      BY <1>1 DEF Sound, Snapshots
    <2> QED
      BY <2>1, SameFiles
  <1> QED
    BY <1>1, <1>2 DEF Snapshots

\* A file that moves to where there is no other takes its row along.
LEMMA MovedSound ==
    ASSUME Typed, NEW rows \in Rows, Sound(State(file, rows, archived, zip)),
           NEW p \in Photo, NEW to \in Path, MoveFile(p, rows[p], to), ~spoilt'
    PROVE  /\ p \notin archived /\ file' = Moved(rows[p], to)
           /\ Sound(State(Moved(rows[p], to), [rows EXCEPT ![p] = to], archived, zip))
  <1> DEFINE from == rows[p]
  <1>1. file \in Files /\ from \in Path
    BY DEF Typed, ActionTypeOK, Rows
  <1>2. file[from] = p /\ file[to] \in {NoPhoto, p} /\ file' = Moved(from, to)
    BY DEF MoveFile, Replaces
  <1>3. \A x \in Photo : \A q \in Path : file[q] = x <=> x \notin archived /\ rows[x] = q
    BY StateIs DEF SoundFiles
  <1>4. p \notin archived
    BY <1>1, <1>2, <1>3
  <1>5. /\ Moved(from, to)[to] = p
        /\ from # to => Moved(from, to)[from] = NoPhoto
        /\ \A q \in Path : q # from /\ q # to => Moved(from, to)[q] = file[q]
    BY <1>1, <1>2 DEF Moved, Files
  <1>6. \A x \in Photo : x # p => file[to] # x
    BY <1>2, HistoryAssumption
  <1>7. ASSUME NEW x \in Photo, NEW q \in Path
        PROVE  Moved(from, to)[q] = x <=> x \notin archived /\ [rows EXCEPT ![p] = to][x] = q
    <2>1. [rows EXCEPT ![p] = to][x] = IF x = p THEN to ELSE rows[x]
      BY DEF Rows
    <2>2. CASE x = p
      BY <1>1, <1>2, <1>3, <1>4, <1>5, <2>1, <2>2, HistoryAssumption
    <2>3. CASE x # p
      BY <1>1, <1>2, <1>3, <1>4, <1>5, <1>6, <2>1, <2>3, HistoryAssumption
    <2> QED
      BY <2>2, <2>3
  <1>8. SoundFiles(Moved(from, to), [rows EXCEPT ![p] = to], archived)
    BY <1>7 DEF SoundFiles
  <1> QED
    BY <1>2, <1>4, <1>8, StateIs

LEMMA StackInit == ActionInit => Stack
  <1> SUFFICES ASSUME ActionInit
               PROVE  Stack
    OBVIOUS
  <1>1. path \in Rows /\ \A x, y \in Photo : path[x] = path[y] => x = y
    BY TypedInit, HistoryAssumption DEF ActionInit, Typed, ActionTypeOK
  <1>2. ASSUME NEW x \in Photo, NEW q \in Path
        PROVE  file[q] = x <=> path[x] = q
    <2>1. file[q] = IF \E y \in Photo : path[y] = q THEN CHOOSE y \in Photo : path[y] = q ELSE NoPhoto
      BY DEF ActionInit
    <2>2. CASE \E y \in Photo : path[y] = q
      <3>1. file[q] \in Photo /\ path[file[q]] = q
        BY <2>1, <2>2
      <3> QED
        BY <1>1, <3>1
    <2>3. CASE ~ \E y \in Photo : path[y] = q
      BY <2>1, <2>3, HistoryAssumption
    <2> QED
      BY <2>2, <2>3
  <1>3. Sound(Snapshot)
    <2>1. SoundFiles(file, path, archived)
      BY <1>2 DEF ActionInit, SoundFiles
    <2>2. SoundMarks(archived, zip) /\ OneOfAName(zip)
      BY DEF ActionInit, SoundMarks, OneOfAName
    <2> QED
      BY <2>1, <2>2, SnapshotIs, StateIs
  <1> QED
    <2>1. Chain /\ op.at = "idle" /\ Reaches(Snapshot)
      BY <1>3 DEF ActionInit, Chain, Reaches, NoOp
    <2> QED
      BY <2>1 DEF Stack

\* What an action, and an undo, keep until they get to the history.
LEMMA ActionGoesOn ==
    ASSUME Chain, Reaches(op.before), UNCHANGED history, op'.before = op.before
    PROVE  Chain' /\ Reaches(op.before)'
  BY DEF Chain, Reaches

LEMMA UndoGoesOn ==
    ASSUME Chain, OfLast, UNCHANGED history, op'.before = op.before,
           op'.kind = op.kind, op'.orig = op.orig, op'.newly = op.newly
    PROVE  Chain' /\ OfLast'
  BY DEF Chain, OfLast

LEMMA MoveBegins ==
    ASSUME Typed, Stack, NEW ps \in SUBSET Photo, NEW dest \in Folder, MovePhotos(ps, dest)
    PROVE  Stack'
  <1>1. /\ op.at = "idle" /\ Chain /\ Reaches(Snapshot)
        /\ UNCHANGED <<file, path, archived, zip, history>>
    BY DEF MovePhotos, StartAction, Stack
  <1>2. /\ op'.at = "moving" /\ op'.before = Snapshot /\ op'.rows = path /\ op'.orig = <<>>
    BY DEF MovePhotos, Begin
  <1>3. Chain' /\ Reaches(op.before)'
    BY <1>1, <1>2 DEF Chain, Reaches
  <1>4. Moving'
    <2>1. Sound(State(file, path, archived, zip)) /\ DOMAIN <<>> = {}
      BY <1>1, SnapshotIs DEF Reaches
    <2>2. UndoesMove(State(file, path, archived, zip), op')
      BY <1>2, <2>1, SnapshotIs, StateIs DEF UndoesMove
    <2> QED
      BY <1>1, <1>2, <2>1, <2>2, SnapshotIs DEF Moving
  <1> QED
    BY <1>2, <1>3, <1>4 DEF Stack

LEMMA ArchiveBegins ==
    ASSUME Typed, Stack, NEW ps \in SUBSET Photo, ArchivePhotos(ps)
    PROVE  Stack'
  <1>1. /\ op.at = "idle" /\ Chain /\ Reaches(Snapshot) /\ file \in Files
        /\ UNCHANGED <<file, path, archived, zip, history>>
    BY DEF ArchivePhotos, StartAction, Stack, Typed, ActionTypeOK
  <1>2. /\ op'.at = "zipping" /\ op'.before = Snapshot /\ op'.newly = ps /\ op'.todo = ps
        /\ op'.orig = <<>> /\ DOMAIN op'.orig = {}
    BY DEF ArchivePhotos, Begin
  <1>3. Chain' /\ Reaches(op.before)'
    BY <1>1, <1>2 DEF Chain, Reaches
  <1>4. Kept' = {} /\ [q \in Path |-> IF q \in Kept' THEN NoPhoto ELSE file[q]] = file
    BY <1>1, <1>2 DEF Kept, Files
  <1>5. archived' \cup (op'.newly \ op'.todo) = archived /\ (op'.newly \ op'.todo) \ archived' = {}
    BY <1>1, <1>2
  <1>6. UndoesArchive(State(file, path, archived, zip), op', {})
    <2>1. Grown(zip, zip, {})
      BY DEF Typed, ActionTypeOK, Entries, Grown
    <2> QED
      BY <1>2, <2>1, SnapshotIs, StateIs DEF UndoesArchive
  <1>7. Archiving'
    BY <1>1, <1>4, <1>5, <1>6, SnapshotIs DEF Archiving, Reaches
  <1>8. Zipping'
    BY <1>1, <1>2, <1>7, SnapshotIs DEF Zipping
  <1> QED
    BY <1>2, <1>3, <1>8 DEF Stack

LEMMA MoveGoesOn ==
    ASSUME Typed, Stack, NEW p \in Photo, MoveOne(p), ~spoilt'
    PROVE  Stack'
  <1>1. /\ op \in Ops /\ op # NoOp /\ op.at = "moving" /\ op.dest \in Folder /\ p \in op.todo
        /\ op.rows \in Rows /\ op.todo \subseteq Photo
    BY OpIsOp, OpParts DEF MoveOne, Typed, OpKinds
  <1>2. /\ Chain /\ Reaches(op.before) /\ Moving
        /\ UNCHANGED <<path, archived, zip, history>>
    BY <1>1 DEF Stack, MoveOne
  <1> DEFINE to == <<op.dest, NameOf[p]>>
             orig == [x \in DOMAIN op.orig \cup {p} |-> IF x = p THEN op.rows[p] ELSE op.orig[x]]
             s == State(file, op.rows, archived, zip)
  <1>3. /\ path = op.before.path /\ Sound(s) /\ UndoesMove(s, op)
        /\ op.todo \cap DOMAIN op.orig = {}
    BY <1>2 DEF Moving
  <1>4. to \in Path
    BY <1>1, NamesTyped, PathNames
  <1>5. ASSUME op'.at = "moving", op'.before = op.before, Moving'
        PROVE  Stack'
    <2>1. Chain' /\ Reaches(op.before)'
      BY <1>2, <1>5, ActionGoesOn
    <2> QED
      BY <1>5, <2>1 DEF Stack
  <1>6. CASE file[op.rows[p]] = NoPhoto
    <2>1. /\ op'.at = "moving" /\ op'.before = op.before /\ op'.rows = op.rows
          /\ op'.orig = op.orig /\ op'.todo = op.todo \ {p} /\ file' = file
      BY <1>1, <1>6 DEF MoveOne, Ops
    <2>2. UndoesMove(s, op')
      BY <1>3, <2>1 DEF UndoesMove
    <2>3. Moving'
      BY <1>2, <1>3, <2>1, <2>2 DEF Moving
    <2> QED
      BY <1>5, <2>1, <2>3
  <1>7. CASE file[op.rows[p]] # NoPhoto
    <2>1. op' = [op EXCEPT !.todo = @ \ {p}, !.rows[p] = to, !.orig = orig]
          /\ MoveFile(p, op.rows[p], to)
      BY <1>7 DEF MoveOne
    <2> DEFINE rows == [op.rows EXCEPT ![p] = to]
               t == State(Moved(op.rows[p], to), rows, archived, zip)
    <2>2. /\ op'.at = "moving" /\ op'.before = op.before /\ op'.rows = rows
          /\ op'.orig = orig /\ op'.todo = op.todo \ {p}
      <3> HIDE DEF orig, to
      <3> QED
        BY <1>1, <2>1 DEF Ops
    <2>3. p \notin archived /\ Sound(t) /\ file' = Moved(op.rows[p], to)
      BY <1>1, <1>3, <1>4, <2>1, MovedSound
    <2>4. UndoesMove(t, op')
      <3>1. p \notin DOMAIN op.orig /\ DOMAIN orig = DOMAIN op.orig \cup {p}
        BY <1>1, <1>3
      <3>2. /\ op.before.archived = archived /\ op.before.zip = zip
            /\ DOMAIN op.orig \subseteq Photo \ archived
            /\ \A x \in Photo : op.before.path[x] = IF x \in DOMAIN op.orig THEN op.orig[x] ELSE op.rows[x]
        BY <1>3, StateIs DEF UndoesMove
      <3>3. \A x \in Photo : op.before.path[x] = IF x \in DOMAIN orig THEN orig[x] ELSE rows[x]
        BY <1>1, <3>1, <3>2 DEF Rows
      <3> HIDE DEF orig, rows
      <3> QED
        BY <2>2, <2>3, <3>1, <3>2, <3>3, StateIs DEF UndoesMove
    <2>5. op'.todo \cap DOMAIN op'.orig = {}
      BY <1>3, <2>2
    <2>6. Moving'
      <3> HIDE DEF orig, rows, to
      <3> QED
        BY <1>2, <1>3, <2>1, <2>2, <2>3, <2>4, <2>5 DEF Moving
    <2> QED
      BY <1>5, <2>2, <2>6
  <1> QED
    BY <1>6, <1>7

LEMMA MoveCommits ==
    ASSUME Typed, Stack, CommitMove
    PROVE  Stack'
  <1>1. op \in Ops /\ op # NoOp /\ op.at = "moving" /\ op.kind = "move"
    BY OpIsOp DEF CommitMove, Typed, OpKinds
  <1>2. /\ Chain /\ Reaches(op.before) /\ Moving
        /\ UNCHANGED <<file, archived, zip, history>> /\ path' = op.rows
    BY <1>1 DEF Stack, CommitMove
  <1>3. /\ op'.at = "recording" /\ op'.before = op.before /\ op'.kind = "move" /\ op'.orig = op.orig
    BY <1>1 DEF CommitMove, Ops
  <1>4. Snapshot' = State(file, op.rows, archived, zip)
    BY <1>2 DEF Snapshot, State
  <1>5. Recording'
    BY <1>2, <1>3, <1>4 DEF Recording, Moving, Undoes, UndoesMove
  <1>6. Chain' /\ Reaches(op.before)'
    BY <1>2, <1>3, ActionGoesOn
  <1> QED
    BY <1>3, <1>5, <1>6 DEF Stack

LEMMA ZipGrows ==
    ASSUME Typed, Named, Stack, NEW p \in Photo, ZipOne(p), ~spoilt'
    PROVE  Stack'
  <1>1. /\ op.at = "zipping" /\ op.todo \subseteq Photo /\ p \in op.todo
        /\ op'.at = "zipping" /\ op'.newly = op.newly /\ op'.before = op.before
        /\ op'.todo = op.todo \ {p}
        /\ UNCHANGED <<file, path, archived, history>>
    BY ZipStep
  <1>2. /\ file \in Files /\ path \in Rows /\ archived \subseteq Photo /\ zip \in Entries
        /\ op.newly \subseteq Photo /\ ZipNamed /\ path[p] \in Path
    BY <1>1, OpIsOp, OpParts DEF Typed, ActionTypeOK, Named, Rows
  <1>3. Chain /\ Reaches(op.before) /\ Zipping
    BY <1>1 DEF Stack
  <1> DEFINE done == op.newly \ op.todo
             fresh == done \ archived
             marks == archived \cup done
             rest == [q \in Path |-> IF q \in Kept THEN NoPhoto ELSE file[q]]
             names == DOMAIN op.orig
  <1>4. /\ SoundFiles(rest, path, marks) /\ SoundMarks(marks, zip) /\ OneOfAName(zip)
        /\ op.before.path = path /\ op.before.archived = marks \ fresh
        /\ names = {NameOf[x] : x \in fresh} /\ \A x \in fresh : op.orig[NameOf[x]] = path[x]
        /\ Grown(op.before.zip, zip, names)
    BY <1>3, StateIs DEF Zipping, Archiving, UndoesArchive
  <1>5. op.before.file = file /\ op.before.archived = archived /\ op.todo \subseteq op.newly
    BY <1>3, <1>4 DEF Zipping
  <1>6. SoundFiles(file, path, archived)
    BY <1>3, <1>4, <1>5 DEF Reaches, Sound
  <1>7. file[path[p]] = p <=> p \notin archived
    BY <1>2, <1>6 DEF SoundFiles
  <1>8. op'.newly \ op'.todo = done \cup {p} /\ p \notin done
    BY <1>1, <1>5
  <1>9. Chain' /\ Reaches(op.before)'
    BY <1>1, <1>3, ActionGoesOn
  <1>10. ASSUME Archiving'
         PROVE  Stack'
    <2>1. Zipping'
      BY <1>1, <1>5, <1>10 DEF Zipping
    <2> QED
      BY <1>1, <1>9, <2>1 DEF Stack
  <1>11. CASE file[path[p]] = NoPhoto
    <2>1. op'.orig = op.orig /\ UNCHANGED zip
      BY <1>11, ZipStep
    <2>2. p \in archived
      BY <1>7, <1>11, HistoryAssumption
    <2>3. /\ archived' \cup (op'.newly \ op'.todo) = marks
          /\ (op'.newly \ op'.todo) \ archived' = fresh
      BY <1>1, <1>8, <2>2
    <2>4. [q \in Path |-> IF q \in Kept' THEN NoPhoto ELSE file'[q]] = rest
      BY <1>1, <2>1 DEF Kept
    <2>5. UndoesArchive(State(rest, path, marks, zip), op', fresh)
      BY <1>3, <1>1, <2>1 DEF Zipping, Archiving, UndoesArchive
    <2>6. Sound(State(rest, path, marks, zip))
      BY <1>4, StateIs
    <2> HIDE DEF rest, marks, fresh
    <2>7. Archiving'
      BY <1>1, <2>1, <2>3, <2>4, <2>5, <2>6 DEF Archiving
    <2> QED
      BY <1>10, <2>7
  <1>12. CASE file[path[p]] # NoPhoto
    <2>1. Zipped(p, path[p], NameOf[p])
      BY <1>12, ZipStep
    <2> DEFINE k == Len(zip) + 1
               more == fresh \cup {p}
               marked == marks \cup {p}
               left == [q \in Path |-> IF q \in Kept' THEN NoPhoto ELSE file'[q]]
    <2>2. /\ k \in Nat /\ Len(zip') = k /\ Len(zip) \in Nat /\ k \in 1..k /\ Len(zip) < k
          /\ \A i \in 1..Len(zip) : zip'[i] = zip[i] /\ i \in 1..k
          /\ zip'[k].name = NameOf[p] /\ zip'[k].picture = p
          /\ file[path[p]] = p
          /\ \A i \in 1..Len(zip) : zip[i].name = NameOf[p] => zip[i].picture = p
          /\ \A i \in 1..k : i \in 1..Len(zip) \/ i = k
      BY <2>1 DEF Zipped
    <2>3. p \notin archived /\ p \notin marks /\ p \notin fresh
      BY <1>7, <1>8, <2>2
    <2>4. /\ archived' \cup (op'.newly \ op'.todo) = marked
          /\ (op'.newly \ op'.todo) \ archived' = more
      BY <1>1, <1>8, <2>3
    <2>5. fresh \subseteq marks /\ marked \ more = archived /\ more \subseteq marked
          /\ fresh \subseteq Photo /\ marks \subseteq Photo
      BY <1>2, <2>3
    <2> HIDE DEF fresh, marks, done, k
    \* The name is new to the archive.
    <2>6. \A i \in 1..Len(zip) : zip[i].name # NameOf[p]
      BY <1>4, <2>2, <2>3 DEF SoundMarks
    <2>7. \A x \in fresh : NameOf[x] # NameOf[p]
      <3> SUFFICES ASSUME NEW x \in fresh
                   PROVE  NameOf[x] # NameOf[p]
        OBVIOUS
      <3>1. PICK i \in 1..Len(zip) : zip[i].picture = x
        BY <1>4, <2>5 DEF SoundMarks
      <3> QED
        BY <1>2, <2>6, <3>1 DEF ZipNamed
    <2>8. /\ DOMAIN op'.orig = names \cup {NameOf[p]} /\ op'.orig[NameOf[p]] = path[p]
          /\ \A x \in fresh : op'.orig[NameOf[x]] = path[x]
      <3>1. /\ DOMAIN op'.orig = names \cup {NameOf[p]}
            /\ \A n \in DOMAIN op'.orig : op'.orig[n] = IF n = NameOf[p] THEN path[p] ELSE op.orig[n]
        BY <2>1 DEF Zipped
      <3>2. \A x \in fresh : NameOf[x] \in names /\ op.orig[NameOf[x]] = path[x]
        BY <1>4
      <3> QED
        BY <2>7, <3>1, <3>2
    <2>9. DOMAIN op'.orig = {NameOf[x] : x \in more} /\ \A x \in more : op'.orig[NameOf[x]] = path[x]
      BY <1>4, <2>8
    <2>10. Kept = {path[x] : x \in fresh} /\ Kept' = {path[x] : x \in more}
      <3>1. Kept = {op.orig[n] : n \in names} /\ Kept' = {op'.orig[n] : n \in DOMAIN op'.orig}
        BY DEF Kept
      <3> HIDE DEF more
      <3>2. Kept = {path[x] : x \in fresh}
        BY <1>4, <3>1
      <3>3. Kept' = {path[x] : x \in more}
        BY <2>9, <3>1
      <3> QED
        BY <3>2, <3>3
    <2>11. \A q \in Path : left[q] = IF q = path[p] THEN NoPhoto ELSE rest[q]
      BY <1>1, <2>10
    <2> HIDE DEF left, rest
    <2>12. SoundFiles(left, path, marked)
      <3> SUFFICES ASSUME NEW x \in Photo, NEW q \in Path
                   PROVE  left[q] = x <=> x \notin marked /\ path[x] = q
        BY DEF SoundFiles
      <3>1. \A y \in Photo : rest[q] = y <=> y \notin marks /\ path[y] = q
        BY <1>4 DEF SoundFiles
      <3>2. CASE q = path[p]
        <4>1. rest[q] = p
          BY <2>3, <3>1, <3>2
        <4> QED
          BY <2>11, <3>1, <3>2, <4>1, HistoryAssumption
      <3>3. CASE q # path[p]
        BY <2>11, <3>1, <3>3
      <3> QED
        BY <3>2, <3>3
    <2>13. SoundMarks(marked, zip')
      BY <1>4, <2>2 DEF SoundMarks
    <2>14. OneOfAName(zip')
      <3> SUFFICES ASSUME NEW i \in 1..k, NEW j \in 1..k, zip'[i].name = zip'[j].name
                   PROVE  i = j
        BY <2>2 DEF OneOfAName
      <3>1. CASE i \in 1..Len(zip) /\ j \in 1..Len(zip)
        BY <1>4, <2>2, <3>1 DEF OneOfAName
      <3>2. CASE i = k \/ j = k
        BY <2>2, <2>6, <3>2
      <3> QED
        BY <2>2, <3>1, <3>2
    <2>15. Grown(op.before.zip, zip', DOMAIN op'.orig)
      <3> DEFINE old == op.before.zip
      <3>1. /\ Len(old) \in Nat /\ Len(old) <= Len(zip)
            /\ \A i \in 1..Len(old) : old[i] = zip[i] /\ zip[i].name \notin names /\ i \in 1..Len(zip)
            /\ \A i \in (Len(old) + 1)..Len(zip) : zip[i].name \in names
        <4>1. old \in Entries
          BY <1>1, OpIsOp, OpParts DEF Typed, Snapshots
        <4> QED
          BY <1>4, <2>2, <4>1 DEF Grown, Entries
      <3> HIDE DEF old, names
      <3>2. Len(old) <= Len(zip')
        BY <2>2, <3>1
      <3>3. \A i \in 1..Len(old) : old[i] = zip'[i] /\ zip'[i].name \notin DOMAIN op'.orig
        BY <2>2, <2>6, <2>8, <3>1
      <3>4. \A i \in (Len(old) + 1)..Len(zip') : zip'[i].name \in DOMAIN op'.orig
        <4> SUFFICES ASSUME NEW i \in (Len(old) + 1)..k
                     PROVE  zip'[i].name \in DOMAIN op'.orig
          BY <2>2
        <4>1. i = k \/ i \in (Len(old) + 1)..Len(zip)
          BY <2>2, <3>1 DEF k
        <4> QED
          BY <2>2, <2>8, <3>1, <4>1
      <3> QED
        BY <3>2, <3>3, <3>4 DEF Grown, old
    <2>16. UndoesArchive(State(left, path, marked, zip'), op', more)
      BY <1>1, <1>4, <1>5, <2>5, <2>9, <2>15, StateIs DEF UndoesArchive
    <2>17. Sound(State(left, path, marked, zip'))
      BY <2>12, <2>13, <2>14, StateIs
    <2> HIDE DEF marked, more
    <2>18. Archiving'
      BY <1>1, <2>4, <2>16, <2>17 DEF Archiving, left
    <2> QED
      BY <1>10, <2>18
  <1> QED
    BY <1>11, <1>12

LEMMA ZipCloses ==
    ASSUME Typed, Stack, CloseZip
    PROVE  Stack'
  <1>1. /\ op \in Ops /\ op.at = "zipping" /\ op.todo = {}
        /\ UNCHANGED <<file, path, archived, zip, history>>
    BY OpIsOp DEF CloseZip, Typed
  <1>2. Chain /\ Reaches(op.before) /\ Archiving
    BY <1>1 DEF Stack, Zipping
  <1>3. /\ op'.at = "removing" /\ op'.before = op.before /\ op'.orig = op.orig
        /\ op'.newly = op.newly /\ op'.todo = op.todo
    BY <1>1 DEF CloseZip, Ops
  <1>4. Kept' = Kept
    BY <1>3 DEF Kept
  <1>5. Removing'
    BY <1>1, <1>2, <1>3, <1>4 DEF Removing, Archiving, UndoesArchive
  <1>6. Chain' /\ Reaches(op.before)'
    BY <1>1, <1>2, <1>3, ActionGoesOn
  <1> QED
    BY <1>3, <1>5, <1>6 DEF Stack

LEMMA RemovalGoesOn ==
    ASSUME Typed, Stack, RemoveOriginals
    PROVE  Stack'
  <1>1. /\ op.at = "removing" /\ file \in Files
        /\ UNCHANGED <<path, archived, zip, history, op>>
        /\ Chain /\ Reaches(op.before) /\ Removing
    BY DEF RemoveOriginals, Typed, ActionTypeOK, Stack
  <1>2. PICK r \in Kept : file' = [file EXCEPT ![r] = NoPhoto]
    BY DEF RemoveOriginals
  <1>3. Kept' = Kept
    BY <1>1 DEF Kept
  <1>4. [q \in Path |-> IF q \in Kept THEN NoPhoto ELSE file'[q]]
          = [q \in Path |-> IF q \in Kept THEN NoPhoto ELSE file[q]]
    BY <1>1, <1>2 DEF Files
  <1>5. Removing'
    BY <1>1, <1>3, <1>4 DEF Removing, Archiving, UndoesArchive
  <1>6. Chain' /\ Reaches(op.before)'
    BY <1>1, ActionGoesOn
  <1> QED
    BY <1>1, <1>5, <1>6 DEF Stack

LEMMA ArchiveCommits ==
    ASSUME Typed, Stack, CommitArchive, NoFault'
    PROVE  Stack'
  <1>1. /\ op \in Ops /\ op.at = "removing" /\ op.kind = "archive" /\ file \in Files
        /\ UNCHANGED <<file, path, zip, history>> /\ archived' = archived \cup op.newly
        /\ Chain /\ Reaches(op.before) /\ Removing
    BY OpIsOp DEF CommitArchive, Typed, ActionTypeOK, OpKinds, Stack
  <1>2. \A q \in Kept : file[q] = NoPhoto
    BY HistoryAssumption DEF CommitArchive, NoFault, Typed, ActionTypeOK
  <1>3. /\ op'.at = "recording" /\ op'.before = op.before /\ op'.kind = "archive"
        /\ op'.orig = op.orig /\ op'.newly = op.newly \ archived
    BY <1>1 DEF CommitArchive, Ops
  <1>4. [q \in Path |-> IF q \in Kept THEN NoPhoto ELSE file[q]] = file
    BY <1>1, <1>2 DEF Files
  <1>5. op.newly \ op.todo = op.newly
    BY <1>1 DEF Removing
  <1>6. /\ Sound(State(file, path, archived \cup op.newly, zip))
        /\ UndoesArchive(State(file, path, archived \cup op.newly, zip), op, op.newly \ archived)
    BY <1>1, <1>4, <1>5 DEF Removing, Archiving
  <1>7. Snapshot' = State(file, path, archived \cup op.newly, zip)
    BY <1>1 DEF Snapshot, State
  <1>8. Recording'
    BY <1>3, <1>6, <1>7 DEF Recording, Undoes, UndoesArchive
  <1>9. Chain' /\ Reaches(op.before)'
    BY <1>1, <1>3, ActionGoesOn
  <1> QED
    BY <1>3, <1>8, <1>9 DEF Stack

LEMMA ActionRecorded ==
    ASSUME Typed, Stack, RecordAction
    PROVE  Stack'
  <1>1. /\ op \in Ops /\ op.at = "recording" /\ history \in Seq(Records)
        /\ UNCHANGED <<file, path, archived, zip>> /\ op'.at = "idle"
        /\ Chain /\ Reaches(op.before) /\ Recording
    BY OpIsOp DEF RecordAction, Typed, ActionTypeOK, Stack, NoOp
  <1>2. Snapshot' = Snapshot /\ Snapshot \in Snapshots /\ op.before \in Snapshots
    BY <1>1, SnapshotType DEF Snapshot, Typed, Ops
  <1>3. CASE DOMAIN op.orig = {}
    <2>1. UNCHANGED history
      BY <1>3 DEF RecordAction
    <2>2. op.before = Snapshot
      BY <1>1, <1>2, <1>3, TouchedNothing DEF Recording, Reaches
    <2>3. Chain' /\ Reaches(Snapshot)'
      BY <1>1, <1>2, <2>1, <2>2 DEF Chain, Reaches
    <2> QED
      BY <1>1, <2>3 DEF Stack
  <1>4. CASE DOMAIN op.orig # {}
    <2> DEFINE row == [kind |-> op.kind, orig |-> op.orig, newly |-> op.newly, before |-> op.before]
    <2>1. history' = Append(history, row)
      BY <1>4 DEF RecordAction
    <2>2. Undoes(Snapshot, row) /\ row.before = op.before
      BY <1>1 DEF Recording, Undoes, UndoesMove, UndoesArchive
    <2> HIDE DEF row
    <2>3. /\ Len(history) \in Nat /\ Len(history') = Len(history) + 1
          /\ history'[Len(history')] = row
          /\ \A i \in 1..Len(history) : history'[i] = history[i]
      BY <1>1, <2>1
    <2>4. Chain'
      <3>1. ASSUME NEW i \in 1..Len(history')
            PROVE  Sound(history'[i].before)
        BY <1>1, <2>2, <2>3 DEF Chain, Reaches
      <3>2. ASSUME NEW i \in 1..Len(history'), i > 1
            PROVE  Undoes(history'[i].before, history'[i - 1])
        <4>1. CASE i \in 1..Len(history)
          <5>1. i - 1 \in 1..Len(history)
            BY <3>2, <4>1
          <5> QED
            BY <1>1, <2>3, <3>2, <4>1, <5>1 DEF Chain
        <4>2. CASE i = Len(history')
          <5>1. i - 1 = Len(history) /\ Len(history) \in 1..Len(history) /\ history # <<>>
            BY <2>3, <3>2, <4>2
          <5> QED
            BY <1>1, <2>2, <2>3, <4>2, <5>1 DEF Reaches
        <4> QED
          BY <2>3, <4>1, <4>2
      <3> QED
        BY <3>1, <3>2 DEF Chain
    <2>5. Reaches(Snapshot)'
      <3>1. Sound(Snapshot)' /\ Undoes(Snapshot', history'[Len(history')])
        BY <1>1, <1>2, <2>2, <2>3 DEF Recording
      <3> QED
        BY <3>1 DEF Reaches
    <2> QED
      BY <1>1, <2>4, <2>5 DEF Stack
  <1> QED
    BY <1>3, <1>4

LEMMA UndoBegins ==
    ASSUME Typed, Named, Stack, UndoLastAction
    PROVE  Stack'
  <1> DEFINE h == history[Len(history)]
             stage == IF h.kind = "move" THEN "unmoving"
                      ELSE IF zip = <<>> THEN "unmarking" ELSE "restoring"
             todo == IF h.kind = "move" THEN DOMAIN h.orig ELSE DOMAIN h.orig \cap NamesInZip
  <1>1. /\ op.at = "idle" /\ history # <<>> /\ history \in Seq(Records)
        /\ file \in Files /\ path \in Rows /\ archived \subseteq Photo /\ zip \in Entries
        /\ ZipNamed
        /\ UNCHANGED <<file, path, archived, zip, history>>
        /\ Chain /\ Reaches(Snapshot)
    BY DEF UndoLastAction, Typed, ActionTypeOK, Named, Stack
  <1>2. Len(history) \in 1..Len(history)
    BY <1>1
  <1>3. h.kind \in Kind /\ h.newly \subseteq Photo /\ h.before \in Snapshots
    BY <1>2, RecordParts
  <1>4. /\ SoundFiles(file, path, archived) /\ SoundMarks(archived, zip) /\ OneOfAName(zip)
        /\ Sound(Snapshot) /\ Undoes(Snapshot, h) /\ Sound(h.before)
    BY <1>1, <1>2, SnapshotIs, StateIs DEF Reaches, Chain
  <1>5. /\ op'.at = stage /\ op'.kind = h.kind /\ op'.todo = todo /\ op'.rows = path
        /\ op'.orig = h.orig /\ op'.newly = h.newly /\ op'.before = h.before
    BY DEF UndoLastAction, Begin, Last
  <1>6. Chain' /\ OfLast'
    BY <1>1, <1>5 DEF Chain, OfLast
  <1> HIDE DEF stage, todo, h
  <1>7. CASE h.kind = "move"
    <2>1. stage = "unmoving" /\ todo = DOMAIN h.orig
      BY <1>7 DEF stage, todo
    <2>2. UndoesMove(Snapshot, h)
      BY <1>4, <1>7 DEF Undoes
    <2>3. /\ h.before.archived = archived /\ h.before.zip = zip
          /\ DOMAIN h.orig \subseteq Photo \ archived
          /\ \A x \in Photo : h.before.path[x] = IF x \in DOMAIN h.orig THEN h.orig[x] ELSE path[x]
      BY <2>2, SnapshotIs DEF UndoesMove
    <2>4. Unmoving'
      BY <1>1, <1>4, <1>5, <2>1, <2>3, SnapshotIs DEF Unmoving
    <2> QED
      BY <1>5, <1>6, <2>1, <2>4 DEF Stack
  <1>8. CASE h.kind = "archive"
    <2>1. UndoesArchive(Snapshot, h, h.newly)
      BY <1>4, <1>8 DEF Undoes
    <2>2. /\ h.before.path = path
          /\ h.newly \subseteq archived /\ h.before.archived = archived \ h.newly
          /\ DOMAIN h.orig = {NameOf[x] : x \in h.newly}
          /\ \A x \in h.newly : h.orig[NameOf[x]] = path[x]
          /\ Grown(h.before.zip, zip, DOMAIN h.orig)
      BY <2>1, SnapshotIs DEF UndoesArchive
    <2>3. \A q \in Path : \A x \in Photo :
             h.before.file[q] = x <=> x \notin archived \ h.newly /\ path[x] = q
      BY <1>4, <2>2 DEF Sound, SoundFiles
    <2>4. Unarchived'
      BY <1>1, <1>5, <2>2 DEF Unarchived
    <2>5. CASE zip = <<>>
      <3>1. stage = "unmarking"
        BY <1>8, <2>5 DEF stage
      <3>2. archived = {}
        BY <1>1, <1>4, <2>5 DEF SoundMarks
      <3>3. h.newly = {} /\ DOMAIN h.orig = {}
        BY <2>2, <3>2
      <3>4. h.before.zip = zip
        BY <1>1, <1>3, <2>2, <3>3, GrownByNothing DEF Snapshots
      <3>5. SoundFiles(h.before.file, path, archived)
        BY <1>4, <2>2, <3>3 DEF Sound
      <3>6. h.before.file = file
        <4>1. h.before.file \in Files
          BY <1>3 DEF Snapshots
        <4> QED
          BY <1>1, <1>4, <3>5, <4>1, SameFiles
      <3>7. Unmarking'
        BY <1>1, <1>5, <2>4, <3>4, <3>6 DEF Unmarking
      <3> QED
        BY <1>5, <1>6, <3>1, <3>7 DEF Stack
    <2>6. CASE zip # <<>>
      <3>1. stage = "restoring"
        BY <1>8, <2>6 DEF stage
      <3>2. \A x \in h.newly : NameOf[x] \in NamesInZip
        <4> SUFFICES ASSUME NEW x \in h.newly
                     PROVE  NameOf[x] \in NamesInZip
          OBVIOUS
        <4>1. PICK i \in 1..Len(zip) : zip[i].picture = x
          BY <1>3, <1>4, <2>2 DEF SoundMarks
        <4>2. zip[i].name = NameOf[x] /\ i \in DOMAIN zip
          BY <1>1, <4>1 DEF Entries, ZipNamed
        <4> QED
          BY <4>2 DEF NamesInZip
      <3>3. todo = {NameOf[x] : x \in h.newly}
        BY <1>8, <2>2, <3>2 DEF todo
      <3>4. \A q \in Path : (\E n \in todo : h.orig[n] = q) <=> \E x \in h.newly : path[x] = q
        BY <2>2, <3>3
      <3>5. ASSUME NEW q \in Path
            PROVE  file[q] = IF \E n \in todo : h.orig[n] = q THEN NoPhoto ELSE h.before.file[q]
        <4>1. \A x \in Photo : file[q] = x <=> x \notin archived /\ path[x] = q
          BY <1>4 DEF SoundFiles
        <4>2. file[q] \in Photo \cup {NoPhoto} /\ h.before.file[q] \in Photo \cup {NoPhoto}
          BY <1>1, <1>3 DEF Files, Snapshots
        <4>3. CASE \E x \in h.newly : path[x] = q
          <5>1. PICK x \in h.newly : path[x] = q
            BY <4>3
          <5>2. x \in Photo /\ x \in archived /\ h.before.file[q] = x
            BY <1>3, <2>2, <2>3, <5>1
          <5>3. \A y \in Photo : file[q] = y => h.before.file[q] = y
            BY <2>3, <4>1
          <5>4. file[q] = NoPhoto
            BY <4>1, <4>2, <5>2, <5>3
          <5> QED
            BY <3>4, <4>3, <5>4
        <4>4. CASE ~ \E x \in h.newly : path[x] = q
          <5>1. \A x \in Photo : file[q] = x <=> h.before.file[q] = x
            BY <2>3, <4>1, <4>4
          <5>2. file[q] = h.before.file[q]
            BY <4>2, <5>1
          <5> QED
            BY <3>4, <4>4, <5>2
        <4> QED
          BY <4>3, <4>4
      <3>6. Restoring'
        BY <1>1, <1>4, <1>5, <2>2, <2>4, <3>5 DEF Restoring
      <3> QED
        BY <1>5, <1>6, <3>1, <3>6 DEF Stack
    <2> QED
      BY <2>5, <2>6
  <1> QED
    BY <1>3, <1>7, <1>8 DEF Kind

LEMMA UnmoveGoesOn ==
    ASSUME Typed, Stack, NEW p \in Photo, UnmoveOne(p), ~spoilt'
    PROVE  Stack'
  <1>1. /\ op \in Ops /\ op # NoOp /\ op.at = "unmoving" /\ op.kind = "move"
        /\ p \in op.todo /\ op.todo \subseteq DOMAIN op.orig
        /\ op.rows \in Rows /\ op.orig \in OriginsOf("move")
    BY OpIsOp, OpParts DEF UnmoveOne, Typed, OpKinds
  <1>2. /\ Chain /\ OfLast /\ Unmoving
        /\ UNCHANGED <<path, archived, zip, history>>
    BY <1>1 DEF Stack, UnmoveOne
  <1>3. /\ Sound(State(file, op.rows, archived, zip))
        /\ op.before.archived = archived /\ op.before.zip = zip /\ op.todo \cap archived = {}
        /\ \A x \in Photo : op.before.path[x] = IF x \in op.todo THEN op.orig[x] ELSE op.rows[x]
    BY <1>2 DEF Unmoving
  <1>4. op.orig[p] \in Path
    BY <1>1, OriginsHold
  <1>5. file[op.rows[p]] # NoPhoto
    <2>1. SoundFiles(file, op.rows, archived) /\ op.rows[p] \in Path /\ p \notin archived
      BY <1>1, <1>3, StateIs DEF Rows
    <2> QED
      BY <2>1, HistoryAssumption DEF SoundFiles
  <1> DEFINE rows == [op.rows EXCEPT ![p] = op.orig[p]]
  <1>6. /\ MoveFile(p, op.rows[p], op.orig[p])
        /\ op'.at = "unmoving" /\ op'.kind = op.kind /\ op'.orig = op.orig /\ op'.newly = op.newly
        /\ op'.before = op.before /\ op'.rows = rows /\ op'.todo = op.todo \ {p}
    BY <1>1, <1>5 DEF UnmoveOne, Ops
  <1>7. /\ file' = Moved(op.rows[p], op.orig[p])
        /\ Sound(State(Moved(op.rows[p], op.orig[p]), rows, archived, zip))
    BY <1>1, <1>3, <1>4, <1>6, MovedSound
  <1>8. \A x \in Photo : op.before.path[x] = IF x \in op.todo \ {p} THEN op.orig[x] ELSE rows[x]
    BY <1>1, <1>3 DEF Rows
  <1> HIDE DEF rows
  <1>9. Unmoving'
    BY <1>2, <1>3, <1>6, <1>7, <1>8 DEF Unmoving
  <1>10. Chain' /\ OfLast'
    BY <1>2, <1>6, UndoGoesOn
  <1> QED
    BY <1>6, <1>9, <1>10 DEF Stack

LEMMA UnmoveCommits ==
    ASSUME Typed, Stack, CommitUnmove
    PROVE  Stack'
  <1>1. /\ op \in Ops /\ op.at = "unmoving" /\ op.todo = {} /\ file \in Files
        /\ op.before \in Snapshots /\ op.rows \in Rows
        /\ UNCHANGED <<file, archived, zip, history>> /\ path' = op.rows
    BY OpIsOp, OpParts DEF CommitUnmove, Typed, ActionTypeOK
  <1>2. Chain /\ OfLast /\ Unmoving
    BY <1>1 DEF Stack
  <1>3. /\ op'.at = "forgetting" /\ op'.kind = op.kind /\ op'.orig = op.orig
        /\ op'.newly = op.newly /\ op'.before = op.before
    BY <1>1 DEF CommitUnmove, Ops
  <1>4. op.before.path = op.rows
    BY <1>1, <1>2 DEF Unmoving, Snapshots, Rows
  <1>5. op.before.archived = archived /\ op.before.zip = zip /\ SoundFiles(file, op.rows, archived)
    BY <1>2, StateIs DEF Unmoving
  <1>6. SoundFiles(op.before.file, op.rows, archived)
    <2>1. Len(history) \in 1..Len(history) /\ op.before = history[Len(history)].before
      BY <1>2 DEF OfLast, Typed, ActionTypeOK
    <2>2. Sound(op.before)
      BY <1>2, <2>1 DEF Chain
    <2> QED
      BY <1>4, <1>5, <2>2 DEF Sound
  <1>7. op.before.file = file
    <2>1. op.before.file \in Files
      BY <1>1 DEF Snapshots
    <2> QED
      BY <1>1, <1>5, <1>6, <2>1, SameFiles
  <1>8. Forgetting'
    BY <1>1, <1>3, <1>4, <1>5, <1>7 DEF Forgetting, Snapshot, Snapshots
  <1>9. Chain' /\ OfLast'
    BY <1>1, <1>2, <1>3, UndoGoesOn
  <1> QED
    BY <1>3, <1>8, <1>9 DEF Stack

LEMMA RestoreGoesOn ==
    ASSUME Typed, Named, Stack, NEW n \in Name, RestoreOne(n)
    PROVE  Stack'
  <1>1. /\ op \in Ops /\ op # NoOp /\ op.at = "restoring" /\ op.kind = "archive"
        /\ op.todo \subseteq DOMAIN op.orig \cap NamesInZip /\ n \in op.todo
        /\ op.orig \in OriginsOf("archive") /\ OrigNamed("archive", op.orig)
        /\ file \in Files /\ path \in Rows /\ zip \in Entries
        /\ op.newly \subseteq Photo /\ op.before \in Snapshots
    BY OpIsOp, OpParts DEF RestoreOne, Typed, ActionTypeOK, OpKinds, Named, OpNamed
  <1>2. /\ Chain /\ OfLast /\ Restoring
        /\ UNCHANGED <<path, archived, zip, history>>
    BY <1>1 DEF Stack, RestoreOne
  <1>3. /\ op'.at = "restoring" /\ op'.kind = op.kind /\ op'.orig = op.orig
        /\ op'.newly = op.newly /\ op'.before = op.before /\ op'.todo = op.todo \ {n}
        /\ file' = [file EXCEPT ![op.orig[n]] = LastEntry(n).picture]
    BY <1>1 DEF RestoreOne, Ops
  <1>4. PICK x \in op.newly : NameOf[x] = n
    BY <1>1, <1>2 DEF Restoring
  <1>5. LastEntry(n).picture = x
    <2>1. PICK i \in 1..Len(zip) : LastEntry(n) = zip[i] /\ zip[i].name = n
      BY <1>1, LastEntryOfName
    <2>2. PICK j \in 1..Len(zip) : zip[j].picture = x
      BY <1>1, <1>2, <1>4 DEF Restoring, SoundMarks
    <2>3. zip[j].name = n
      BY <1>4, <2>2 DEF Named, ZipNamed
    <2> QED
      BY <1>2, <2>1, <2>2, <2>3 DEF Restoring, OneOfAName
  <1>6. op.before.file[path[x]] = x /\ op.orig[n] = path[x] /\ path[x] \in Path
    <2>1. Len(history) \in 1..Len(history) /\ op.before = history[Len(history)].before
      BY <1>2 DEF OfLast, Typed, ActionTypeOK
    <2>2. SoundFiles(op.before.file, op.before.path, op.before.archived)
      BY <1>2, <2>1 DEF Chain, Sound
    <2>3. op.before.path = path /\ op.before.archived = archived \ op.newly
      BY <1>2 DEF Restoring, Unarchived
    <2>4. x \in Photo /\ path[x] \in Path /\ op.orig[n] = path[x]
      BY <1>1, <1>2, <1>4 DEF Restoring, Rows
    <2> QED
      BY <2>2, <2>3, <2>4 DEF SoundFiles
  <1>7. \A q \in Path : file[q] = IF \E y \in op.todo : op.orig[y] = q THEN NoPhoto
                                  ELSE op.before.file[q]
    BY <1>2 DEF Restoring
  <1>8. ASSUME NEW q \in Path
        PROVE  file'[q] = IF \E y \in op.todo \ {n} : op.orig[y] = q THEN NoPhoto
                          ELSE op.before.file[q]
    <2>1. CASE q = op.orig[n]
      <3>1. \A y \in op.todo : op.orig[y] = q => y = n
        BY <1>1, <2>1 DEF OrigNamed
      <3>2. file'[q] = op.before.file[q]
        BY <1>1, <1>3, <1>5, <1>6, <2>1 DEF Files
      <3> QED
        BY <3>1, <3>2
    <2>2. CASE q # op.orig[n]
      <3>1. file'[q] = file[q]
        BY <1>1, <1>3, <2>2 DEF Files
      <3>2. (\E y \in op.todo \ {n} : op.orig[y] = q) <=> \E y \in op.todo : op.orig[y] = q
        BY <2>2
      <3> QED
        BY <1>7, <3>1, <3>2
    <2> QED
      BY <2>1, <2>2
  <1>9. Restoring'
    <2>1. Unarchived'
      BY <1>2, <1>3 DEF Restoring, Unarchived
    <2>2. \A q \in Path : file'[q] = IF \E y \in op'.todo : op'.orig[y] = q THEN NoPhoto
                                     ELSE op'.before.file[q]
      BY <1>3, <1>8
    <2>3. /\ DOMAIN op'.orig = {NameOf[y] : y \in op'.newly}
          /\ \A y \in op'.newly : op'.orig[NameOf[y]] = path'[y]
      BY <1>2, <1>3 DEF Restoring
    <2>4. /\ Grown(op'.before.zip, zip', DOMAIN op'.orig) /\ OneOfAName(zip')
          /\ op'.newly \subseteq archived' /\ SoundMarks(archived', zip')
      BY <1>2, <1>3 DEF Restoring
    <2> QED
      BY <2>1, <2>2, <2>3, <2>4 DEF Restoring
  <1>10. Chain' /\ OfLast'
    BY <1>2, <1>3, UndoGoesOn
  <1> QED
    BY <1>3, <1>9, <1>10 DEF Stack

\* A list in order of all numbers up to a bound is each number at its place.
LEMMA CountingUp ==
    ASSUME NEW k \in Nat, NEW m \in Nat, NEW order \in [1..k -> Nat],
           \A i, j \in 1..k : i < j => order[i] < order[j],
           \A j \in Nat : (\E i \in 1..k : order[i] = j) <=> j \in 1..m
    PROVE  k = m /\ \A i \in 1..k : order[i] = i
  <1>1. \A i \in 1..k : order[i] = i
    <2> DEFINE astray == {i \in 1..k : order[i] # i}
    <2> SUFFICES ASSUME astray # {}
                 PROVE  FALSE
      OBVIOUS
    <2>1. astray \subseteq Nat
      OBVIOUS
    <2>2. PICK x \in astray : \A y \in astray : ~(<<y, x>> \in OpToRel(<, Nat))
      BY <2>1, NatLessThanWellFounded, WFMin
    <2>3. \A y \in astray : ~(y < x)
      BY <2>1, <2>2 DEF OpToRel
    <2>4. x \in 1..k /\ order[x] # x /\ order[x] \in Nat /\ order[x] \in 1..m
      OBVIOUS
    <2>5. \A i \in 1..k : i < x => order[i] = i
      BY <2>3
    <2> HIDE DEF astray
    <2>6. order[x] > x
      <3>1. CASE x = 1
        BY <2>4, <3>1
      <3>2. CASE x > 1
        <4>1. x - 1 \in 1..k /\ x - 1 < x
          BY <2>4, <3>2
        <4>2. order[x - 1] = x - 1 /\ order[x - 1] < order[x]
          BY <2>4, <2>5, <4>1
        <4> QED
          BY <2>4, <4>2
      <3> QED
        BY <2>4, <3>1, <3>2
    <2>7. PICK i \in 1..k : order[i] = x
      <3>1. x \in Nat /\ x \in 1..m
        BY <2>4, <2>6
      <3> QED
        BY <3>1
    <2>8. CASE i < x
      BY <2>5, <2>7, <2>8
    <2>9. CASE i = x
      BY <2>4, <2>7, <2>9
    <2>10. CASE i > x
      <3>1. order[x] < order[i]
        BY <2>4, <2>10
      <3> QED
        BY <2>4, <2>6, <2>7, <3>1
    <2> QED
      BY <2>4, <2>8, <2>9, <2>10
  <1>2. ~(m < k)
    <2> SUFFICES ASSUME m < k
                 PROVE  FALSE
      OBVIOUS
    <2>1. k \in 1..k /\ order[k] = k /\ k \notin 1..m
      BY <1>1
    <2> QED
      BY <2>1
  <1>3. ~(k < m)
    <2> SUFFICES ASSUME k < m
                 PROVE  FALSE
      OBVIOUS
    <2>1. PICK i \in 1..k : order[i] = m
      OBVIOUS
    <2> QED
      BY <1>1, <2>1
  <1> QED
    BY <1>1, <1>2, <1>3

LEMMA ZipTrimmed ==
    ASSUME Typed, Stack, TrimZip
    PROVE  Stack'
  <1>1. /\ op \in Ops /\ op.at = "restoring" /\ op.todo = {}
        /\ file \in Files /\ zip \in Entries /\ op.before \in Snapshots
        /\ UNCHANGED <<file, path, archived, history>>
    BY OpIsOp, OpParts DEF TrimZip, Typed, ActionTypeOK
  <1>2. Chain /\ OfLast /\ Restoring
    BY <1>1 DEF Stack
  <1>3. /\ op'.at = "unmarking" /\ op'.kind = op.kind /\ op'.orig = op.orig
        /\ op'.newly = op.newly /\ op'.before = op.before
    BY <1>1 DEF TrimZip, Ops
  <1>4. file = op.before.file
    <2>1. \A q \in Path : file[q] = op.before.file[q]
      BY <1>1, <1>2 DEF Restoring
    <2> QED
      BY <1>1, <2>1 DEF Files, Snapshots
  <1> DEFINE old == op.before.zip
             m == Len(old)
  <1>5. /\ old \in Entries /\ m \in Nat /\ m <= Len(zip) /\ Len(zip) \in Nat
        /\ \A i \in 1..m : old[i] = zip[i] /\ zip[i].name \notin DOMAIN op.orig
        /\ \A i \in (m + 1)..Len(zip) : zip[i].name \in DOMAIN op.orig
        /\ OneOfAName(zip)
    BY <1>1, <1>2 DEF Restoring, Grown, Snapshots, Entries
  <1> HIDE DEF old
  <1>6. PICK k \in Nat : \E order : Trimmed(k, order)
    BY TrimStep
  <1>7. PICK order : Trimmed(k, order)
    BY <1>6
  <1>8. /\ order \in [1..k -> Nat]
        /\ \A i \in 1..k : order[i] \in 1..Len(zip)
        /\ \A i, j \in 1..k : i < j => order[i] < order[j]
        /\ zip' \in Entries /\ Len(zip') = k
    <2>1. /\ order \in [1..k -> 1..Len(zip)]
          /\ \A i, j \in 1..k : i < j => order[i] < order[j]
          /\ zip' \in Entries /\ Len(zip') = k
      BY <1>7 DEF Trimmed
    <2>2. 1..Len(zip) \subseteq Nat
      BY <1>5
    <2>3. order \in [1..k -> Nat]
      BY <2>1, <2>2
    <2> QED
      BY <2>1, <2>3
  <1>9. \A j \in Nat : (\E i \in 1..k : order[i] = j) <=> j \in 1..m
    <2>1. \A j \in 1..Len(zip) :
             (\E i \in 1..k : order[i] = j) <=> zip[j].name \notin DOMAIN op.orig
      BY <1>7 DEF Trimmed
    <2>2. \A j \in 1..Len(zip) : zip[j].name \notin DOMAIN op.orig <=> j \in 1..m
      BY <1>5
    <2> QED
      BY <1>5, <1>8, <2>1, <2>2
  <1>10. k = m /\ \A i \in 1..k : order[i] = i
    <2>1. m \in Nat
      BY <1>5
    <2>2. order \in [1..k -> Nat] /\ \A i, j \in 1..k : i < j => order[i] < order[j]
      BY <1>8
    <2> HIDE DEF m
    <2> QED
      BY <1>9, <2>1, <2>2, CountingUp
  <1>11. ASSUME NEW i \in 1..k
         PROVE  zip'[i] = old[i]
    <2>1. PICK j \in 1..Len(zip) : zip'[i] = zip[j] /\ zip[j].name = zip[order[i]].name
      BY <1>7 DEF Trimmed
    <2>2. order[i] = i /\ i \in 1..Len(zip)
      BY <1>5, <1>10
    <2>3. j = i
      BY <1>5, <2>1, <2>2 DEF OneOfAName
    <2> QED
      BY <1>5, <1>10, <2>1, <2>3
  <1>12. zip' = old
    BY <1>5, <1>8, <1>10, <1>11 DEF Entries
  <1>13. Unmarking'
    BY <1>1, <1>2, <1>3, <1>4, <1>12 DEF Unmarking, Unarchived, Restoring, old
  <1>14. Chain' /\ OfLast'
    BY <1>1, <1>2, <1>3, UndoGoesOn
  <1> QED
    BY <1>3, <1>13, <1>14 DEF Stack

LEMMA MarksUndone ==
    ASSUME Typed, Stack, Unmark
    PROVE  Stack'
  <1>1. /\ op \in Ops /\ op.at = "unmarking" /\ op.before \in Snapshots
        /\ UNCHANGED <<file, path, zip, history>> /\ archived' = archived \ op.newly
    BY OpIsOp, OpParts DEF Unmark, Typed
  <1>2. Chain /\ OfLast /\ Unmarking
    BY <1>1 DEF Stack
  <1>3. /\ op'.at = "forgetting" /\ op'.kind = op.kind /\ op'.orig = op.orig
        /\ op'.newly = op.newly /\ op'.before = op.before
    BY <1>1 DEF Unmark, Ops
  <1>4. Forgetting'
    BY <1>1, <1>2, <1>3 DEF Unmarking, Unarchived, Forgetting, Snapshot, Snapshots
  <1>5. Chain' /\ OfLast'
    BY <1>1, <1>2, <1>3, UndoGoesOn
  <1> QED
    BY <1>3, <1>4, <1>5 DEF Stack

LEMMA ActionForgotten ==
    ASSUME Typed, Stack, Forget
    PROVE  Stack'
  <1>1. /\ op.at = "forgetting" /\ history \in Seq(Records) /\ op'.at = "idle"
        /\ UNCHANGED <<file, path, archived, zip>>
        /\ history' = SubSeq(history, 1, Len(history) - 1)
        /\ Chain /\ OfLast /\ Snapshot = op.before
    BY DEF Forget, NoOp, Typed, ActionTypeOK, Stack, Forgetting
  <1>2. /\ history # <<>> /\ Len(history) \in 1..Len(history)
        /\ op.before = history[Len(history)].before
    BY <1>1 DEF OfLast
  <1>3. /\ Len(history') = Len(history) - 1
        /\ \A i \in 1..Len(history') : i \in 1..Len(history) /\ history'[i] = history[i]
    <2> DEFINE k == Len(history) - 1
    <2>1. k \in Nat /\ k <= Len(history) /\ Len(history) \in Nat
      BY <1>1, <1>2
    <2>2. history' = SubSeq(history, 1, k)
      BY <1>1
    <2> HIDE DEF k
    <2>3. /\ Len(history') = k
          /\ \A i \in 1..k : i \in 1..Len(history) /\ history'[i] = history[i]
      BY <1>1, <2>1, <2>2
    <2> QED
      BY <2>3 DEF k
  <1>4. Chain'
    BY <1>1, <1>2, <1>3 DEF Chain
  <1>5. Snapshot' = op.before
    BY <1>1 DEF Snapshot
  <1>6. Reaches(Snapshot)'
    <2>1. Sound(Snapshot')
      BY <1>1, <1>2, <1>5 DEF Chain
    <2>2. ASSUME history' # <<>>
          PROVE  Undoes(Snapshot', history'[Len(history')])
      <3>1. Len(history') > 0 /\ Len(history') \in 1..Len(history') /\ Len(history) > 1
        BY <1>1, <1>2, <1>3, <2>2
      <3>2. history'[Len(history')] = history[Len(history) - 1]
        BY <1>3, <3>1
      <3>3. Undoes(history[Len(history)].before, history[Len(history) - 1])
        BY <1>1, <1>2, <3>1 DEF Chain
      <3> QED
        BY <1>2, <1>5, <3>2, <3>3
    <2> QED
      BY <2>1, <2>2 DEF Reaches
  <1> QED
    BY <1>1, <1>4, <1>6 DEF Stack

LEMMA StackStep ==
    ASSUME PictureInv, StackInv, [ActionNext]_actionVars
    PROVE  StackInv'
  <1> SUFFICES ASSUME NoFault', ~spoilt'
               PROVE  Stack'
    BY DEF StackInv
  <1>1. Typed /\ Named /\ faultsLeft \in Nat /\ faultsLeft <= MaxFaults /\ MaxFaults \in Nat
    BY HistoryAssumption DEF PictureInv, Typed, ActionTypeOK
  <1>2. ~Fail /\ ~Kill /\ ~spoilt
    BY <1>1, SpoiltStays DEF Fail, Kill, CutShort, NoFault
  <1>3. CASE UNCHANGED actionVars
    <2>1. Stack
      BY <1>2, <1>3 DEF actionVars, actionBounds, NoFault, StackInv
    <2> QED
      BY <1>3, <2>1
         DEF actionVars, Stack, Chain, Reaches, Snapshot, Moving, Zipping, Removing, Archiving, Kept,
             Recording, OfLast, Unmoving, Unarchived, Restoring, Unmarking, Forgetting
  <1>4. CASE ActionNext
    <2>1. NoFault
      <3>1. CASE CommitArchive
        BY <1>1, <3>1 DEF CommitArchive, NoFault
      <3>2. CASE ~CommitArchive
        <4>1. UNCHANGED faultsLeft
          BY <1>2, <1>4, <3>2
             DEF ActionNext, ArchivePhotos, MovePhotos, StartAction, MoveOne, UnmoveOne, CommitMove,
                 ZipOne, CloseZip, RemoveOriginals, RecordAction, UndoLastAction, CommitUnmove,
                 RestoreOne, TrimZip, Unmark, Forget, actionBounds
        <4> QED
          BY <4>1 DEF NoFault
      <3> QED
        BY <3>1, <3>2
    <2>2. Stack
      BY <1>2, <2>1 DEF StackInv
    <2> QED
      BY <1>1, <1>2, <1>4, <2>2, MoveBegins, ArchiveBegins, MoveGoesOn, MoveCommits, ZipGrows,
         ZipCloses, RemovalGoesOn, ArchiveCommits, ActionRecorded, UndoBegins, UnmoveGoesOn, UnmoveCommits,
         RestoreGoesOn, ZipTrimmed, MarksUndone, ActionForgotten DEF ActionNext
  <1> QED
    BY <1>3, <1>4

--------------------------------------------------------------------------------
(* What holds in every reachable state *)

\* Every variable of the actions keeps its type.
THEOREM ActionTypeCorrect == ActionSpec => []ActionTypeOK
  <1>1. Typed => ActionTypeOK
    BY DEF Typed
  <1> QED
    BY <1>1, TypedInit, TypedStep, PTL DEF ActionSpec

\* The invariant of files, names and entries holds in every reachable state.
THEOREM PicturesInvariance == ActionSpec => []PictureInv
  <1>1. PictureInv /\ [ActionNext]_actionVars => PictureInv'
    BY PictureInvStep
  <1> QED
    BY <1>1, PictureInvInit, PTL DEF ActionSpec

\* archive_photos_to_zip deletes what the closed archive holds, perform_undo trims what is
\* back: whatever is moved, archived and undone, and wherever an action or an undo ends, no
\* picture is lost before a photo takes the place of another one of its name or a kill meets
\* an append to an archive that has entries.
THEOREM NoPictureIsLost == ActionSpec => []PicturesSurvive
  <1>1. PictureInv => PicturesSurvive
    BY SurvivalIs DEF PictureInv, Safe, PicturesSurvive
  <1> QED
    BY <1>1, PicturesInvariance, PTL

\* While nothing failed and no photo took the place of another, the history leads back from
\* the state, row by row, to the first.
THEOREM StackInvariance == ActionSpec => []StackInv
  <1>1. ActionInit => StackInv
    BY StackInit DEF StackInv
  <1>2. PictureInv /\ StackInv /\ [ActionNext]_actionVars => StackInv'
    BY StackStep
  <1> QED
    BY <1>1, <1>2, PicturesInvariance, PTL DEF ActionSpec

\* move_photos, archive_photos and perform_undo: between actions that all got to their end
\* a photo's row names its file, or its picture is in the archive, unless a photo took the
\* place of another one of its name.
THEOREM RowsNameTheirFiles == ActionSpec => []RowsMatchFiles
  <1>1. PictureInv /\ StackInv => RowsMatchFiles
    <2> SUFFICES ASSUME PictureInv, StackInv, op.at = "idle", NoFault, ~spoilt, NEW x \in Photo
                 PROVE  IF x \in archived THEN x \in InZip ELSE file[path[x]] = x
      BY DEF RowsMatchFiles
    <2>1. SoundFiles(file, path, archived) /\ SoundMarks(archived, zip)
      BY SnapshotIs DEF StackInv, Stack, Reaches, Sound
    <2>2. path[x] \in Path /\ DOMAIN zip = 1..Len(zip)
      BY DEF PictureInv, Typed, ActionTypeOK, Rows, Entries
    <2> QED
      BY <2>1, <2>2 DEF SoundFiles, SoundMarks, InZip
  <1> QED
    BY <1>1, PicturesInvariance, StackInvariance, PTL

\* perform_undo: the undo of the newest action brings back the files, the rows, the marks and
\* the archive that action found, after any number of actions and undos that got to their end,
\* unless a photo took the place of another one of its name.
THEOREM UndosRestore == ActionSpec => UndoRestores
  <1>1. StackInv => [Forget /\ NoFault /\ ~spoilt => Snapshot = op.before]_actionVars
    BY DEF StackInv, Stack, Forget, Forgetting
  <1> QED
    BY <1>1, StackInvariance, PTL DEF UndoRestores

--------------------------------------------------------------------------------
(* Chat: what holds in every reachable state *)

\* The registry was reset for stored configurations only.
ResetKnown == reset <= config.version /\ \A v \in toReset : v <= config.version

\* The lock is held by the user that loads, and by nobody else.
LockOfLoader == \A u \in User : user[u].at = "loading" <=> lock = u

\* What is being loaded, and what is loaded, is of the last reset or later.
LoadIsNew == \A u \in User : user[u].at = "loading" => user[u].has # None /\ user[u].has >= reset
ModelIsNew == model # None => model >= reset

\* A use comes after a reset that was.
SinceIsPast == \A u \in User : user[u].since <= reset

\* What was got is a model, of the reset before it or later.
GotIsModel == \A u \in User : user[u].at = "got" => user[u].has # None /\ user[u].has >= user[u].since

\* A turn uses the model while it is at the agent's node.
UsedByAgent == \A t \in Turn : user[t].at # "idle" => turn[t].at = "agent"

\* The parts of the typing, and of the invariant, a step changes together.
ConfigType == /\ config \in [version : Version, mode : Mode]
              /\ toReset \subseteq Version /\ reset \in 0 .. MaxVersions
ModelType == /\ model \in Version \cup {None} /\ lock \in User \cup {None}
             /\ user \in [User -> UserState]
TalkType == /\ turn \in [Turn -> TurnState] /\ checkpoint \in [Thread -> Talk]
            /\ threads \in Thread /\ page \in [thread : Thread, loading : BOOLEAN]

RegistryInv ==
    /\ ConfigType /\ ModelType
    /\ ResetKnown /\ LockOfLoader /\ LoadIsNew /\ ModelIsNew /\ SinceIsPast /\ GotIsModel

ChatInv == RegistryInv /\ TalkType /\ restartsLeft \in 0 .. MaxRestarts /\ UsedByAgent

USE BoundsAssumption, TurnAssumption DEF configVars, modelVars, talkVars

--------------------------------------------------------------------------------
(* The registry *)

\* Versions are no turns and no turn is missing.
LEMMA Users ==
    /\ \A v \in Version : v \in Nat /\ v \in User /\ v \notin Turn /\ v # None
    /\ \A t \in Turn : t \in User /\ t \notin Version /\ t # None
    /\ None \notin User
  BY DEF Version, User

\* The use a call of registry.chat_model begins with is typed.
LEMMA EnterType ==
    ASSUME RegistryInv, NEW u \in User
    PROVE  /\ Enter(u) \in UserState /\ Enter(u).at \in {"wanting", "returning"}
           /\ Enter(u).since = reset
  BY DEF RegistryInv, ConfigType, Enter, UserState

\* No use is typed, and past.
LEMMA NoUseType == NoUse \in UserState /\ NoUse.at = "idle" /\ NoUse.since = 0
  BY DEF NoUse, UserState

\* A step that only replaces one use, which neither was nor becomes a load.
LEMMA OneUse ==
    ASSUME RegistryInv, NEW u \in User, NEW s \in UserState,
           user' = [user EXCEPT ![u] = s], user[u].at # "loading", s.at # "loading",
           s.since <= reset, s.at = "got" => s.has # None /\ s.has >= s.since,
           UNCHANGED <<configVars, model, lock>>
    PROVE  RegistryInv'
  <1>1. ConfigType' /\ ResetKnown'
    BY DEF RegistryInv, ConfigType, ResetKnown
  <1>2. user' \in [User -> UserState]
    BY DEF RegistryInv, ModelType
  <1>3. ModelType' /\ ModelIsNew'
    BY <1>2 DEF RegistryInv, ModelType, ModelIsNew
  <1>4. user'[u] = s /\ \A w \in User : w # u => user'[w] = user[w]
    BY DEF RegistryInv, ModelType
  <1>5. LockOfLoader' /\ LoadIsNew'
    BY <1>4 DEF RegistryInv, LockOfLoader, LoadIsNew
  <1>6. SinceIsPast' /\ GotIsModel'
    BY <1>4 DEF RegistryInv, SinceIsPast, GotIsModel
  <1> QED
    BY <1>1, <1>3, <1>5, <1>6 DEF RegistryInv

\* A step that leaves the registry and its users alone.
LEMMA NoUseChanged ==
    ASSUME RegistryInv, UNCHANGED <<configVars, modelVars>>
    PROVE  RegistryInv'
  BY DEF RegistryInv, ConfigType, ModelType, ResetKnown, LockOfLoader, LoadIsNew, ModelIsNew,
     SinceIsPast, GotIsModel

\* A turn that enters, or ends its use.
LEMMA TurnUses ==
    ASSUME RegistryInv, NEW t \in Turn, user[t].at # "loading",
           UNCHANGED <<configVars, model, lock>>,
           user' = [user EXCEPT ![t] = Enter(t)] \/ user' = [user EXCEPT ![t] = NoUse]
    PROVE  RegistryInv'
  <1>u. t \in User
    BY Users
  <1>r. reset \in Nat
    BY DEF RegistryInv, ConfigType
  <1>1. CASE user' = [user EXCEPT ![t] = Enter(t)]
    <2>1. /\ Enter(t) \in UserState /\ Enter(t).at # "loading" /\ Enter(t).at # "got"
          /\ Enter(t).since <= reset
      BY <1>u, <1>r, EnterType
    <2> QED
      BY <1>u, <1>1, <2>1, OneUse
  <1>2. CASE user' = [user EXCEPT ![t] = NoUse]
    <2>1. NoUse \in UserState /\ NoUse.at # "loading" /\ NoUse.at # "got" /\ NoUse.since <= reset
      BY <1>r, NoUseType
    <2> QED
      BY <1>u, <1>2, <2>1, OneUse
  <1> QED
    BY <1>1, <1>2

\* A configuration is stored as one version later.
LEMMA StoreStep ==
    ASSUME RegistryInv, NEW m \in Mode, StoreConfig(m)
    PROVE  RegistryInv'
  <1>1. config.version \in Version /\ config.version < MaxVersions
    BY DEF RegistryInv, ConfigType, StoreConfig
  <1>2. config' \in [version : Version, mode : Mode] /\ config'.version = config.version + 1
    BY <1>1 DEF StoreConfig, Version
  <1>3. toReset' \subseteq toReset \cup {config.version + 1}
    BY DEF StoreConfig
  <1>4. config.version + 1 \in Version /\ reset \in 0 .. MaxVersions /\ reset' = reset
    BY <1>1 DEF RegistryInv, ConfigType, StoreConfig, Version
  <1>5. toReset' \subseteq Version /\ \A v \in toReset' : v <= config.version + 1
    BY <1>1, <1>3, <1>4 DEF RegistryInv, ConfigType, ResetKnown, Version
  <1>6. ConfigType'
    BY <1>2, <1>4, <1>5 DEF ConfigType
  <1>7. ResetKnown'
    BY <1>1, <1>2, <1>4, <1>5 DEF RegistryInv, ResetKnown, Version
  <1> QED
    BY <1>6, <1>7 DEF StoreConfig, RegistryInv, ModelType, LockOfLoader, LoadIsNew, ModelIsNew,
       SinceIsPast, GotIsModel

\* The reset waits for the lock, so no older load is under way behind it.
LEMMA ResetStep ==
    ASSUME RegistryInv, NEW v \in Version, ResetModel(v)
    PROVE  RegistryInv'
  <1>t. ConfigType /\ ModelType /\ ResetKnown
    BY DEF RegistryInv
  <1>1. /\ reset' \in 0 .. MaxVersions /\ reset <= reset' /\ reset' <= config.version
        /\ reset' = Newest(v)
    BY <1>t DEF ResetModel, Newest, ConfigType, ResetKnown, Version
  <1>2. ConfigType' /\ ResetKnown'
    BY <1>t, <1>1 DEF ResetModel, ConfigType, ResetKnown
  <1>3. /\ user'[v] = [at |-> "wanting", since |-> reset', has |-> None]
        /\ \A w \in User : w # v => user'[w] = user[w]
        /\ user' \in [User -> UserState]
    BY <1>t, <1>1, Users DEF ResetModel, ModelType, UserState
  <1>4. ModelType' /\ ModelIsNew'
    BY <1>t, <1>3 DEF ResetModel, ModelType, ModelIsNew
  <1>5. lock = None /\ lock' = None /\ \A w \in User : user[w].at # "loading"
    BY Users DEF ResetModel, RegistryInv, LockOfLoader
  <1>6. LockOfLoader' /\ LoadIsNew'
    BY <1>3, <1>5, Users DEF LockOfLoader, LoadIsNew
  <1>7. SinceIsPast'
    <2> SUFFICES ASSUME NEW w \in User
                 PROVE  user'[w].since <= reset'
      BY DEF SinceIsPast
    <2>1. CASE w = v
      BY <1>1, <1>3, <2>1
    <2>2. CASE w # v
      <3>1. user[w].since \in 0 .. MaxVersions /\ user[w].since <= reset
        BY <1>t DEF RegistryInv, SinceIsPast, ModelType, UserState
      <3> QED
        BY <1>t, <1>1, <1>3, <2>2, <3>1 DEF ConfigType
    <2> QED
      BY <2>1, <2>2
  <1>8. GotIsModel'
    BY <1>3 DEF RegistryInv, GotIsModel
  <1> QED
    BY <1>2, <1>4, <1>6, <1>7, <1>8 DEF RegistryInv

\* What a use does under the lock and without it.
LEMMA UseStep ==
    ASSUME RegistryInv, NEW u \in User, UseModel(u)
    PROVE  RegistryInv' /\ (user'[u].at # "idle" => user[u].at # "idle")
                        /\ \A w \in User : w # u => user'[w] = user[w]
  <1>t. ConfigType /\ ModelType /\ ResetKnown
    BY DEF RegistryInv
  <1>s. user[u] \in UserState /\ user[u].since <= reset /\ reset \in Nat /\ user[u].since \in Nat
    BY <1>t DEF RegistryInv, SinceIsPast, ModelType, ConfigType, UserState
  <1>1. CASE LockModel(u)
    <2>1. CASE model # None
      <3>1. user' = [user EXCEPT ![u] = [user[u] EXCEPT !.at = "returning"]]
        BY <1>t, <1>1, <2>1 DEF LockModel, ModelType
      <3>2. [user[u] EXCEPT !.at = "returning"] \in UserState
        BY <1>s DEF UserState
      <3>3. RegistryInv'
        BY <1>s, <1>1, <2>1, <3>1, <3>2, OneUse DEF LockModel, UserState
      <3> QED
        BY <1>t, <1>1, <3>1, <3>3 DEF LockModel, ModelType
    <2>2. CASE model = None
      <3>1. /\ lock = None /\ lock' = u /\ model' = model /\ UNCHANGED configVars
            /\ user[u].at = "wanting"
            /\ user' = [user EXCEPT ![u].at = "loading", ![u].has = config.version]
        BY <1>1, <2>2 DEF LockModel
      <3>2. /\ user'[u] = [user[u] EXCEPT !.at = "loading", !.has = config.version]
            /\ \A w \in User : w # u => user'[w] = user[w]
            /\ DOMAIN user' = User
        BY <1>t, <3>1 DEF ModelType
      <3>3. config.version \in Version /\ config.version # None /\ config.version >= reset
        BY <1>t, Users DEF ConfigType, ResetKnown
      <3>4. /\ user'[u] \in UserState /\ user'[u].at = "loading"
            /\ user'[u].has = config.version /\ user'[u].since = user[u].since
        BY <1>s, <3>2, <3>3 DEF UserState
      <3>5. user' \in [User -> UserState]
        BY <1>t, <3>1, <3>2, <3>4 DEF ModelType
      <3>6. ConfigType' /\ ModelType' /\ ResetKnown' /\ ModelIsNew'
        BY <1>t, <2>2, <3>1, <3>5 DEF ConfigType, ModelType, ResetKnown, ModelIsNew
      <3>7. \A w \in User : user[w].at # "loading"
        BY <3>1, Users DEF RegistryInv, LockOfLoader
      <3>8. LockOfLoader' /\ LoadIsNew'
        BY <3>1, <3>2, <3>3, <3>4, <3>7 DEF LockOfLoader, LoadIsNew
      <3>9. SinceIsPast' /\ GotIsModel'
        BY <1>s, <3>1, <3>2, <3>4 DEF RegistryInv, SinceIsPast, GotIsModel
      <3> QED
        BY <3>1, <3>2, <3>6, <3>8, <3>9 DEF RegistryInv
    <2> QED
      BY <2>1, <2>2
  <1>2. CASE LoadModel(u) \/ LoadFails(u)
    <2>1. user[u].at = "loading" /\ lock = u /\ lock' = None /\ UNCHANGED configVars
      BY <1>2 DEF LoadModel, LoadFails, RegistryInv, LockOfLoader
    <2>2. PICK s \in UserState :
              /\ user' = [user EXCEPT ![u] = s]
              /\ s.at \in {"idle", "returning", "failed"} /\ s.since <= reset
      <3>1. CASE LoadModel(u)
        <4>1. [user[u] EXCEPT !.at = "returning", !.has = None] \in UserState
          BY <1>s DEF UserState
        <4>2. user' = [user EXCEPT ![u] = [user[u] EXCEPT !.at = "returning", !.has = None]]
          BY <1>t, <3>1 DEF LoadModel, ModelType
        <4> QED
          BY <1>s, <4>1, <4>2 DEF UserState
      <3>2. CASE LoadFails(u)
        <4>1. [user[u] EXCEPT !.at = "failed", !.has = None] \in UserState
          BY <1>s DEF UserState
        <4>2. CASE u \in Version
          <5>1. user' = [user EXCEPT ![u] = NoUse]
            BY <3>2, <4>2 DEF LoadFails
          <5>2. NoUse \in UserState /\ NoUse.at = "idle" /\ NoUse.since <= reset
            BY <1>s, NoUseType
          <5> QED
            BY <5>1, <5>2
        <4>3. CASE u \notin Version
          BY <1>s, <3>2, <4>1, <4>3 DEF LoadFails, UserState
        <4> QED
          BY <4>2, <4>3
      <3> QED
        BY <1>2, <3>1, <3>2
    <2>3. /\ user'[u] = s /\ \A w \in User : w # u => user'[w] = user[w]
          /\ user' \in [User -> UserState]
      BY <1>t, <2>2 DEF ModelType
    <2>4. model' \in Version \cup {None} /\ (model' # None => model' >= reset)
      BY <1>2, <1>t, <1>s, <2>1
         DEF LoadModel, LoadFails, RegistryInv, LoadIsNew, ModelIsNew, ModelType, UserState
    <2>5. ConfigType' /\ ModelType' /\ ResetKnown' /\ ModelIsNew'
      BY <1>t, <2>1, <2>3, <2>4 DEF ConfigType, ModelType, ResetKnown, ModelIsNew
    <2>6. LockOfLoader' /\ LoadIsNew'
      BY <2>1, <2>2, <2>3, Users DEF RegistryInv, LockOfLoader, LoadIsNew
    <2>7. SinceIsPast' /\ GotIsModel'
      BY <2>1, <2>2, <2>3 DEF RegistryInv, SinceIsPast, GotIsModel
    <2> QED
      BY <2>1, <2>3, <2>5, <2>6, <2>7 DEF RegistryInv
  <1>3. CASE ReturnModel(u)
    <2>1. user[u].at = "returning" /\ UNCHANGED <<configVars, model, lock>>
      BY <1>3 DEF ReturnModel
    <2>2. PICK s \in UserState :
              /\ user' = [user EXCEPT ![u] = s]
              /\ s.at # "loading" /\ s.since <= reset
              /\ s.at = "got" => s.has # None /\ s.has >= s.since
      <3>1. CASE u \in Version
        <4>1. user' = [user EXCEPT ![u] = NoUse]
          BY <1>3, <3>1 DEF ReturnModel
        <4>2. NoUse \in UserState /\ NoUse.at = "idle" /\ NoUse.since <= reset
          BY <1>s, NoUseType
        <4> QED
          BY <4>1, <4>2
      <3>2. CASE u \notin Version
        <4> DEFINE r == [user[u] EXCEPT !.at = IF model = None THEN "failed" ELSE "got",
                                        !.has = model]
        <4>1. r \in UserState /\ r.since = user[u].since /\ r.has = model
              /\ r.at = IF model = None THEN "failed" ELSE "got"
          BY <1>t, <1>s DEF UserState, ModelType
        <4>2. user' = [user EXCEPT ![u] = r]
          BY <1>3, <3>2 DEF ReturnModel
        <4>3. model # None => model \in Nat /\ model >= user[u].since
          BY <1>t, <1>s, Users DEF RegistryInv, ModelIsNew, ModelType
        <4> HIDE DEF r
        <4> QED
          BY <1>s, <4>1, <4>2, <4>3
      <3> QED
        BY <3>1, <3>2
    <2>3. RegistryInv'
      BY <2>1, <2>2, OneUse
    <2> QED
      BY <1>t, <2>1, <2>2, <2>3 DEF ModelType
  <1> QED
    BY <1>1, <1>2, <1>3 DEF UseModel

\* A restarted backend starts with the warm-up of the stored configuration.
LEMMA WarmedInv ==
    ConfigType /\ reset = 0 /\ toReset = {} /\ model = None /\ lock = None /\ user = Warmed
    => RegistryInv /\ \A t \in Turn : user[t].at = "idle"
  <1> SUFFICES ASSUME ConfigType, reset = 0, toReset = {}, model = None, lock = None, user = Warmed
               PROVE  RegistryInv /\ \A t \in Turn : user[t].at = "idle"
    OBVIOUS
  <1>1. \A u \in User : /\ user[u] \in UserState /\ user[u].since = 0 /\ user[u].has = None
                        /\ user[u].at \in {"idle", "wanting"}
    BY DEF Warmed, NoUse, UserState
  <1>2. user \in [User -> UserState]
    BY <1>1 DEF Warmed
  <1>3. ResetKnown
    BY DEF ConfigType, ResetKnown, Version
  <1>4. ModelType /\ ModelIsNew
    BY <1>2 DEF ModelType, ModelIsNew
  <1>5. LockOfLoader /\ LoadIsNew /\ SinceIsPast /\ GotIsModel
    BY <1>1, Users DEF LockOfLoader, LoadIsNew, SinceIsPast, GotIsModel
  <1>6. \A t \in Turn : user[t].at = "idle"
    BY Users DEF Warmed, NoUse, ConfigType
  <1> QED
    BY <1>3, <1>4, <1>5, <1>6 DEF RegistryInv

--------------------------------------------------------------------------------
(* The turns *)

\* The record of a turn stays typed when a field is set.
LEMMA SetAt ==
    ASSUME NEW x \in TurnState,
           NEW at \in {"new", "agent", "tools", "answered", "failed", "over"}
    PROVE  [x EXCEPT !.at = at] \in TurnState /\ [x EXCEPT !.at = at].at = at
  BY DEF TurnState

\* So it does with another conversation.
LEMMA SetTalk ==
    ASSUME NEW x \in TurnState, NEW talk \in Talk
    PROVE  [x EXCEPT !.talk = talk] \in TurnState /\ [x EXCEPT !.talk = talk].at = x.at
  BY DEF TurnState

\* So it does with another count of rounds.
LEMMA SetRounds ==
    ASSUME NEW x \in TurnState, NEW rounds \in 0 .. MaxRounds
    PROVE  [x EXCEPT !.rounds = rounds] \in TurnState /\ [x EXCEPT !.rounds = rounds].at = x.at
  BY DEF TurnState

\* The turns, and the conversations, begin typed.
LEMMA FirstTurn == NewTurn \in TurnState /\ EmptyTalk \in Talk
  BY DEF NewTurn, TurnState, Thread, EmptyTalk, Talk

\* A turn that ends leaves a typed record.
LEMMA EndTurnType ==
    ASSUME TalkType, NEW t \in Turn, NEW at \in {"failed", "over"}, EndTurn(t, at)
    PROVE  /\ turn' \in [Turn -> TurnState]
           /\ turn'[t].at = at /\ \A u \in Turn : u # t => turn'[u] = turn[u]
  <1>1. [NewTurn EXCEPT !.at = at] \in TurnState /\ [NewTurn EXCEPT !.at = at].at = at
    BY FirstTurn, SetAt
  <1> QED
    BY <1>1 DEF EndTurn, TalkType

\* A message begins a run of the graph, on a typed thread.
LEMMA InvokeType ==
    ASSUME TalkType, NEW t \in Turn, NEW h \in Thread, NEW healed \in BOOLEAN, Invoke(t, h, healed)
    PROVE  /\ turn' \in [Turn -> TurnState] /\ checkpoint' \in [Thread -> Talk]
           /\ turn'[t].at = "agent" /\ \A u \in Turn : u # t => turn'[u].at = turn[u].at
  <1> DEFINE talk == [checkpoint[h] EXCEPT !.has = @ \cup {t}]
             others == {u \in Turn \ {t} : Unanswered(u) /\ turn[u].thread = h}
             first == [at |-> "agent", thread |-> h, talk |-> talk, rounds |-> 0,
                       healed |-> healed, alone |-> others = {}]
  <1>1. talk \in Talk
    BY DEF TalkType, Talk
  <1>2. first \in TurnState /\ first.at = "agent"
    BY <1>1 DEF TurnState
  <1>3. \A u \in Turn : /\ [turn[u] EXCEPT !.alone = FALSE] \in TurnState
                        /\ [turn[u] EXCEPT !.alone = FALSE].at = turn[u].at
    BY DEF TalkType, TurnState
  <1>4. turn' = [u \in Turn |-> IF u = t THEN first
                                ELSE IF u \in others THEN [turn[u] EXCEPT !.alone = FALSE]
                                ELSE turn[u]]
    BY DEF Invoke
  <1>5. checkpoint' = [checkpoint EXCEPT ![h] = talk]
    BY DEF Invoke
  <1> HIDE DEF talk, others, first
  <1> QED
    BY <1>1, <1>2, <1>3, <1>4, <1>5 DEF TalkType

\* Every action writes turns, checkpoints, threads and pages of their types, and only a
\* turn at the agent's node uses the model.
LEMMA TalkStep == ChatInv /\ [Next]_vars => TalkType' /\ UsedByAgent' /\ restartsLeft' \in 0 .. MaxRestarts
  <1> SUFFICES ASSUME ChatInv, [Next]_vars
               PROVE  TalkType' /\ UsedByAgent' /\ restartsLeft' \in 0 .. MaxRestarts
    OBVIOUS
  <1>t. RegistryInv /\ TalkType /\ UsedByAgent /\ restartsLeft \in 0 .. MaxRestarts
    BY DEF ChatInv
  <1>f. user \in [User -> UserState] /\ turn \in [Turn -> TurnState] /\ Turn \subseteq User
    BY <1>t DEF RegistryInv, ModelType, TalkType, User
  <1>n. \A t \in Turn : Enter(t).at # "idle" /\ NoUse.at = "idle"
    BY DEF Enter, NoUse
  <1>k. ASSUME UNCHANGED <<talkVars, user, restartsLeft>>
        PROVE  TalkType' /\ UsedByAgent' /\ restartsLeft' \in 0 .. MaxRestarts
    BY <1>t, <1>k DEF TalkType, UsedByAgent
  <1>1. ASSUME NEW m \in Mode, StoreConfig(m)
        PROVE  TalkType' /\ UsedByAgent' /\ restartsLeft' \in 0 .. MaxRestarts
    BY <1>1, <1>k DEF StoreConfig
  <1>2. ASSUME NEW v \in Version, ResetModel(v)
        PROVE  TalkType' /\ UsedByAgent' /\ restartsLeft' \in 0 .. MaxRestarts
    <2>1. UNCHANGED <<talkVars, restartsLeft>> /\ \A t \in Turn : user'[t] = user[t]
      BY <1>2, <1>f, Users DEF ResetModel
    <2> QED
      BY <1>t, <2>1 DEF TalkType, UsedByAgent
  <1>3. ASSUME NEW u \in User, UseModel(u)
        PROVE  TalkType' /\ UsedByAgent' /\ restartsLeft' \in 0 .. MaxRestarts
    <2>1. UNCHANGED <<talkVars, restartsLeft>>
      BY <1>3 DEF UseModel, LockModel, LoadModel, LoadFails, ReturnModel
    <2>2. \A t \in Turn : user'[t].at # "idle" => user[t].at # "idle"
      BY <1>3, <1>t, <1>f, UseStep
    <2> QED
      BY <1>t, <2>1, <2>2 DEF TalkType, UsedByAgent
  <1>4. ASSUME NEW t \in Turn, Send(t)
        PROVE  TalkType' /\ UsedByAgent' /\ restartsLeft' \in 0 .. MaxRestarts
    <2>1. page.thread \in Thread /\ page' \in [thread : Thread, loading : BOOLEAN]
      BY <1>4, <1>t DEF Send, TalkType
    <2>2. Invoke(t, page.thread, FALSE) /\ user' = [user EXCEPT ![t] = Enter(t)]
          /\ UNCHANGED <<threads, restartsLeft>>
      BY <1>4 DEF Send
    <2>3. /\ turn' \in [Turn -> TurnState] /\ checkpoint' \in [Thread -> Talk]
          /\ turn'[t].at = "agent" /\ \A u \in Turn : u # t => turn'[u].at = turn[u].at
      BY <1>t, <2>1, <2>2, InvokeType
    <2>4. UsedByAgent'
      BY <1>t, <1>f, <2>2, <2>3 DEF UsedByAgent
    <2> QED
      BY <1>t, <2>1, <2>2, <2>3, <2>4 DEF TalkType
  <1>5. ASSUME NEW t \in Turn, Heal(t)
        PROVE  TalkType' /\ UsedByAgent' /\ restartsLeft' \in 0 .. MaxRestarts
    <2>1. threads + 1 \in Thread /\ threads' = threads + 1
      BY <1>5, <1>t DEF Heal, TalkType, Thread
    <2>2. Invoke(t, threads + 1, TRUE) /\ user' = [user EXCEPT ![t] = Enter(t)]
          /\ UNCHANGED <<page, restartsLeft>>
      BY <1>5 DEF Heal
    <2>3. /\ turn' \in [Turn -> TurnState] /\ checkpoint' \in [Thread -> Talk]
          /\ turn'[t].at = "agent" /\ \A u \in Turn : u # t => turn'[u].at = turn[u].at
      BY <1>t, <2>1, <2>2, InvokeType
    <2>4. UsedByAgent'
      BY <1>t, <1>f, <2>2, <2>3 DEF UsedByAgent
    <2> QED
      BY <1>t, <2>1, <2>2, <2>3, <2>4 DEF TalkType
  <1>6. ASSUME NEW t \in Turn, NoModel(t) \/ ModelFails(t) \/ ToolsFail(t)
        PROVE  TalkType' /\ UsedByAgent' /\ restartsLeft' \in 0 .. MaxRestarts
    <2>1. EndTurn(t, "failed") /\ UNCHANGED <<checkpoint, threads, page, restartsLeft>>
      BY <1>6 DEF NoModel, ModelFails, ToolsFail, EndUse
    <2>2. user'[t].at = "idle" /\ \A u \in Turn : u # t => user'[u] = user[u]
      <3>1. CASE ToolsFail(t)
        BY <1>t, <3>1 DEF ToolsFail, UsedByAgent
      <3>2. CASE NoModel(t) \/ ModelFails(t)
        BY <1>f, <1>n, <3>2 DEF NoModel, ModelFails, EndUse
      <3> QED
        BY <1>6, <3>1, <3>2
    <2>3. /\ turn' \in [Turn -> TurnState]
          /\ \A u \in Turn : u # t => turn'[u] = turn[u]
      BY <1>t, <2>1, EndTurnType
    <2>4. UsedByAgent'
      BY <1>t, <2>2, <2>3 DEF UsedByAgent
    <2> QED
      BY <1>t, <2>1, <2>3, <2>4 DEF TalkType
  <1>7. ASSUME NEW t \in Turn, ModelAnswers(t)
        PROVE  TalkType' /\ UsedByAgent' /\ restartsLeft' \in 0 .. MaxRestarts
    <2>1. /\ turn' = [turn EXCEPT ![t].at = "answered"]
          /\ checkpoint' = [checkpoint EXCEPT ![turn[t].thread] = turn[t].talk]
          /\ user' = [user EXCEPT ![t] = NoUse]
          /\ UNCHANGED <<threads, page, restartsLeft>>
      BY <1>7 DEF ModelAnswers, EndUse
    <2>2. turn[t].talk \in Talk /\ [turn[t] EXCEPT !.at = "answered"] \in TurnState
      BY <1>f DEF TurnState
    <2>4. turn' \in [Turn -> TurnState] /\ checkpoint' \in [Thread -> Talk]
      BY <1>t, <2>1, <2>2 DEF TalkType
    <2>3. UsedByAgent'
      BY <1>t, <1>f, <1>n, <2>1 DEF UsedByAgent
    <2> QED
      BY <1>t, <2>1, <2>3, <2>4 DEF TalkType
  <1>8. ASSUME NEW t \in Turn, ModelCallsTools(t)
        PROVE  TalkType' /\ UsedByAgent' /\ restartsLeft' \in 0 .. MaxRestarts
    <2>1. PICK talk \in {[turn[t].talk EXCEPT !.open = TRUE]} :
             /\ turn' = [turn EXCEPT ![t].at = "tools", ![t].talk = talk]
             /\ checkpoint' = [checkpoint EXCEPT ![turn[t].thread] = talk]
             /\ user' = [user EXCEPT ![t] = NoUse]
             /\ UNCHANGED <<threads, page, restartsLeft>>
      BY <1>8 DEF ModelCallsTools, EndUse
    <2>2. talk \in Talk
      BY <1>f, <2>1 DEF TurnState, Talk
    <2>6. turn[t] \in TurnState
      BY <1>f
    <2>7. PICK x \in {[turn[t] EXCEPT !.at = "tools"]} : x \in TurnState
      BY <2>6, SetAt
    <2>8. [x EXCEPT !.talk = talk] \in TurnState
      BY <2>2, <2>7, SetTalk
    <2>5. [turn[t] EXCEPT !.at = "tools", !.talk = talk] \in TurnState
      BY <2>7, <2>8
    <2>3. turn' \in [Turn -> TurnState] /\ checkpoint' \in [Thread -> Talk]
      BY <1>t, <2>1, <2>2, <2>5 DEF TalkType
    <2>4. UsedByAgent'
      BY <1>t, <1>f, <1>n, <2>1 DEF UsedByAgent
    <2> QED
      BY <1>t, <2>1, <2>3, <2>4 DEF TalkType
  <1>9. ASSUME NEW t \in Turn, ToolsReturn(t)
        PROVE  TalkType' /\ UsedByAgent' /\ restartsLeft' \in 0 .. MaxRestarts
    <2>1. PICK talk \in {[turn[t].talk EXCEPT !.open = FALSE]} :
             /\ turn' = [turn EXCEPT ![t].at = "agent", ![t].talk = talk, ![t].rounds = @ + 1]
             /\ checkpoint' = [checkpoint EXCEPT ![turn[t].thread] = talk]
             /\ user' = [user EXCEPT ![t] = Enter(t)]
             /\ turn[t].rounds < MaxRounds
             /\ UNCHANGED <<threads, page, restartsLeft>>
      BY <1>9 DEF ToolsReturn
    <2>2. talk \in Talk /\ turn[t].rounds + 1 \in 0 .. MaxRounds
      BY <1>f, <2>1 DEF TurnState, Talk
    <2>5. LET again == [turn[t] EXCEPT !.at = "agent", !.talk = talk, !.rounds = @ + 1]
          IN  again \in TurnState /\ again.at = "agent"
      <3>1. turn[t] \in TurnState
        BY <1>f
      <3>2. PICK x \in {[turn[t] EXCEPT !.at = "agent"]} : x \in TurnState /\ x.at = "agent"
        BY <3>1, SetAt
      <3>3. PICK y \in {[x EXCEPT !.talk = talk]} : y \in TurnState /\ y.at = "agent"
        BY <2>2, <3>2, SetTalk
      <3>4. PICK z \in {[y EXCEPT !.rounds = turn[t].rounds + 1]} : z \in TurnState /\ z.at = "agent"
        BY <2>2, <3>3, SetRounds
      <3> QED
        BY <3>2, <3>3, <3>4
    <2>3. turn' \in [Turn -> TurnState] /\ checkpoint' \in [Thread -> Talk]
      BY <1>t, <2>1, <2>2, <2>5 DEF TalkType
    <2>4. UsedByAgent'
      BY <1>t, <1>f, <2>1, <2>5 DEF UsedByAgent
    <2> QED
      BY <1>t, <2>1, <2>3, <2>4 DEF TalkType
  <1>10. ASSUME NEW t \in Turn, Respond(t)
         PROVE  TalkType' /\ UsedByAgent' /\ restartsLeft' \in 0 .. MaxRestarts
    <2>1. /\ EndTurn(t, "over") /\ user' = user /\ UNCHANGED <<checkpoint, threads, restartsLeft>>
          /\ turn[t].at \in {"answered", "failed"}
      BY <1>10 DEF Respond
    <2>2. page' \in [thread : Thread, loading : BOOLEAN]
      <3>1. turn[t].thread \in Thread
        BY <1>f DEF TurnState
      <3>2. CASE ShowAnswer(t)
        BY <3>1, <3>2 DEF ShowAnswer
      <3>3. CASE page' = [page EXCEPT !.loading = FALSE]
        BY <1>t, <3>3 DEF TalkType
      <3> QED
        BY <1>10, <3>2, <3>3 DEF Respond
    <2>3. /\ turn' \in [Turn -> TurnState]
          /\ \A u \in Turn : u # t => turn'[u] = turn[u]
      BY <1>t, <2>1, EndTurnType
    <2>4. UsedByAgent'
      BY <1>t, <2>1, <2>3 DEF UsedByAgent
    <2> QED
      BY <1>t, <2>1, <2>2, <2>3, <2>4 DEF TalkType
  <1>11. CASE Reopen \/ Clear
    <2>1. /\ UNCHANGED <<user, turn, checkpoint, restartsLeft>>
          /\ threads' \in Thread /\ page' \in [thread : Thread, loading : BOOLEAN]
      <3>1. CASE Reopen
        BY <1>t, <3>1 DEF Reopen, TalkType, configVars, modelVars
      <3>2. CASE Clear
        <4>1. threads + 1 \in Thread /\ threads' = threads + 1
          BY <1>t, <3>2 DEF Clear, TalkType, Thread
        <4> QED
          BY <1>t, <3>2, <4>1 DEF Clear, TalkType, configVars, modelVars
      <3> QED
        BY <1>11, <3>1, <3>2
    <2> QED
      BY <1>t, <2>1 DEF TalkType, UsedByAgent
  <1>12. CASE Restart
    <2>1. /\ [NewTurn EXCEPT !.at = "failed"] \in TurnState /\ EmptyTalk \in Talk
      BY FirstTurn, SetAt
    <2>2. turn' \in [Turn -> TurnState] /\ checkpoint' \in [Thread -> Talk]
      BY <1>f, <1>12, <2>1 DEF Restart
    <2>3. \A t \in Turn : user'[t].at = "idle"
      BY <1>12, <1>t, Users DEF Restart, Warmed, NoUse, RegistryInv, ConfigType
    <2> QED
      BY <1>t, <1>12, <2>2, <2>3 DEF Restart, TalkType, UsedByAgent
  <1>13. CASE UNCHANGED vars
    BY <1>13, <1>k DEF vars
  <1> QED
    BY <1>1, <1>2, <1>3, <1>4, <1>5, <1>6, <1>7, <1>8, <1>9, <1>10, <1>11, <1>12, <1>13
       DEF Next, TakeTurn

\* No step lets a use, or a load, fall behind the last reset.
LEMMA RegistryStep == ChatInv /\ [Next]_vars => RegistryInv'
  <1> SUFFICES ASSUME ChatInv, [Next]_vars
               PROVE  RegistryInv'
    OBVIOUS
  <1>t. RegistryInv /\ UsedByAgent
    BY DEF ChatInv
  <1>1. ASSUME NEW m \in Mode, StoreConfig(m)
        PROVE  RegistryInv'
    BY <1>1, <1>t, StoreStep
  <1>2. ASSUME NEW v \in Version, ResetModel(v)
        PROVE  RegistryInv'
    BY <1>2, <1>t, ResetStep
  <1>3. ASSUME NEW u \in User, UseModel(u)
        PROVE  RegistryInv'
    BY <1>3, <1>t, UseStep
  <1>4. ASSUME NEW t \in Turn, Send(t) \/ Heal(t) \/ ToolsReturn(t) \/ NoModel(t)
                               \/ ModelAnswers(t) \/ ModelCallsTools(t) \/ ModelFails(t)
        PROVE  RegistryInv'
    <2>1. user[t].at # "loading"
      BY <1>4, <1>t DEF UsedByAgent, Send, Heal, ToolsReturn, NoModel, ModelAnswers,
         ModelCallsTools, ModelFails, CanCall
    <2>2. /\ UNCHANGED <<configVars, model, lock>>
          /\ user' = [user EXCEPT ![t] = Enter(t)] \/ user' = [user EXCEPT ![t] = NoUse]
      BY <1>4 DEF Send, Heal, ToolsReturn, NoModel, ModelAnswers, ModelCallsTools, ModelFails,
         EndUse
    <2> QED
      BY <1>t, <2>1, <2>2, TurnUses
  <1>5. ASSUME NEW t \in Turn, ToolsFail(t) \/ Respond(t)
        PROVE  RegistryInv'
    BY <1>5, <1>t, NoUseChanged DEF ToolsFail, Respond
  <1>6. CASE Reopen \/ Clear \/ UNCHANGED vars
    BY <1>6, <1>t, NoUseChanged DEF Reopen, Clear, vars
  <1>7. CASE Restart
    <2>1. ConfigType'
      BY <1>7, <1>t DEF Restart, RegistryInv, ConfigType
    <2>2. user' = Warmed /\ Warmed' = Warmed /\ UNCHANGED config
      BY <1>7 DEF Restart, Warmed
    <2>3. (ConfigType /\ reset = 0 /\ toReset = {} /\ model = None /\ lock = None /\ user = Warmed
           => RegistryInv /\ \A t \in Turn : user[t].at = "idle")'
      BY WarmedInv, PTL
    <2> QED
      BY <1>7, <2>1, <2>2, <2>3 DEF Restart
  <1> QED
    BY <1>1, <1>2, <1>3, <1>4, <1>5, <1>6, <1>7 DEF Next, TakeTurn

--------------------------------------------------------------------------------
(* The theorems *)

\* The backend starts with no model, and the warm-up of a local configuration.
LEMMA InitInv == Init => ChatInv
  <1> SUFFICES ASSUME Init
               PROVE  ChatInv
    OBVIOUS
  <1>1. ConfigType
    BY DEF Init, ConfigType, Version
  <1>2. RegistryInv /\ \A t \in Turn : user[t].at = "idle"
    BY <1>1, WarmedInv DEF Init
  <1>3. NewTurn \in TurnState /\ EmptyTalk \in Talk /\ 1 \in Thread
    BY FirstTurn DEF Thread
  <1>4. TalkType
    BY <1>3 DEF Init, TalkType
  <1> QED
    BY <1>2, <1>4 DEF Init, ChatInv, UsedByAgent

\* The invariant of the registry and of its users holds in every reachable state.
THEOREM ChatInvariance == Spec => []ChatInv
  <1>1. ChatInv /\ [Next]_vars => ChatInv'
    BY TalkStep, RegistryStep DEF ChatInv
  <1> QED
    BY <1>1, InitInv, PTL DEF Spec

\* Every variable keeps its type.
THEOREM ChatTypeCorrect == Spec => []TypeOK
  <1>1. ChatInv => TypeOK
    BY DEF ChatInv, RegistryInv, ConfigType, ModelType, TalkType, TypeOK
  <1> QED
    BY <1>1, ChatInvariance, PTL

\* reset_model and chat_model: who asks after a reset never gets a model from before it.
THEOREM ResetIsSeen == Spec => []ResetGoverns
  <1>1. ChatInv => ResetGoverns
    BY DEF ChatInv, RegistryInv, GotIsModel, ResetGoverns
  <1> QED
    BY <1>1, ChatInvariance, PTL

--------------------------------------------------------------------------------
(* The threads *)

\* A turn that ran alone on its thread finds its message in it, and the thread as it left it;
\* an answer comes when no call of a tool is open.
Alone(t) ==
    Unanswered(t) /\ turn[t].alone =>
        /\ t \in turn[t].talk.has /\ checkpoint[turn[t].thread] = turn[t].talk
        /\ turn[t].at = "answered" => ~turn[t].talk.open
        /\ \A u \in Turn \ {t} : Unanswered(u) => turn[u].thread # turn[t].thread
ThreadsInv == \A t \in Turn : Alone(t)

\* One turn goes on, on thread h: those alone on other threads are left alone.
LEMMA OneTurn ==
    ASSUME ThreadsInv, TalkType, NEW t \in Turn, NEW h \in Thread, Alone(t)',
           \A u \in Turn \ {t} : /\ turn'[u].at = turn[u].at /\ turn'[u].thread = turn[u].thread
                                 /\ turn'[u].alone => turn'[u] = turn[u],
           \A g \in Thread : g # h => checkpoint'[g] = checkpoint[g],
           UNCHANGED checkpoint \/ \A u \in Turn \ {t} : Unanswered(u) /\ turn'[u].alone => turn[u].thread # h,
           Unanswered(t)' => /\ turn'[t].thread = h
                             /\ \A u \in Turn \ {t} : Unanswered(u) /\ turn'[u].alone => turn[u].thread # h
    PROVE  ThreadsInv'
  <1> SUFFICES ASSUME NEW u \in Turn, u # t, Unanswered(u)', turn'[u].alone
               PROVE  Alone(u)'
    BY DEF ThreadsInv, Alone
  <1>1. turn'[u] = turn[u] /\ Unanswered(u) /\ turn[u].alone /\ turn[u].thread \in Thread
    BY DEF Unanswered, InFlight, TalkType, TurnState
  <1>2. /\ u \in turn[u].talk.has /\ checkpoint[turn[u].thread] = turn[u].talk
        /\ turn[u].at = "answered" => ~turn[u].talk.open
        /\ \A w \in Turn \ {u} : Unanswered(w) => turn[w].thread # turn[u].thread
    BY <1>1 DEF ThreadsInv, Alone
  <1>3. checkpoint'[turn[u].thread] = checkpoint[turn[u].thread]
    BY <1>1
  <1>4. \A w \in Turn \ {u} : Unanswered(w)' => turn'[w].thread # turn[u].thread
    <2> SUFFICES ASSUME NEW w \in Turn \ {u}, Unanswered(w)'
                 PROVE  turn'[w].thread # turn[u].thread
      OBVIOUS
    <2>1. CASE w = t
      BY <1>1, <2>1
    <2>2. CASE w # t
      <3>1. Unanswered(w) /\ turn'[w].thread = turn[w].thread
        BY <2>2 DEF Unanswered, InFlight
      <3> QED
        BY <1>2, <3>1
    <2> QED
      BY <2>1, <2>2
  <1> QED
    BY <1>1, <1>2, <1>3, <1>4 DEF Alone

\* The graph is entered: who else is on the thread is alone no more, and nor is the turn.
LEMMA InvokeAlone ==
    ASSUME ThreadsInv, TalkType, NEW t \in Turn, NEW h \in Thread, NEW healed \in BOOLEAN,
           Invoke(t, h, healed)
    PROVE  ThreadsInv'
  <1> DEFINE talk == [checkpoint[h] EXCEPT !.has = @ \cup {t}]
             others == {u \in Turn \ {t} : Unanswered(u) /\ turn[u].thread = h}
             first == [at |-> "agent", thread |-> h, talk |-> talk, rounds |-> 0,
                       healed |-> healed, alone |-> others = {}]
  <1>1. t \in talk.has
    BY DEF TalkType, Talk
  <1>2. first.at = "agent" /\ first.thread = h /\ first.talk = talk /\ (first.alone <=> others = {})
    OBVIOUS
  <1>3. \A u \in Turn : LET less == [turn[u] EXCEPT !.alone = FALSE]
                        IN  less.at = turn[u].at /\ less.thread = turn[u].thread /\ ~less.alone
    BY DEF TalkType, TurnState
  <1>4. turn' = [u \in Turn |-> IF u = t THEN first
                                ELSE IF u \in others THEN [turn[u] EXCEPT !.alone = FALSE]
                                ELSE turn[u]]
    BY DEF Invoke
  <1>5. checkpoint' = [checkpoint EXCEPT ![h] = talk]
    BY DEF Invoke
  <1>6. \A u \in Turn : u \in others <=> u # t /\ Unanswered(u) /\ turn[u].thread = h
    OBVIOUS
  <1> HIDE DEF talk, others, first
  <1>7. turn'[t] = first /\ checkpoint'[h] = talk /\ \A g \in Thread : g # h => checkpoint'[g] = checkpoint[g]
    BY <1>4, <1>5 DEF TalkType
  <1>8. \A u \in Turn \ {t} : /\ turn'[u].at = turn[u].at /\ turn'[u].thread = turn[u].thread
                              /\ turn'[u].alone => u \notin others /\ turn'[u] = turn[u]
    BY <1>3, <1>4
  <1>9. Alone(t)'
    <2>1. \A u \in Turn \ {t} : Unanswered(u)' => Unanswered(u)
      BY <1>8 DEF Unanswered, InFlight
    <2>2. others = {} => \A u \in Turn \ {t} : Unanswered(u)' => turn'[u].thread # h
      BY <1>6, <1>8, <2>1
    <2> QED
      BY <1>1, <1>2, <1>7, <2>2 DEF Alone
  <1> QED
    BY <1>2, <1>6, <1>7, <1>8, <1>9, OneTurn

\* A turn that has ended is nowhere.
LEMMA EndAlone ==
    ASSUME ThreadsInv, TalkType, NEW t \in Turn, NEW at \in {"failed", "over"}, EndTurn(t, at),
           UNCHANGED checkpoint
    PROVE  ThreadsInv'
  <1>1. turn'[t].at = at /\ \A u \in Turn : u # t => turn'[u] = turn[u]
    BY EndTurnType
  <1>2. ~Unanswered(t)'
    BY <1>1 DEF Unanswered, InFlight
  <1>3. PICK h \in Thread : TRUE
    BY DEF TalkType
  <1> QED
    BY <1>1, <1>2, <1>3, OneTurn DEF Alone

\* A turn writes its conversation back.
LEMMA WriteAlone ==
    ASSUME ThreadsInv, TalkType, NEW t \in Turn, Unanswered(t), NEW x, NEW talk,
           x.thread = turn[t].thread, x.talk = talk, x.alone = turn[t].alone, talk.has = turn[t].talk.has,
           x.at = "answered" => ~talk.open,
           turn' = [turn EXCEPT ![t] = x],
           checkpoint' = [checkpoint EXCEPT ![turn[t].thread] = talk]
    PROVE  ThreadsInv'
  <1> DEFINE h == turn[t].thread
  <1>1. h \in Thread /\ turn'[t] = x /\ \A u \in Turn : u # t => turn'[u] = turn[u]
    BY DEF TalkType, TurnState
  <1>2. checkpoint'[h] = talk /\ \A g \in Thread : g # h => checkpoint'[g] = checkpoint[g]
    BY <1>1 DEF TalkType
  <1>3. \A u \in Turn \ {t} : Unanswered(u) /\ turn[u].alone => turn[u].thread # h
    BY DEF ThreadsInv, Alone
  <1>4. \A u \in Turn \ {t} : Unanswered(u)' => Unanswered(u)
    BY <1>1 DEF Unanswered, InFlight
  <1>5. Alone(t)'
    <2>1. Alone(t)
      BY DEF ThreadsInv
    <2> QED
      BY <1>1, <1>2, <1>4, <2>1 DEF Alone
  <1> QED
    BY <1>1, <1>2, <1>3, <1>5, OneTurn

\* Every step leaves the turns that are alone alone.
LEMMA ThreadsStep == ChatInv /\ ThreadsInv /\ [Next]_vars => ThreadsInv'
  <1> SUFFICES ASSUME ChatInv, ThreadsInv, [Next]_vars
               PROVE  ThreadsInv'
    OBVIOUS
  <1>t. TalkType /\ turn \in [Turn -> TurnState] /\ page.thread \in Thread
    BY DEF ChatInv, TalkType
  <1>k. ASSUME UNCHANGED <<turn, checkpoint>>
        PROVE  ThreadsInv'
    BY <1>k DEF ThreadsInv, Alone, Unanswered, InFlight
  <1>1. CASE \/ \E m \in Mode : StoreConfig(m)
             \/ \E v \in Version : ResetModel(v)
             \/ \E u \in User : UseModel(u)
             \/ Reopen \/ Clear \/ UNCHANGED vars
    BY <1>1, <1>k DEF StoreConfig, ResetModel, UseModel, LockModel, LoadModel, LoadFails, ReturnModel,
       Reopen, Clear, vars
  <1>2. ASSUME NEW t \in Turn, Send(t)
        PROVE  ThreadsInv'
    BY <1>t, <1>2, InvokeAlone DEF Send
  <1>3. ASSUME NEW t \in Turn, Heal(t)
        PROVE  ThreadsInv'
    <2>1. threads + 1 \in Thread
      BY <1>3, <1>t DEF Heal, TalkType, Thread
    <2> QED
      BY <1>t, <1>3, <2>1, InvokeAlone DEF Heal
  <1>4. ASSUME NEW t \in Turn, NoModel(t) \/ ModelFails(t) \/ ToolsFail(t) \/ Respond(t)
        PROVE  ThreadsInv'
    BY <1>t, <1>4, EndAlone DEF NoModel, ModelFails, ToolsFail, Respond
  <1>5. ASSUME NEW t \in Turn, ModelAnswers(t)
        PROVE  ThreadsInv'
    <2>1. PICK x \in {[turn[t] EXCEPT !.at = "answered"]} :
             x.thread = turn[t].thread /\ x.talk = turn[t].talk /\ x.alone = turn[t].alone
      BY <1>t DEF TurnState
    <2>2. PICK talk : talk = turn[t].talk
      OBVIOUS
    <2>3. /\ turn' = [turn EXCEPT ![t] = x] /\ ~talk.open /\ Unanswered(t)
          /\ checkpoint' = [checkpoint EXCEPT ![turn[t].thread] = talk]
      BY <1>5, <2>1, <2>2 DEF ModelAnswers, CanCall, Unanswered, InFlight
    <2> QED
      BY <1>t, <2>1, <2>2, <2>3, WriteAlone
  <1>6. ASSUME NEW t \in Turn, ModelCallsTools(t)
        PROVE  ThreadsInv'
    <2>1. PICK talk \in {[turn[t].talk EXCEPT !.open = TRUE]} : talk.has = turn[t].talk.has
      BY <1>t DEF TurnState, Talk
    <2>2. PICK x \in {[turn[t] EXCEPT !.at = "tools", !.talk = talk]} :
             x.thread = turn[t].thread /\ x.talk = talk /\ x.alone = turn[t].alone /\ x.at = "tools"
      BY <1>t DEF TurnState
    <2>3. /\ turn' = [turn EXCEPT ![t] = x] /\ Unanswered(t)
          /\ checkpoint' = [checkpoint EXCEPT ![turn[t].thread] = talk]
      BY <1>6, <2>1, <2>2 DEF ModelCallsTools, CanCall, Unanswered, InFlight
    <2> QED
      BY <1>t, <2>1, <2>2, <2>3, WriteAlone
  <1>7. ASSUME NEW t \in Turn, ToolsReturn(t)
        PROVE  ThreadsInv'
    <2>1. PICK talk \in {[turn[t].talk EXCEPT !.open = FALSE]} : talk.has = turn[t].talk.has
      BY <1>t DEF TurnState, Talk
    <2>2. PICK x \in {[turn[t] EXCEPT !.at = "agent", !.talk = talk, !.rounds = @ + 1]} :
             x.thread = turn[t].thread /\ x.talk = talk /\ x.alone = turn[t].alone /\ x.at = "agent"
      BY <1>t DEF TurnState
    <2>3. /\ turn' = [turn EXCEPT ![t] = x] /\ Unanswered(t)
          /\ checkpoint' = [checkpoint EXCEPT ![turn[t].thread] = talk]
      BY <1>7, <2>1, <2>2 DEF ToolsReturn, Unanswered, InFlight
    <2> QED
      BY <1>t, <2>1, <2>2, <2>3, WriteAlone
  <1>8. CASE Restart
    <2>1. \A t \in Turn : ~Unanswered(t)'
      <3>1. [NewTurn EXCEPT !.at = "failed"].at = "failed"
        BY FirstTurn, SetAt
      <3> QED
        BY <1>8, <3>1 DEF Restart, Unanswered, InFlight
    <2> QED
      BY <2>1 DEF ThreadsInv, Alone
  <1> QED
    BY <1>1, <1>2, <1>3, <1>4, <1>5, <1>6, <1>7, <1>8 DEF Next, TakeTurn

\* What a turn alone on its thread leaves there holds in every reachable state.
THEOREM ThreadsInvariance == Spec => []ThreadsInv
  <1>1. Init => ThreadsInv
    BY DEF Init, NewTurn, ThreadsInv, Alone, Unanswered, InFlight
  <1> QED
    BY <1>1, ThreadsStep, ChatInvariance, PTL DEF Spec

\* An answer is shown by the renderer with a thread that holds the message and can go on,
\* also when the conversation was healed onto a fresh one, unless turns ran side by side on it.
THEOREM AnswersGoOn == Spec => AnsweredThreadGoesOn
  <1>1. ASSUME ChatInv, ThreadsInv, [Next]_vars, NEW t \in Turn,
               turn[t].at = "answered", turn'[t].at = "over", turn[t].alone
        PROVE  t \in checkpoint[page'.thread].has /\ ~checkpoint[page'.thread].open
    <2>t. TalkType /\ turn \in [Turn -> TurnState]
      BY <1>1 DEF ChatInv, TalkType
    <2>1. page'.thread = turn[t].thread
      <3>1. CASE Respond(t)
        BY <1>1, <3>1 DEF Respond, ShowAnswer
      <3>2. ASSUME NEW u \in Turn, u # t, NoModel(u) \/ ModelFails(u) \/ ToolsFail(u) \/ Respond(u)
            PROVE  FALSE
        BY <1>1, <2>t, <3>2, EndTurnType DEF NoModel, ModelFails, ToolsFail, Respond
      <3>3. ASSUME NEW u \in Turn, NEW h, NEW healed, Invoke(u, h, healed)
            PROVE  FALSE
        <4>1. [turn[t] EXCEPT !.alone = FALSE].at = turn[t].at
          BY <2>t DEF TurnState
        <4> QED
          BY <1>1, <3>3, <4>1 DEF Invoke
      <3>4. ASSUME NEW u \in Turn, ModelAnswers(u) \/ ModelCallsTools(u) \/ ToolsReturn(u)
            PROVE  FALSE
        <4>1. u # t
          BY <1>1, <3>4 DEF ModelAnswers, ModelCallsTools, ToolsReturn, CanCall
        <4> QED
          BY <1>1, <2>t, <3>4, <4>1 DEF ModelAnswers, ModelCallsTools, ToolsReturn
      <3>5. CASE Restart
        BY <1>1, <3>5, FirstTurn, SetAt DEF Restart, Unanswered
      <3>6. CASE UNCHANGED turn
        BY <1>1, <3>6
      <3>7. ASSUME NoModel(t) \/ ModelFails(t) \/ ToolsFail(t)
            PROVE  FALSE
        BY <1>1, <3>7 DEF NoModel, ModelFails, ToolsFail, CanCall
      <3>8. (\E m \in Mode : StoreConfig(m)) \/ (\E v \in Version : ResetModel(v))
            \/ (\E u \in User : UseModel(u)) \/ Reopen \/ Clear \/ UNCHANGED vars => UNCHANGED turn
        BY DEF StoreConfig, ResetModel, UseModel, LockModel, LoadModel, LoadFails, ReturnModel,
           Reopen, Clear, vars
      <3> QED
        BY <1>1, <3>1, <3>2, <3>3, <3>4, <3>5, <3>6, <3>7, <3>8 DEF Next, TakeTurn, Send, Heal
    <2>2. /\ t \in turn[t].talk.has /\ checkpoint[turn[t].thread] = turn[t].talk
          /\ ~turn[t].talk.open
      BY <1>1 DEF ThreadsInv, Alone, Unanswered
    <2> QED
      BY <2>1, <2>2
  <1>2. ChatInv /\ ThreadsInv /\ [Next]_vars =>
           [\A t \in Turn : turn[t].at = "answered" /\ turn'[t].at = "over" /\ turn[t].alone =>
               /\ t \in checkpoint[page'.thread].has
               /\ ~checkpoint[page'.thread].open]_vars
    BY <1>1
  <1> QED
    BY <1>2, ChatInvariance, ThreadsInvariance, PTL DEF Spec, AnsweredThreadGoesOn

================================================================================
