------------------------------ MODULE ActionHistory ------------------------------
(***************************************************************************)
(* The file actions a user asks for in the chat or the gallery, and their   *)
(* undo: move_photos and archive_photos (graphs/tools.py, main.py),         *)
(* archive_photos_to_zip (utils.py), perform_undo (db_service.py).          *)
(*                                                                         *)
(* An action changes files first, commits the photo rows next and writes    *)
(* its history row last; undo goes the same way and deletes the history row *)
(* last.  One action at a time.  A kill, or an exception that leaves the    *)
(* action, may end it after any step; what its session had not committed is *)
(* gone then, what it did to the files is not.  An archive that is being    *)
(* appended to has no directory until it is closed, which an exception does *)
(* and a kill does not.                                                     *)
(*                                                                         *)
(* Photos of different folders may share a base name.  One then takes the   *)
(* place of the other on disk, or its entry hides the other's in the        *)
(* archive.                                                                 *)
(*                                                                         *)
(* The specification bears the name of the action: AgentProofs extends this *)
(* module together with Chat, whose tools these actions are.                *)
(***************************************************************************)
EXTENDS Naturals, Sequences, FiniteSets, Functions

CONSTANTS
    Photo,      \* photo rows, and the pictures they were made of
    Folder,     \* folders under the allowed root
    NameOf,     \* photo -> base name of its file, which no action changes
    Home,       \* photo -> the folder it is in at first
    MaxActions, \* bound: moves and archives
    MaxFaults,  \* bound: actions that do not get to their end
    NoPhoto, NoFolder

Name == {NameOf[p] : p \in Photo}
Path == Folder \X Name

ASSUME HistoryAssumption ==
    /\ IsFiniteSet(Photo)
    /\ Home \in [Photo -> Folder]
    /\ \A p, q \in Photo : p # q => <<Home[p], NameOf[p]>> # <<Home[q], NameOf[q]>>
    /\ MaxActions \in Nat /\ MaxFaults \in Nat
    /\ NoPhoto \notin Photo /\ NoFolder \notin Folder

VARIABLES
    file,       \* path -> the picture in the file there
    path,       \* Photo.file_path, as committed
    archived,   \* Photo.is_archived, as committed
    zip,        \* entries of MyPhotoArchive.zip; empty when there is no such file
    torn,       \* MyPhotoArchive.zip is there without its directory
    history,    \* history_actions, oldest first
    op,         \* the action or undo in progress
    spoilt,     \* auxiliary: an action took one photo's file for another's, wrote over it or
                \* hid its entry, or a kill met an append to an archive that had entries
    actionsLeft, faultsLeft

actionBounds == <<actionsLeft, faultsLeft>>
actionVars == <<file, path, archived, zip, torn, history, op, spoilt, actionBounds>>

NoOp == [at |-> "idle"]
Stage == {"moving", "zipping", "removing", "recording",
          "unmoving", "restoring", "unmarking", "forgetting"}
Kind == {"move", "archive"}
Files == [Path -> Photo \cup {NoPhoto}]
Rows == [Photo -> Path]
Entry == [name : Name, picture : Photo]
Entries == Seq(Entry)
\* undo_data["original_paths"]: by photo for a move, by entry name for an archive.
Origins == UNION {[S -> Path] : S \in SUBSET (Photo \cup Name)}

\* Auxiliary: the state an undo is to bring back.
Snapshot == [file |-> file, path |-> path, archived |-> archived, zip |-> zip]
Snapshots == [file : Files, path : Rows, archived : SUBSET Photo, zip : Entries]

Records == [kind : Kind, orig : Origins, newly : SUBSET Photo, before : Snapshots]
Ops == [at : Stage, kind : Kind, todo : SUBSET (Photo \cup Name),
        dest : Folder \cup {NoFolder}, rows : Rows, orig : Origins, newly : SUBSET Photo,
        before : Snapshots]

ActionTypeOK ==
    /\ file \in Files /\ path \in Rows /\ archived \in SUBSET Photo /\ zip \in Entries
    /\ torn \in BOOLEAN /\ spoilt \in BOOLEAN
    /\ history \in Seq(Records)
    /\ op = NoOp \/ op \in Ops
    /\ actionsLeft \in 0..MaxActions /\ faultsLeft \in 0..MaxFaults

\* The session of an action reads the rows and holds its changes until it commits.
Begin(stage, kind, todo) ==
    [at |-> stage, kind |-> kind, todo |-> todo, dest |-> NoFolder, rows |-> path,
     orig |-> <<>>, newly |-> {}, before |-> Snapshot]

ActionInit ==
    /\ path = [p \in Photo |-> <<Home[p], NameOf[p]>>]
    /\ file = [q \in Path |-> IF \E p \in Photo : path[p] = q
                              THEN CHOOSE p \in Photo : path[p] = q ELSE NoPhoto]
    /\ archived = {} /\ zip = <<>> /\ torn = FALSE /\ history = <<>> /\ op = NoOp
    /\ spoilt = FALSE
    /\ actionsLeft = MaxActions /\ faultsLeft = MaxFaults

--------------------------------------------------------------------------------
(* shutil.move: the destination is replaced; onto itself nothing happens *)
Moved(from, to) == [file EXCEPT ![from] = NoPhoto, ![to] = file[from]]
\* A picture is written where another one is.
Replaces(picture, q) == file[q] \notin {NoPhoto, picture}
\* The file is that of the photo, unless the one of another photo has come to its path.
MoveFile(p, from, to) ==
    /\ file' = Moved(from, to)
    /\ spoilt' = (spoilt \/ file[from] # p \/ Replaces(p, to))

StartAction ==
    /\ op.at = "idle" /\ actionsLeft > 0
    /\ actionsLeft' = actionsLeft - 1
    /\ UNCHANGED <<file, path, archived, zip, torn, history, spoilt, faultsLeft>>

MovePhotos(ps, dest) ==
    StartAction /\ op' = [Begin("moving", "move", ps) EXCEPT !.dest = dest]
ArchivePhotos(ps) ==
    StartAction /\ op' = [Begin("zipping", "archive", ps) EXCEPT !.newly = ps]

\* A photo whose file is missing is skipped.
MoveOne(p) ==
    /\ op.at = "moving" /\ p \in op.todo
    /\ LET from == op.rows[p]
           to == <<op.dest, NameOf[p]>>
       IN  IF file[from] = NoPhoto
           THEN op' = [op EXCEPT !.todo = @ \ {p}] /\ UNCHANGED <<file, spoilt>>
           ELSE /\ MoveFile(p, from, to)
                /\ op' = [op EXCEPT !.todo = @ \ {p}, !.rows[p] = to,
                            !.orig = [x \in DOMAIN @ \cup {p} |-> IF x = p THEN from ELSE @[x]]]
    /\ UNCHANGED <<path, archived, zip, torn, history, actionBounds>>

\* Mutant: the session is closed without a commit.
CloseMove ==
    /\ op.at = "moving" /\ op.todo = {}
    /\ op' = [op EXCEPT !.at = "recording"]
    /\ UNCHANGED <<file, path, archived, zip, torn, history, spoilt, actionBounds>>

CommitMove ==
    /\ op.at = "moving" /\ op.todo = {}
    /\ path' = op.rows
    /\ op' = [op EXCEPT !.at = "recording"]
    /\ UNCHANGED <<file, archived, zip, torn, history, spoilt, actionBounds>>

\* Appends a picture that is there under its base name: the first one overwrites the
\* directory.  Of one name the last path is kept.
ZipOne(p) ==
    /\ op.at = "zipping" /\ p \in op.todo
    /\ LET from == path[p]
           name == NameOf[p]
       IN  IF file[from] = NoPhoto
           THEN op' = [op EXCEPT !.todo = @ \ {p}] /\ UNCHANGED <<zip, torn, spoilt>>
           ELSE /\ zip' = Append(zip, [name |-> name, picture |-> file[from]])
                /\ torn' = TRUE
                /\ spoilt' = (\/ spoilt \/ file[from] # p
                              \/ \E i \in DOMAIN zip : zip[i].name = name /\ zip[i].picture # p)
                /\ op' = [op EXCEPT !.todo = @ \ {p},
                            !.orig = [n \in DOMAIN @ \cup {name} |->
                                        IF n = name THEN from ELSE @[n]]]
    /\ UNCHANGED <<file, path, archived, history, actionBounds>>

\* The directory is written; what was there without one is a new archive then.
CloseZip ==
    /\ op.at = "zipping" /\ op.todo = {}
    /\ torn' = FALSE
    /\ op' = [op EXCEPT !.at = "removing"]
    /\ UNCHANGED <<file, path, archived, zip, history, spoilt, actionBounds>>

\* One original after the other; a file that cannot be deleted stays.
Kept == {op.orig[n] : n \in DOMAIN op.orig}
RemoveOriginals ==
    /\ op.at = "removing"
    /\ \E q \in Kept :
          /\ file[q] # NoPhoto
          /\ file' = [file EXCEPT ![q] = NoPhoto]
    /\ UNCHANGED <<path, archived, zip, torn, history, op, spoilt, actionBounds>>

\* Mutant: photos archived before count as newly archived.
CommitArchiveOfAll ==
    /\ op.at = "removing"
    /\ \A q \in Kept : file[q] = NoPhoto
    /\ archived' = archived \cup op.newly
    /\ op' = [op EXCEPT !.at = "recording"]
    /\ UNCHANGED <<file, path, zip, torn, history, spoilt, actionBounds>>

\* Every photo asked for is marked, the missing ones too.
CommitArchive ==
    /\ op.at = "removing"
    /\ \/ /\ \A q \in Kept : file[q] = NoPhoto
          /\ UNCHANGED faultsLeft
       \/ faultsLeft > 0 /\ faultsLeft' = faultsLeft - 1
    /\ archived' = archived \cup op.newly
    /\ op' = [op EXCEPT !.at = "recording", !.newly = @ \ archived]
    /\ UNCHANGED <<file, path, zip, torn, history, spoilt, actionsLeft>>

\* A second transaction; an action that touched no file leaves no history row.
RecordAction ==
    /\ op.at = "recording"
    /\ history' = IF DOMAIN op.orig = {} THEN history
                  ELSE Append(history, [kind |-> op.kind, orig |-> op.orig,
                                        newly |-> op.newly, before |-> op.before])
    /\ op' = NoOp
    /\ UNCHANGED <<file, path, archived, zip, torn, spoilt, actionBounds>>

--------------------------------------------------------------------------------
(* perform_undo: the newest history row *)
Last(seq) == seq[Len(seq)]
\* Of a name the last position, and an order of a finite set.
LastOf(list, n) == CHOOSE i \in DOMAIN list :
                       list[i] = n /\ \A j \in DOMAIN list : list[j] = n => j <= i
Orders(S) == Bijection(1..Cardinality(S), S)
LastEntry(n) == zip[LastOf([i \in DOMAIN zip |-> zip[i].name], n)]
NamesInZip == {zip[i].name : i \in DOMAIN zip}

\* With no archive there is nothing to restore or to trim; one without a directory cannot
\* be opened, and nothing is undone.
UndoLastAction ==
    /\ op.at = "idle" /\ history # <<>>
    /\ torn => Last(history).kind = "move"
    /\ LET h == Last(history)
           stage == IF h.kind = "move" THEN "unmoving"
                    ELSE IF zip = <<>> THEN "unmarking" ELSE "restoring"
           todo == IF h.kind = "move" THEN DOMAIN h.orig ELSE DOMAIN h.orig \cap NamesInZip
       IN  op' = [Begin(stage, h.kind, todo) EXCEPT
                    !.orig = h.orig, !.newly = h.newly, !.before = h.before]
    /\ UNCHANGED <<file, path, archived, zip, torn, history, spoilt, actionBounds>>

UnmoveOne(p) ==
    /\ op.at = "unmoving" /\ p \in op.todo
    /\ IF file[op.rows[p]] = NoPhoto
       THEN op' = [op EXCEPT !.todo = @ \ {p}] /\ UNCHANGED <<file, spoilt>>
       ELSE /\ MoveFile(p, op.rows[p], op.orig[p])
            /\ op' = [op EXCEPT !.todo = @ \ {p}, !.rows[p] = op.orig[p]]
    /\ UNCHANGED <<path, archived, zip, torn, history, actionBounds>>

CommitUnmove ==
    /\ op.at = "unmoving" /\ op.todo = {}
    /\ path' = op.rows
    /\ op' = [op EXCEPT !.at = "forgetting"]
    /\ UNCHANGED <<file, archived, zip, torn, history, spoilt, actionBounds>>

\* A zip is read by name, which finds the last entry of that name.
RestoreOne(n) ==
    /\ op.at = "restoring" /\ n \in op.todo
    /\ file' = [file EXCEPT ![op.orig[n]] = LastEntry(n).picture]
    /\ spoilt' = (spoilt \/ Replaces(LastEntry(n).picture, op.orig[n]))
    /\ op' = [op EXCEPT !.todo = @ \ {n}]
    /\ UNCHANGED <<path, archived, zip, torn, history, actionBounds>>

\* Mutant: the archive is deleted although it holds more.
UnlinkZip ==
    /\ op.at = "restoring" /\ op.todo = {}
    /\ zip' = <<>>
    /\ op' = [op EXCEPT !.at = "unmarking"]
    /\ UNCHANGED <<file, path, archived, torn, history, spoilt, actionBounds>>

\* The entries of other names are copied in their order, each read by its name, to a new
\* archive that replaces the old one; with none left the archive is deleted.
TrimZip ==
    /\ op.at = "restoring" /\ op.todo = {}
    /\ \E order \in Orders({i \in DOMAIN zip : zip[i].name \notin DOMAIN op.orig}) :
          /\ \A i, j \in DOMAIN order : i < j => order[i] < order[j]
          /\ zip' = [i \in DOMAIN order |-> LastEntry(zip[order[i]].name)]
    /\ op' = [op EXCEPT !.at = "unmarking"]
    /\ UNCHANGED <<file, path, archived, torn, history, spoilt, actionBounds>>

Unmark ==
    /\ op.at = "unmarking"
    /\ archived' = archived \ op.newly
    /\ op' = [op EXCEPT !.at = "forgetting"]
    /\ UNCHANGED <<file, path, zip, torn, history, spoilt, actionBounds>>

Forget ==
    /\ op.at = "forgetting"
    /\ history' = SubSeq(history, 1, Len(history) - 1)
    /\ op' = NoOp
    /\ UNCHANGED <<file, path, archived, zip, torn, spoilt, actionBounds>>

--------------------------------------------------------------------------------
(* The action ends half way: its session closes without a commit *)
CutShort ==
    /\ op.at # "idle" /\ faultsLeft > 0
    /\ faultsLeft' = faultsLeft - 1
    /\ op' = NoOp
    /\ UNCHANGED <<file, path, archived, history, actionsLeft>>

\* The "with" of an append closes the archive.
Fail ==
    /\ CutShort
    /\ torn' = (torn /\ op.at # "zipping")
    /\ UNCHANGED <<zip, spoilt>>

\* An append is left without a directory, and what the archive held cannot be read.
Kill ==
    /\ CutShort
    /\ IF op.at = "zipping" /\ torn
       THEN zip' = <<>> /\ spoilt' = (spoilt \/ op.before.zip # <<>>)
       ELSE UNCHANGED <<zip, spoilt>>
    /\ UNCHANGED torn

ActionNext ==
    \/ \E ps \in SUBSET Photo \ {{}} :
          ArchivePhotos(ps) \/ \E dest \in Folder : MovePhotos(ps, dest)
    \/ \E p \in Photo : MoveOne(p) \/ ZipOne(p) \/ UnmoveOne(p)
    \/ CommitMove \/ CloseZip \/ RemoveOriginals \/ CommitArchive \/ RecordAction
    \/ UndoLastAction \/ CommitUnmove
    \/ \E n \in Name : RestoreOne(n)
    \/ TrimZip \/ Unmark \/ Forget \/ Fail \/ Kill

ActionSpec == ActionInit /\ [][ActionNext]_actionVars

--------------------------------------------------------------------------------
(* Properties *)
InFiles == {file[q] : q \in Path}
InZip == {zip[i].picture : i \in DOMAIN zip}
NoFault == faultsLeft = MaxFaults

\* Moves, archives, undos and anything that ends one of them half way never lose a
\* picture: it is in a file or in the archive (files are deleted after the archive
\* is closed, entries after the file is back).  Unless, of two photos of one base
\* name, the file or the entry of one took the place of the other's, or a kill met
\* an append to an archive that had entries.
PicturesSurvive == ~spoilt => Photo \subseteq InFiles \cup InZip

\* Between actions that all got to their end, the row of a photo that is not
\* archived names the file with its picture, and an archived photo is in the zip,
\* unless a photo took the place of another one of its name.
RowsMatchFiles ==
    op.at = "idle" /\ NoFault /\ ~spoilt =>
        \A p \in Photo : IF p \in archived THEN p \in InZip ELSE file[path[p]] = p

\* An undo brings back the files, rows, marks and archive its action found, however
\* many actions and undos were between, as long as none was cut short and no photo
\* took the place of another one of its name.
UndoRestores == [][Forget /\ NoFault /\ ~spoilt => Snapshot = op.before]_actionVars

================================================================================
