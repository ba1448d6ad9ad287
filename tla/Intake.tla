--------------------------------- MODULE Intake ---------------------------------
(***************************************************************************)
(* How image files become photos: the watcher threads of the backend        *)
(* (observer.py) move a new file into the destination folder and record it, *)
(* the folder-scan worker process (folder_scan_queue.py) records the files  *)
(* of a folder where they are.  Both look a file's hash up first, both rely *)
(* on the unique hash column for the last word, and whoever inserted the    *)
(* photo admits its first run (enqueue_photo_run, see PipelineQueue).       *)
(*                                                                         *)
(* A photo row is identified by its hash, here the content of the file.     *)
(* Each database transaction and each file operation is a step; the process *)
(* may be killed between any two, and any may raise, which costs the file   *)
(* or the admission it happened at and leaves no other trace.  A graceful   *)
(* stop waits for the handlers: it is a kill that finds them idle.          *)
(***************************************************************************)
EXTENDS Naturals, Sequences, FiniteSets

CONSTANTS
    Content,        \* file contents, as told apart by generate_file_hash
    Watcher,        \* saved watchers, one observer thread each
    Incoming,       \* paths in watched folders
    WatcherOf,      \* incoming path -> the watcher of its folder
    Dest,           \* incoming path -> where move_photo puts the file
    Scanned,        \* paths below the folder that is scanned
    MaxScans,       \* bound: scan requests
    MaxKills,       \* bound: the application is killed
    MaxFaults,      \* bound: a database or file operation raises
    NoContent, NoPath, NoRow

Path == Incoming \cup Scanned \cup {Dest[p] : p \in Incoming}

ASSUME IntakeAssumption ==
    /\ WatcherOf \in [Incoming -> Watcher]
    /\ Incoming \cap {Dest[p] : p \in Incoming} = {}
    /\ MaxScans \in Nat
    /\ MaxKills \in Nat
    /\ MaxFaults \in Nat
    /\ NoContent \notin Content
    /\ NoPath \notin Path
    /\ NoRow \notin Path \cup {NoPath}

VARIABLES
    file,       \* path -> content of the file there, NoContent without one
    dropped,    \* incoming paths the user has put a file at
    photo,      \* content -> Photo.file_path of its row, NoRow without one
    duplicates, \* <<content, path>> of the exact-duplicate rows
    admitted,   \* content -> calls of enqueue_photo_run for it
    events,     \* watcher -> created events its thread has not taken yet
    handler,    \* watcher -> the on_created call in progress
    requests,   \* scans waiting in the Huey queue file
    scan,       \* the scan the worker process is at
    given,      \* contents of files a producer gave up at an exception, before a row
    stranded,   \* contents whose admission raised, or that it kept a scan from admitting
    scansLeft, killsLeft, faultsLeft

faultVars == <<given, stranded, faultsLeft>>
userVars == <<dropped, scansLeft, killsLeft>>
watchVars == <<events, handler>>
scanVars == <<requests, scan>>
vars == <<file, photo, duplicates, admitted, watchVars, scanVars, userVars, faultVars>>

HandlerStage == {"idle", "new", "moved", "recorded"}
ScanStage == {"idle", "walking", "new"}

TypeOK ==
    /\ file \in [Path -> Content \cup {NoContent}]
    /\ dropped \in SUBSET Incoming
    /\ photo \in [Content -> Path \cup {NoPath, NoRow}]
    /\ duplicates \in SUBSET (Content \X Path)
    /\ admitted \in [Content -> Nat]
    /\ events \in [Watcher -> Seq(Incoming)]
    /\ handler \in [Watcher -> [at : HandlerStage, path : Path \cup {NoPath},
                                content : Content \cup {NoContent}]]
    /\ requests \in 0..MaxScans
    /\ scan \in [at : ScanStage, left : SUBSET Path, fresh : SUBSET Content,
                 path : Path \cup {NoPath}, content : Content \cup {NoContent}]
    /\ scansLeft \in 0..MaxScans
    /\ killsLeft \in 0..MaxKills
    /\ given \in SUBSET Content
    /\ stranded \in SUBSET Content
    /\ faultsLeft \in 0..MaxFaults

IdleHandler == [at |-> "idle", path |-> NoPath, content |-> NoContent]
IdleScan == [at |-> "idle", left |-> {}, fresh |-> {}, path |-> NoPath, content |-> NoContent]

Init ==
    /\ file \in [Path -> Content \cup {NoContent}]
    /\ \A p \in Path \ Scanned : file[p] = NoContent
    /\ dropped = {}
    /\ photo = [c \in Content |-> NoRow]
    /\ duplicates = {}
    /\ admitted = [c \in Content |-> 0]
    /\ events = [w \in Watcher |-> <<>>]
    /\ handler = [w \in Watcher |-> IdleHandler]
    /\ requests = 0
    /\ scan = IdleScan
    /\ scansLeft = MaxScans
    /\ killsLeft = MaxKills
    /\ given = {}
    /\ stranded = {}
    /\ faultsLeft = MaxFaults

--------------------------------------------------------------------------------
\* The user saves a new file in a watched folder; the observer emits an event.
Drop(p, c) ==
    /\ p \notin dropped /\ file[p] = NoContent
    /\ dropped' = dropped \cup {p}
    /\ file' = [file EXCEPT ![p] = c]
    /\ events' = [events EXCEPT ![WatcherOf[p]] = Append(@, p)]
    /\ UNCHANGED <<photo, duplicates, admitted, handler, scanVars, scansLeft, killsLeft,
                   faultVars>>

\* `record_exact_duplicate`: one row per path, none for the photo's own file.
WithDuplicate(c, p) ==
    IF photo[c] = p THEN duplicates ELSE duplicates \cup {<<c, p>>}

\* Unique hash: the second INSERT raises IntegrityError and is rolled back.
CreatePhotoRecord(c, p) ==
    /\ photo[c] = NoRow
    /\ photo' = [photo EXCEPT ![c] = p]

EnqueuePhotoRun(c) == admitted' = [admitted EXCEPT ![c] = @ + 1]

\* An `except Exception`: what was under way is rolled back and logged.  The producer had
\* not got to a row for the contents G, or not to the admission of the contents S.
Raised(G, S) ==
    /\ faultsLeft > 0
    /\ faultsLeft' = faultsLeft - 1
    /\ given' = given \cup G
    /\ stranded' = stranded \cup S

--------------------------------------------------------------------------------
(* One watcher thread, `on_created` for its events one after the other *)

Taken(w) == [events EXCEPT ![w] = Tail(@)]

\* The file never became readable and stable, or vanished: the event is dropped.
FileNotReady(w) ==
    /\ handler[w] = IdleHandler
    /\ events[w] # <<>>
    /\ events' = Taken(w)
    /\ UNCHANGED <<file, photo, duplicates, admitted, handler, scanVars, userVars, faultVars>>

\* Hash and lookup.  A known hash is an exact duplicate, left where it is.
CheckNewFile(w) ==
    /\ handler[w] = IdleHandler
    /\ events[w] # <<>>
    /\ events' = Taken(w)
    /\ LET p == Head(events[w])
           c == file[p]
       IN  /\ c # NoContent
           /\ \/ /\ photo[c] # NoRow
                 /\ duplicates' = WithDuplicate(c, p)
                 /\ UNCHANGED handler
              \/ /\ photo[c] = NoRow
                 /\ handler' = [handler EXCEPT ![w] = [at |-> "new", path |-> p, content |-> c]]
                 /\ UNCHANGED duplicates
    /\ UNCHANGED <<file, photo, admitted, scanVars, userVars, faultVars>>

\* The hash, the lookup or the row of the duplicate raised: the file is left where it is.
CheckRaises(w) ==
    /\ handler[w] = IdleHandler
    /\ events[w] # <<>>
    /\ events' = Taken(w)
    /\ Raised({file[Head(events[w])]} \ {NoContent}, {})
    /\ UNCHANGED <<file, photo, duplicates, admitted, handler, scanVars, userVars>>

\* `move_photo`: the destination is replaced if it exists; a failure is logged
\* and answered with the empty path.
MovePhoto(w) ==
    /\ handler[w].at = "new"
    /\ LET p == handler[w].path
       IN  \/ /\ file[p] # NoContent
              /\ file' = [file EXCEPT ![p] = NoContent, ![Dest[p]] = file[p]]
              /\ handler' = [handler EXCEPT ![w].at = "moved", ![w].path = Dest[p]]
           \/ /\ handler' = [handler EXCEPT ![w].at = "moved", ![w].path = NoPath]
              /\ UNCHANGED file
    /\ UNCHANGED <<photo, duplicates, admitted, events, scanVars, userVars, faultVars>>

\* Mutant: a row inserted meanwhile by another producer is taken as one's own.
RecordOrFindPhoto(w) ==
    /\ handler[w].at = "moved"
    /\ \/ CreatePhotoRecord(handler[w].content, handler[w].path)
       \/ photo[handler[w].content] # NoRow /\ UNCHANGED photo
    /\ handler' = [handler EXCEPT ![w].at = "recorded"]
    /\ UNCHANGED <<file, duplicates, admitted, events, scanVars, userVars, faultVars>>

\* The photo row; when the INSERT finds the hash taken the handler returns, the file stays moved.
RecordPhoto(w) ==
    /\ handler[w].at = "moved"
    /\ \/ /\ CreatePhotoRecord(handler[w].content, handler[w].path)
          /\ handler' = [handler EXCEPT ![w].at = "recorded"]
       \/ /\ photo[handler[w].content] # NoRow
          /\ handler' = [handler EXCEPT ![w] = IdleHandler]
          /\ UNCHANGED photo
    /\ UNCHANGED <<file, duplicates, admitted, events, scanVars, userVars, faultVars>>

\* The same for any other reason: nobody has the picture any more.
RecordRaises(w) ==
    /\ handler[w].at \in {"new", "moved"}
    /\ Raised({handler[w].content}, {})
    /\ handler' = [handler EXCEPT ![w] = IdleHandler]
    /\ UNCHANGED <<file, photo, duplicates, admitted, events, scanVars, userVars>>

AdmitPhoto(w) ==
    /\ handler[w].at = "recorded"
    /\ EnqueuePhotoRun(handler[w].content)
    /\ handler' = [handler EXCEPT ![w] = IdleHandler]
    /\ UNCHANGED <<file, photo, duplicates, events, scanVars, userVars, faultVars>>

\* `enqueue_photo_run` raised: logged, the row stays without a run.
AdmitRaises(w) ==
    /\ handler[w].at = "recorded"
    /\ Raised({}, {handler[w].content})
    /\ handler' = [handler EXCEPT ![w] = IdleHandler]
    /\ UNCHANGED <<file, photo, duplicates, admitted, events, scanVars, userVars>>

--------------------------------------------------------------------------------
(* The folder-scan worker process, one task at a time *)

\* POST /folder_scanners: the task is stored in the worker's queue file.
RequestScan ==
    /\ scansLeft > 0
    /\ scansLeft' = scansLeft - 1
    /\ requests' = requests + 1
    /\ UNCHANGED <<file, photo, duplicates, admitted, watchVars, scan, dropped, killsLeft, faultVars>>

\* The task leaves the queue; `os.walk` lists the images.
StartFolderScanner ==
    /\ scan = IdleScan
    /\ requests > 0
    /\ requests' = requests - 1
    /\ scan' = [IdleScan EXCEPT !.at = "walking",
                                !.left = {p \in Scanned : file[p] # NoContent}]
    /\ UNCHANGED <<file, photo, duplicates, admitted, watchVars, userVars, faultVars>>

\* Hash and lookup; a file that went away since it was listed is skipped.
CheckListedFile(p) ==
    /\ scan.at = "walking"
    /\ p \in scan.left
    /\ LET c == file[p]
           rest == [scan EXCEPT !.left = @ \ {p}]
       IN  \/ /\ c = NoContent
              /\ scan' = rest
              /\ UNCHANGED duplicates
           \/ /\ c # NoContent /\ photo[c] # NoRow
              /\ duplicates' = WithDuplicate(c, p)
              /\ scan' = rest
           \/ /\ c # NoContent /\ photo[c] = NoRow
              /\ scan' = [rest EXCEPT !.at = "new", !.path = p, !.content = c]
              /\ UNCHANGED duplicates
    /\ UNCHANGED <<file, photo, admitted, requests, watchVars, userVars, faultVars>>

\* Mutant: an exception ends the walk.
ListedRaisesAndAborts ==
    /\ scan.at \in {"walking", "new"}
    /\ \E p \in IF scan.at = "new" THEN {scan.path} ELSE scan.left :
          Raised({file[p], scan.content} \ {NoContent}, {})
    /\ scan' = [IdleScan EXCEPT !.at = "walking", !.fresh = scan.fresh]
    /\ UNCHANGED <<file, photo, duplicates, admitted, requests, watchVars, userVars>>

\* Hash, stat, lookup, the row of the duplicate or the INSERT raised: the file is skipped,
\* by this scan, whether it is still there or not; the walk goes on.
ListedRaises ==
    /\ \/ \E p \in scan.left :
             /\ scan.at = "walking"
             /\ Raised({file[p]} \ {NoContent}, {})
             /\ scan' = [scan EXCEPT !.left = @ \ {p}]
       \/ /\ scan.at = "new"
          /\ Raised({scan.content}, {})
          /\ scan' = [IdleScan EXCEPT !.at = "walking", !.left = scan.left, !.fresh = scan.fresh]
    /\ UNCHANGED <<file, photo, duplicates, admitted, requests, watchVars, userVars>>

\* The row of a listed file; an IntegrityError is logged and the walk goes on.
RecordListedFile ==
    /\ scan.at = "new"
    /\ \/ /\ CreatePhotoRecord(scan.content, scan.path)
          /\ scan' = [IdleScan EXCEPT !.at = "walking", !.left = scan.left,
                                      !.fresh = scan.fresh \cup {scan.content}]
       \/ /\ photo[scan.content] # NoRow
          /\ scan' = [IdleScan EXCEPT !.at = "walking", !.left = scan.left, !.fresh = scan.fresh]
          /\ UNCHANGED photo
    /\ UNCHANGED <<file, duplicates, admitted, requests, watchVars, userVars, faultVars>>

\* The second pass admits the new photos, in the order they were found.
AdmitListed(c) ==
    /\ scan.at = "walking" /\ scan.left = {}
    /\ c \in scan.fresh
    /\ scan' = [scan EXCEPT !.fresh = @ \ {c}]
    /\ EnqueuePhotoRun(c)
    /\ UNCHANGED <<file, photo, duplicates, requests, watchVars, userVars, faultVars>>

\* The second pass catches nothing: one admission that raises is the end of the task.
ListedAdmitRaises ==
    /\ scan.at = "walking" /\ scan.left = {} /\ scan.fresh # {}
    /\ Raised({}, scan.fresh)
    /\ scan' = IdleScan
    /\ UNCHANGED <<file, photo, duplicates, admitted, requests, watchVars, userVars>>

\* Mutant: the task returns when the walk is over.
EndScanEarly ==
    /\ scan.at = "walking" /\ scan.left = {}
    /\ scan' = IdleScan
    /\ UNCHANGED <<file, photo, duplicates, admitted, requests, watchVars, userVars, faultVars>>

EndScan ==
    /\ scan.at = "walking" /\ scan.left = {} /\ scan.fresh = {}
    /\ scan' = IdleScan
    /\ UNCHANGED <<file, photo, duplicates, admitted, requests, watchVars, userVars, faultVars>>

--------------------------------------------------------------------------------
\* The application is killed and launched again.  Files and both databases stay;
\* the threads, their events and the task the worker had taken are gone.  Files
\* dropped meanwhile have no event and are, to the program, not there.
Kill ==
    /\ killsLeft > 0
    /\ killsLeft' = killsLeft - 1
    /\ events' = [w \in Watcher |-> <<>>]
    /\ handler' = [w \in Watcher |-> IdleHandler]
    /\ scan' = IdleScan
    /\ UNCHANGED <<file, photo, duplicates, admitted, requests, dropped, scansLeft, faultVars>>

Watch(w) ==
    \/ FileNotReady(w) \/ CheckNewFile(w) \/ MovePhoto(w) \/ RecordPhoto(w) \/ AdmitPhoto(w)
    \/ CheckRaises(w) \/ RecordRaises(w) \/ AdmitRaises(w)

Scan ==
    \/ StartFolderScanner \/ RecordListedFile \/ EndScan
    \/ ListedRaises \/ ListedAdmitRaises
    \/ \E p \in Path : CheckListedFile(p)
    \/ \E c \in Content : AdmitListed(c)

Next ==
    \/ \E p \in Incoming, c \in Content : Drop(p, c)
    \/ \E w \in Watcher : Watch(w)
    \/ RequestScan
    \/ Scan
    \/ Kill

Spec == Init /\ [][Next]_vars

\* The threads and the worker go on working; nothing makes a user scan.
FairSpec == Spec /\ WF_vars(Scan) /\ \A w \in Watcher : WF_vars(Watch(w))

--------------------------------------------------------------------------------
(* Safety *)

\* However many producers find copies of one picture at the same time, and
\* however often they are killed, one of them admits its first run
\* (check_photo_hash_exists is not atomic with create_photo_record).
AdmittedOnce == \A c \in Content : admitted[c] <= 1

\* The producer on the way from the row it inserted to its admission.
OnTheWay(c) ==
    \/ c \in scan.fresh
    \/ \E w \in Watcher : handler[w].at = "recorded" /\ handler[w].content = c

\* Only recorded photos are admitted; a recorded photo is admitted or its producer is about
\* to do it, unless that very admission raised or the application was killed.
AdmissionFollowsRow ==
    \A c \in Content :
        /\ admitted[c] > 0 => photo[c] # NoRow /\ ~OnTheWay(c)
        /\ photo[c] # NoRow /\ admitted[c] = 0 /\ killsLeft = MaxKills =>
              OnTheWay(c) \/ c \in stranded

(* Liveness *)

Killed == killsLeft < MaxKills

\* Without a kill every recorded photo is admitted, unless its admission raised.
RecordedIsAdmitted ==
    \A c \in Content :
        photo[c] # NoRow ~> admitted[c] > 0 \/ c \in stranded \/ Killed

\* Without a kill every picture a scan lists becomes a photo, even if a watcher moves the file
\* away under the scan or other files raise: only a producer that gave up this very picture
\* can have kept it from a row (`except Exception` of start_folder_scanner_task, on_created).
ListedIsRecorded ==
    \A p \in Scanned, c \in Content :
        p \in scan.left /\ file[p] = c ~> photo[c] # NoRow \/ c \in given \/ Killed

================================================================================
