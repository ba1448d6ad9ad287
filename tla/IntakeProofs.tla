------------------------------ MODULE IntakeProofs ------------------------------
(***************************************************************************)
(* A recorded photo is admitted once: for any number of watchers, folders,  *)
(* pictures, scans, exceptions and kills.  The argument follows the producers on their  *)
(* way from a row to its admission: the unique hash lets one INSERT of a    *)
(* content succeed, so there is one such producer, and its admission is the *)
(* end of its way.                                                          *)
(***************************************************************************)
EXTENDS Intake, TLAPS

\* A watcher thread holds the row of content c it has inserted.
Holds(w, c) == handler[w].at = "recorded" /\ handler[w].content = c

\* A handler that is past the lookup has hashed a file; a new one has not moved it.
Handlers ==
    {h \in [at : HandlerStage, path : Path \cup {NoPath}, content : Content \cup {NoContent}] :
        /\ h.at # "idle" => h.content \in Content
        /\ h.at = "new" => h.path \in Incoming}

Scans ==
    {s \in [at : ScanStage, left : SUBSET Path, fresh : SUBSET Content,
            path : Path \cup {NoPath}, content : Content \cup {NoContent}] :
        s.at = "new" => s.content \in Content}

FileTyped == file \in [Path -> Content \cup {NoContent}]
RowsTyped == photo \in [Content -> Path \cup {NoPath, NoRow}]
AdmittedTyped == admitted \in [Content -> Nat]
EventsTyped == events \in [Watcher -> Seq(Incoming)]
HandlerTyped == handler \in [Watcher -> Handlers]
ScanTyped == scan \in Scans

Typed ==
    FileTyped /\ RowsTyped /\ AdmittedTyped /\ EventsTyped /\ HandlerTyped /\ ScanTyped

\* Before the row there is no producer on its way; after the admission neither.
OneProducer ==
    \A c \in Content :
        /\ photo[c] = NoRow => admitted[c] = 0 /\ ~OnTheWay(c)
        /\ admitted[c] \in {0, 1}
        /\ admitted[c] = 1 => ~OnTheWay(c)
        /\ \A w \in Watcher : Holds(w, c) => c \notin scan.fresh
        /\ \A w, v \in Watcher : Holds(w, c) /\ Holds(v, c) => w = v

\* As long as nothing was killed no producer is lost on its way but at an exception.
NoneLost ==
    killsLeft = MaxKills =>
        \A c \in Content :
            photo[c] # NoRow /\ admitted[c] = 0 => OnTheWay(c) \/ c \in stranded

IntakeInv == Typed /\ killsLeft \in 0..MaxKills /\ OneProducer /\ NoneLost

--------------------------------------------------------------------------------
(* Typing *)

\* The idle records are records of the stages.
LEMMA IdleTyped == IdleHandler \in Handlers /\ IdleScan \in Scans
  BY DEF IdleHandler, IdleScan, Handlers, Scans, HandlerStage, ScanStage

\* A watched path and its destination are paths; no path stands for a missing row.
LEMMA PathFacts ==
    /\ Incoming \subseteq Path /\ Scanned \subseteq Path
    /\ \A p \in Incoming : Dest[p] \in Path
    /\ NoRow \notin Path /\ NoRow # NoPath
  BY IntakeAssumption DEF Path

\* What a watcher thread writes keeps the state well typed.
LEMMA TypedWatch == ASSUME Typed, NEW w \in Watcher, Watch(w) PROVE Typed'
<1> USE DEF Typed
<1>1. CASE FileNotReady(w)
  BY <1>1 DEF FileNotReady, Taken, scanVars, FileTyped, RowsTyped, AdmittedTyped, EventsTyped,
     HandlerTyped, ScanTyped
<1>2. CASE CheckNewFile(w)
  <2> DEFINE p == Head(events[w])
             h == [at |-> "new", path |-> p, content |-> file[p]]
  <2>1. p \in Incoming /\ Tail(events[w]) \in Seq(Incoming)
    BY <1>2 DEF CheckNewFile, EventsTyped
  <2>2. p \in Path
    BY <2>1, PathFacts
  <2>3. EventsTyped'
    BY <1>2, <2>1 DEF CheckNewFile, Taken, EventsTyped
  <2>4. file[p] # NoContent
    BY <1>2 DEF CheckNewFile
  <2>5. file[p] \in Content
    BY <2>2, <2>4 DEF FileTyped
  <2>6. h \in Handlers
    BY <2>1, <2>2, <2>5 DEF Handlers, HandlerStage
  <2>7. handler' = handler \/ handler' = [handler EXCEPT ![w] = h]
    BY <1>2 DEF CheckNewFile
  <2> HIDE DEF h
  <2>8. HandlerTyped'
    BY <2>6, <2>7 DEF HandlerTyped
  <2> QED
    BY <1>2, <2>3, <2>8 DEF CheckNewFile, scanVars, FileTyped, RowsTyped, AdmittedTyped, ScanTyped
<1>3. CASE MovePhoto(w)
  <2>1. /\ handler[w] \in Handlers
        /\ handler[w].path \in Incoming
        /\ handler[w].content \in Content
    BY <1>3 DEF MovePhoto, HandlerTyped, Handlers
  <2>2. PICK q \in Path \cup {NoPath} :
          handler' = [handler EXCEPT ![w].at = "moved", ![w].path = q]
    BY <1>3, <2>1, PathFacts DEF MovePhoto
  <2>3. [handler[w] EXCEPT !.at = "moved", !.path = q] \in Handlers
    BY <2>1 DEF Handlers, HandlerStage
  <2>4. handler' = [handler EXCEPT ![w] = [handler[w] EXCEPT !.at = "moved", !.path = q]]
    BY <2>2 DEF HandlerTyped
  <2>5. HandlerTyped'
    BY <2>3, <2>4 DEF HandlerTyped
  <2>6. FileTyped'
    <3>1. handler[w].path \in Path /\ Dest[handler[w].path] \in Path
      BY <2>1, PathFacts
    <3> QED BY <1>3, <3>1 DEF MovePhoto, FileTyped
  <2> QED
    BY <1>3, <2>5, <2>6 DEF MovePhoto, scanVars, RowsTyped, AdmittedTyped, EventsTyped, ScanTyped
<1>4. CASE RecordPhoto(w)
  <2>1. /\ handler[w] \in Handlers
        /\ handler[w].path \in Path \cup {NoPath}
        /\ handler[w].content \in Content
    BY <1>4 DEF RecordPhoto, HandlerTyped, Handlers
  <2>2. [handler[w] EXCEPT !.at = "recorded"] \in Handlers
    BY <2>1 DEF Handlers, HandlerStage
  <2>3. \/ handler' = [handler EXCEPT ![w] = IdleHandler]
        \/ handler' = [handler EXCEPT ![w] = [handler[w] EXCEPT !.at = "recorded"]]
    BY <1>4 DEF RecordPhoto, HandlerTyped
  <2>4. HandlerTyped'
    BY <2>2, <2>3, IdleTyped DEF HandlerTyped
  <2>5. RowsTyped'
    BY <1>4, <2>1 DEF RecordPhoto, CreatePhotoRecord, RowsTyped
  <2> QED
    BY <1>4, <2>4, <2>5 DEF RecordPhoto, scanVars, FileTyped, AdmittedTyped, EventsTyped, ScanTyped
<1>5. CASE AdmitPhoto(w)
  <2>1. HandlerTyped'
    BY <1>5, IdleTyped DEF AdmitPhoto, HandlerTyped
  <2>2. AdmittedTyped'
    <3>1. handler[w].content \in Content
      BY <1>5 DEF AdmitPhoto, HandlerTyped, Handlers
    <3>2. admitted[handler[w].content] + 1 \in Nat
      BY <3>1 DEF AdmittedTyped
    <3> QED BY <1>5, <3>2 DEF AdmitPhoto, EnqueuePhotoRun, AdmittedTyped
  <2> QED
    BY <1>5, <2>1, <2>2 DEF AdmitPhoto, scanVars, FileTyped, RowsTyped, EventsTyped, ScanTyped
<1>6. CASE CheckRaises(w)
  BY <1>6 DEF CheckRaises, Taken, scanVars, FileTyped, RowsTyped, AdmittedTyped, EventsTyped,
     HandlerTyped, ScanTyped
<1>7. CASE RecordRaises(w) \/ AdmitRaises(w)
  <2>1. HandlerTyped'
    BY <1>7, IdleTyped DEF RecordRaises, AdmitRaises, HandlerTyped
  <2> QED
    BY <1>7, <2>1 DEF RecordRaises, AdmitRaises, scanVars, FileTyped, RowsTyped, AdmittedTyped,
       EventsTyped, ScanTyped
<1> QED BY <1>1, <1>2, <1>3, <1>4, <1>5, <1>6, <1>7 DEF Watch

\* What the scan worker writes keeps the state well typed.
LEMMA TypedScan == ASSUME Typed, Scan PROVE Typed'
<1> USE DEF Typed
<1>1. CASE StartFolderScanner
  <2>1. [IdleScan EXCEPT !.at = "walking", !.left = {p \in Scanned : file[p] # NoContent}] \in Scans
    BY IdleTyped, PathFacts DEF Scans, ScanStage
  <2> QED
    BY <1>1, <2>1 DEF StartFolderScanner, watchVars, FileTyped, RowsTyped, AdmittedTyped,
       EventsTyped, HandlerTyped, ScanTyped
<1>2. CASE RecordListedFile
  <2>1. /\ scan.content \in Content /\ scan.path \in Path \cup {NoPath}
        /\ scan.left \in SUBSET Path /\ scan.fresh \in SUBSET Content
    BY <1>2 DEF RecordListedFile, ScanTyped, Scans
  <2>2. RowsTyped'
    BY <1>2, <2>1 DEF RecordListedFile, CreatePhotoRecord, RowsTyped
  <2>3. PICK f \in SUBSET Content :
          scan' = [IdleScan EXCEPT !.at = "walking", !.left = scan.left, !.fresh = f]
    BY <1>2, <2>1 DEF RecordListedFile
  <2>4. ScanTyped'
    BY <2>1, <2>3, IdleTyped DEF Scans, ScanStage, ScanTyped
  <2> QED
    BY <1>2, <2>2, <2>4 DEF RecordListedFile, watchVars, FileTyped, AdmittedTyped, EventsTyped,
       HandlerTyped
<1>3. CASE EndScan
  BY <1>3, IdleTyped DEF EndScan, watchVars, FileTyped, RowsTyped, AdmittedTyped, EventsTyped,
     HandlerTyped, ScanTyped
<1>4. ASSUME NEW p \in Path, CheckListedFile(p) PROVE Typed'
  <2> DEFINE rest == [scan EXCEPT !.left = @ \ {p}]
             new == [rest EXCEPT !.at = "new", !.path = p, !.content = file[p]]
  <2>1. rest \in Scans
    BY <1>4 DEF CheckListedFile, ScanTyped, Scans
  <2>2. file[p] # NoContent => new \in Scans
    BY <2>1 DEF FileTyped, Scans, ScanStage
  <2>3. \/ scan' = rest
        \/ file[p] # NoContent /\ scan' = new
    BY <1>4 DEF CheckListedFile
  <2> HIDE DEF rest, new
  <2>4. ScanTyped'
    BY <2>1, <2>2, <2>3 DEF ScanTyped
  <2> QED
    BY <1>4, <2>4 DEF CheckListedFile, watchVars, FileTyped, RowsTyped, AdmittedTyped,
       EventsTyped, HandlerTyped
<1>5. ASSUME NEW c \in Content, AdmitListed(c) PROVE Typed'
  <2>1. [scan EXCEPT !.fresh = @ \ {c}] \in Scans
    BY <1>5 DEF AdmitListed, ScanTyped, Scans
  <2>2. AdmittedTyped'
    BY <1>5 DEF AdmitListed, EnqueuePhotoRun, AdmittedTyped
  <2> QED
    BY <1>5, <2>1, <2>2 DEF AdmitListed, watchVars, FileTyped, RowsTyped, EventsTyped,
       HandlerTyped, ScanTyped
<1>6. CASE ListedRaises
  <2>1. scan' \in Scans
    <3>1. CASE scan.at = "new"
      <4>1. scan' = [IdleScan EXCEPT !.at = "walking", !.left = scan.left, !.fresh = scan.fresh]
        BY <1>6, <3>1 DEF ListedRaises
      <4>2. scan.left \in SUBSET Path /\ scan.fresh \in SUBSET Content
        BY DEF ScanTyped, Scans
      <4> QED BY <4>1, <4>2, IdleTyped DEF Scans, ScanStage
    <3>2. CASE scan.at # "new"
      <4>1. PICK p \in Path : scan' = [scan EXCEPT !.left = @ \ {p}]
        BY <1>6, <3>2 DEF ListedRaises, ScanTyped, Scans
      <4> QED BY <4>1 DEF ScanTyped, Scans
    <3> QED BY <3>1, <3>2
  <2> QED
    BY <1>6, <2>1 DEF ListedRaises, watchVars, FileTyped, RowsTyped, AdmittedTyped, EventsTyped,
       HandlerTyped, ScanTyped
<1>7. CASE ListedAdmitRaises
  BY <1>7, IdleTyped DEF ListedAdmitRaises, watchVars, FileTyped, RowsTyped, AdmittedTyped,
     EventsTyped, HandlerTyped, ScanTyped
<1> QED BY <1>1, <1>2, <1>3, <1>4, <1>5, <1>6, <1>7 DEF Scan

\* Every other action, and a kill, too; so typing is inductive by itself.
LEMMA TypedStep == ASSUME Typed, [Next]_vars PROVE Typed'
<1>1. CASE UNCHANGED vars
  BY <1>1 DEF vars, watchVars, scanVars, Typed, FileTyped, RowsTyped, AdmittedTyped, EventsTyped,
     HandlerTyped, ScanTyped
<1>2. ASSUME NEW p \in Incoming, NEW c \in Content, Drop(p, c) PROVE Typed'
  <2>1. FileTyped'
    BY <1>2, PathFacts DEF Drop, Typed, FileTyped
  <2>2. EventsTyped'
    <3>1. WatcherOf[p] \in Watcher
      BY IntakeAssumption
    <3>2. Append(events[WatcherOf[p]], p) \in Seq(Incoming)
      BY <3>1 DEF Typed, EventsTyped
    <3> QED BY <1>2, <3>2 DEF Drop, Typed, EventsTyped
  <2> QED
    BY <1>2, <2>1, <2>2 DEF Drop, scanVars, Typed, RowsTyped, AdmittedTyped, HandlerTyped, ScanTyped
<1>3. CASE \E w \in Watcher : Watch(w)
  BY <1>3, TypedWatch
<1>4. CASE RequestScan
  BY <1>4 DEF RequestScan, watchVars, Typed, FileTyped, RowsTyped, AdmittedTyped, EventsTyped,
     HandlerTyped, ScanTyped
<1>5. CASE Scan
  BY <1>5, TypedScan
<1>6. CASE Kill
  BY <1>6, IdleTyped DEF Kill, Typed, FileTyped, RowsTyped, AdmittedTyped, EventsTyped,
     HandlerTyped, ScanTyped
<1> QED BY <1>1, <1>2, <1>3, <1>4, <1>5, <1>6 DEF Next

\* Kills are counted down.
LEMMA KillsStep ==
  ASSUME killsLeft \in 0..MaxKills, [Next]_vars PROVE (killsLeft \in 0..MaxKills)'
<1>1. CASE Kill
  BY <1>1, IntakeAssumption DEF Kill
<1>2. CASE ~Kill
  <2>1. killsLeft' = killsLeft
    BY <1>2 DEF Next, Watch, Scan, Drop, FileNotReady, CheckNewFile, MovePhoto, RecordPhoto,
       AdmitPhoto, RequestScan, StartFolderScanner, CheckListedFile, RecordListedFile,
       AdmitListed, EndScan, CheckRaises, RecordRaises, AdmitRaises, ListedRaises,
       ListedAdmitRaises, vars, userVars
  <2> QED BY <2>1
<1> QED BY <1>1, <1>2

--------------------------------------------------------------------------------
(* Producers on their way *)

\* A step that touches no row, no admission and no producer on its way.
Quiet ==
    /\ photo' = photo /\ admitted' = admitted /\ killsLeft' = killsLeft
    /\ scan'.fresh = scan.fresh
    /\ stranded \subseteq stranded'
    /\ \A w \in Watcher, c \in Content : Holds(w, c)' <=> Holds(w, c)

\* Quiet steps keep the count of producers.
LEMMA QuietStep ==
  ASSUME OneProducer, NoneLost, Quiet PROVE OneProducer' /\ NoneLost'
<1>1. \A c \in Content : OnTheWay(c)' <=> OnTheWay(c)
  BY DEF Quiet, OnTheWay, Holds
<1>2. OneProducer'
  BY <1>1 DEF Quiet, OneProducer
<1>3. NoneLost'
  BY <1>1 DEF Quiet, NoneLost
<1> QED BY <1>2, <1>3

\* The watcher that inserts a row becomes its only producer.
LEMMA RecordPhotoStep ==
  ASSUME Typed, OneProducer, NoneLost, NEW w \in Watcher, RecordPhoto(w)
  PROVE OneProducer' /\ NoneLost'
<1> PICK k \in Content : k = handler[w].content
  BY DEF RecordPhoto, Typed, HandlerTyped, Handlers
<1>1. handler[w].path # NoRow
  BY PathFacts DEF RecordPhoto, Typed, HandlerTyped, Handlers
<1>2. CASE handler' = [handler EXCEPT ![w] = IdleHandler] /\ UNCHANGED photo
  <2>1. Quiet
    BY <1>2 DEF RecordPhoto, Quiet, Holds, IdleHandler, scanVars, userVars, faultVars,
       Typed, HandlerTyped
  <2> QED BY <2>1, QuietStep
<1>3. CASE /\ CreatePhotoRecord(k, handler[w].path)
           /\ handler' = [handler EXCEPT ![w].at = "recorded"]
  <2>1. /\ photo[k] = NoRow /\ photo'[k] # NoRow
        /\ \A c \in Content : c # k => photo'[c] = photo[c]
    BY <1>1, <1>3 DEF CreatePhotoRecord, Typed, RowsTyped
  <2>2. /\ admitted' = admitted /\ scan' = scan /\ killsLeft' = killsLeft
        /\ stranded' = stranded
    BY DEF RecordPhoto, scanVars, userVars, faultVars
  <2>3. \A c \in Content : ~Holds(w, c)
    BY DEF RecordPhoto, Holds
  <2>4. Holds(w, k)' /\ \A c \in Content : c # k => ~Holds(w, c)'
    BY <1>3 DEF Holds, Typed, HandlerTyped
  <2>5. \A v \in Watcher, c \in Content : v # w => (Holds(v, c)' <=> Holds(v, c))
    BY <1>3 DEF Holds, Typed, HandlerTyped
  <2>6. /\ admitted[k] = 0 /\ k \notin scan.fresh
        /\ \A v \in Watcher : ~Holds(v, k)
    BY <1>1, <2>1 DEF OneProducer, OnTheWay, Holds
  <2>7. /\ OnTheWay(k)'
        /\ \A c \in Content : c # k => (OnTheWay(c)' <=> OnTheWay(c))
    <3>1. ASSUME NEW c \in Content
          PROVE  OnTheWay(c) <=> (c \in scan.fresh \/ \E v \in Watcher : Holds(v, c))
      BY DEF OnTheWay, Holds
    <3>2. ASSUME NEW c \in Content
          PROVE  OnTheWay(c)' <=> (c \in scan'.fresh \/ \E v \in Watcher : Holds(v, c)')
      BY DEF OnTheWay, Holds
    <3> QED BY <2>2, <2>3, <2>4, <2>5, <3>1, <3>2
  <2>8. OneProducer'
    BY <1>1, <2>1, <2>2, <2>3, <2>4, <2>5, <2>6, <2>7 DEF OneProducer
  <2>9. NoneLost'
    BY <1>1, <2>1, <2>2, <2>7 DEF NoneLost
  <2> QED BY <2>8, <2>9
<1> QED BY <1>2, <1>3 DEF RecordPhoto

\* The scan that inserts a row becomes its only producer.
LEMMA RecordListedStep ==
  ASSUME Typed, OneProducer, NoneLost, RecordListedFile
  PROVE OneProducer' /\ NoneLost'
<1> PICK k \in Content : k = scan.content
  BY DEF RecordListedFile, Typed, ScanTyped, Scans
<1>1. scan.path # NoRow
  BY PathFacts DEF RecordListedFile, Typed, ScanTyped, Scans
<1>2. /\ admitted' = admitted /\ handler' = handler /\ killsLeft' = killsLeft
      /\ stranded' = stranded
      /\ \A v \in Watcher, c \in Content : Holds(v, c)' <=> Holds(v, c)
  BY DEF RecordListedFile, watchVars, userVars, faultVars, Holds
<1>3. CASE photo' = photo /\ scan'.fresh = scan.fresh
  BY <1>2, <1>3, QuietStep DEF Quiet
<1>4. CASE CreatePhotoRecord(k, scan.path) /\ scan'.fresh = scan.fresh \cup {k}
  <2>1. /\ photo[k] = NoRow /\ photo'[k] # NoRow
        /\ \A c \in Content : c # k => photo'[c] = photo[c]
    BY <1>1, <1>4 DEF CreatePhotoRecord, Typed, RowsTyped
  <2>2. /\ admitted[k] = 0 /\ k \notin scan.fresh
        /\ \A v \in Watcher : ~Holds(v, k)
    BY <1>1, <2>1 DEF OneProducer, OnTheWay, Holds
  <2>3. /\ OnTheWay(k)'
        /\ \A c \in Content : c # k => (OnTheWay(c)' <=> OnTheWay(c))
    BY <1>1, <1>2, <1>4 DEF OnTheWay
  <2>4. OneProducer'
    BY <1>1, <1>2, <1>4, <2>1, <2>2, <2>3 DEF OneProducer
  <2>5. NoneLost'
    BY <1>1, <1>2, <2>1, <2>3 DEF NoneLost
  <2> QED BY <2>4, <2>5
<1>5. \/ photo' = photo /\ scan'.fresh = scan.fresh
      \/ CreatePhotoRecord(k, scan.path) /\ scan'.fresh = scan.fresh \cup {k}
  BY DEF RecordListedFile, IdleScan
<1> QED BY <1>3, <1>4, <1>5

\* The only producer of a content ends its way with the admission.
LEMMA AdmitStep ==
  ASSUME Typed, OneProducer, NoneLost, NEW k \in Content,
         OnTheWay(k), ~OnTheWay(k)',
         EnqueuePhotoRun(k), photo' = photo, killsLeft' = killsLeft,
         \A c \in Content : c # k => (OnTheWay(c)' <=> OnTheWay(c)),
         \A v \in Watcher, c \in Content : Holds(v, c)' => Holds(v, c),
         scan'.fresh \subseteq scan.fresh, stranded' = stranded
  PROVE OneProducer' /\ NoneLost'
<1>1. photo[k] # NoRow /\ admitted[k] = 0
  BY DEF OneProducer
<1>2. admitted'[k] = 1 /\ \A c \in Content : c # k => admitted'[c] = admitted[c]
  BY <1>1 DEF EnqueuePhotoRun, Typed, AdmittedTyped
<1>3. OneProducer'
  BY <1>1, <1>2 DEF OneProducer
<1>4. NoneLost'
  BY <1>2 DEF NoneLost
<1> QED BY <1>3, <1>4

\* An admission that raises takes its producers off the way, and says so.
LEMMA LostStep ==
  ASSUME OneProducer, NoneLost,
         photo' = photo, admitted' = admitted, killsLeft' = killsLeft,
         \A c \in Content : OnTheWay(c)' => OnTheWay(c),
         \A c \in Content : OnTheWay(c) => OnTheWay(c)' \/ c \in stranded',
         \A v \in Watcher, c \in Content : Holds(v, c)' => Holds(v, c),
         scan'.fresh \subseteq scan.fresh, stranded \subseteq stranded'
  PROVE OneProducer' /\ NoneLost'
<1>1. OneProducer'
  BY DEF OneProducer
<1>2. NoneLost'
  BY DEF NoneLost
<1> QED BY <1>1, <1>2

\* A watcher thread keeps the count of producers, whichever step it takes.
LEMMA CountedWatch ==
  ASSUME Typed, OneProducer, NoneLost, NEW w \in Watcher, Watch(w)
  PROVE OneProducer' /\ NoneLost'
<1>1. CASE FileNotReady(w)
  BY <1>1, QuietStep DEF FileNotReady, Quiet, Holds, scanVars, userVars,
     faultVars
<1>2. CASE CheckNewFile(w)
  <2> DEFINE h == [at |-> "new", path |-> Head(events[w]), content |-> file[Head(events[w])]]
  <2>1. /\ handler[w].at = "idle"
        /\ handler' = handler \/ handler' = [handler EXCEPT ![w] = h]
    BY <1>2 DEF CheckNewFile, IdleHandler
  <2>2. \A v \in Watcher, c \in Content : Holds(v, c)' <=> Holds(v, c)
    BY <2>1 DEF Holds, Typed, HandlerTyped
  <2> QED BY <1>2, <2>2, QuietStep DEF CheckNewFile, Quiet, scanVars, userVars, faultVars
<1>3. CASE MovePhoto(w)
  <2>1. handler[w].at = "new" /\ handler[w] \in Handlers
    BY <1>3 DEF MovePhoto, Typed, HandlerTyped
  <2>2. \A v \in Watcher, c \in Content : Holds(v, c)' <=> Holds(v, c)
    BY <1>3, <2>1 DEF MovePhoto, Holds, Typed, HandlerTyped, Handlers
  <2> QED BY <1>3, <2>2, QuietStep DEF MovePhoto, Quiet, scanVars, userVars, faultVars
<1>4. CASE RecordPhoto(w)
  BY <1>4, RecordPhotoStep
<1>5. CASE AdmitPhoto(w)
  <2> PICK k \in Content : k = handler[w].content
    BY <1>5 DEF AdmitPhoto, Typed, HandlerTyped, Handlers
  <2>1. /\ EnqueuePhotoRun(k) /\ photo' = photo /\ killsLeft' = killsLeft /\ scan' = scan
        /\ Holds(w, k) /\ stranded' = stranded
    BY <1>5 DEF AdmitPhoto, scanVars, userVars, faultVars, Holds
  <2>2. \A c \in Content : ~Holds(w, c)' /\ (c # k => ~Holds(w, c))
    BY <1>5 DEF AdmitPhoto, Holds, IdleHandler, Typed, HandlerTyped
  <2>3. \A v \in Watcher, c \in Content : v # w => (Holds(v, c)' <=> Holds(v, c))
    BY <1>5 DEF AdmitPhoto, Holds, Typed, HandlerTyped
  <2>4. ASSUME NEW c \in Content
        PROVE  OnTheWay(c) <=> (c \in scan.fresh \/ \E v \in Watcher : Holds(v, c))
    BY DEF OnTheWay, Holds
  <2>5. ASSUME NEW c \in Content
        PROVE  OnTheWay(c)' <=> (c \in scan'.fresh \/ \E v \in Watcher : Holds(v, c)')
    BY DEF OnTheWay, Holds
  <2>6. OnTheWay(k)
    BY <2>1, <2>4
  <2>7. k \notin scan.fresh /\ \A v \in Watcher : Holds(v, k) => v = w
    BY <2>1 DEF OneProducer
  <2>8. ~OnTheWay(k)'
    BY <2>1, <2>2, <2>3, <2>5, <2>7
  <2>9. \A c \in Content : c # k => (OnTheWay(c)' <=> OnTheWay(c))
    BY <2>1, <2>2, <2>3, <2>4, <2>5
  <2>10. \A v \in Watcher, c \in Content : Holds(v, c)' => Holds(v, c)
    BY <2>2, <2>3
  <2>11. scan'.fresh \subseteq scan.fresh
    BY <2>1
  <2> QED BY <2>1, <2>6, <2>8, <2>9, <2>10, <2>11, AdmitStep
<1>6. CASE CheckRaises(w)
  BY <1>6, QuietStep DEF CheckRaises, Raised, Quiet, Holds, scanVars, userVars
<1>7. CASE RecordRaises(w)
  <2>1. \A v \in Watcher, c \in Content : Holds(v, c)' <=> Holds(v, c)
    BY <1>7 DEF RecordRaises, Holds, IdleHandler, Typed, HandlerTyped
  <2> QED BY <1>7, <2>1, QuietStep DEF RecordRaises, Raised, Quiet, scanVars, userVars
<1>8. CASE AdmitRaises(w)
  <2>1. /\ photo' = photo /\ admitted' = admitted /\ killsLeft' = killsLeft /\ scan' = scan
        /\ stranded' = stranded \cup {handler[w].content}
    BY <1>8 DEF AdmitRaises, Raised, scanVars, userVars
  <2>2. \A c \in Content : ~Holds(w, c)' /\ (Holds(w, c) => c \in stranded')
    BY <1>8, <2>1 DEF AdmitRaises, Holds, IdleHandler, Typed, HandlerTyped
  <2>3. \A v \in Watcher, c \in Content : v # w => (Holds(v, c)' <=> Holds(v, c))
    BY <1>8 DEF AdmitRaises, Holds, Typed, HandlerTyped
  <2>4. ASSUME NEW c \in Content
        PROVE  OnTheWay(c) <=> (c \in scan.fresh \/ \E v \in Watcher : Holds(v, c))
    BY DEF OnTheWay, Holds
  <2>5. ASSUME NEW c \in Content
        PROVE  OnTheWay(c)' <=> (c \in scan'.fresh \/ \E v \in Watcher : Holds(v, c)')
    BY DEF OnTheWay, Holds
  <2>6. \A c \in Content : /\ OnTheWay(c)' => OnTheWay(c)
                           /\ OnTheWay(c) => OnTheWay(c)' \/ c \in stranded'
    BY <2>1, <2>2, <2>3, <2>4, <2>5
  <2>7. \A v \in Watcher, c \in Content : Holds(v, c)' => Holds(v, c)
    BY <2>2, <2>3
  <2> QED BY <2>1, <2>6, <2>7, LostStep
<1> QED BY <1>1, <1>2, <1>3, <1>4, <1>5, <1>6, <1>7, <1>8 DEF Watch

\* So does the scan worker.
LEMMA CountedScan ==
  ASSUME Typed, OneProducer, NoneLost, Scan PROVE OneProducer' /\ NoneLost'
<1>1. CASE StartFolderScanner
  BY <1>1, QuietStep DEF StartFolderScanner, Quiet, Holds, IdleScan, watchVars, userVars, faultVars
<1>2. CASE RecordListedFile
  BY <1>2, RecordListedStep
<1>3. CASE EndScan
  BY <1>3, QuietStep DEF EndScan, Quiet, Holds, IdleScan, watchVars, userVars, faultVars
<1>4. ASSUME NEW p \in Path, CheckListedFile(p) PROVE OneProducer' /\ NoneLost'
  <2>1. scan'.fresh = scan.fresh
    BY <1>4 DEF CheckListedFile, Typed, ScanTyped, Scans
  <2> QED BY <1>4, <2>1, QuietStep DEF CheckListedFile, Quiet, Holds, watchVars, userVars,
     faultVars
<1>5. ASSUME NEW k \in Content, AdmitListed(k) PROVE OneProducer' /\ NoneLost'
  <2>1. /\ EnqueuePhotoRun(k) /\ photo' = photo /\ killsLeft' = killsLeft /\ handler' = handler
        /\ k \in scan.fresh /\ stranded' = stranded
    BY <1>5 DEF AdmitListed, watchVars, userVars, faultVars
  <2>2. scan'.fresh = scan.fresh \ {k}
    BY <1>5 DEF AdmitListed, Typed, ScanTyped, Scans
  <2>3. \A v \in Watcher, c \in Content : Holds(v, c)' <=> Holds(v, c)
    BY <2>1 DEF Holds
  <2>4. \A v \in Watcher : ~Holds(v, k)
    BY <2>1 DEF OneProducer
  <2>5. OnTheWay(k) /\ ~OnTheWay(k)'
    BY <2>1, <2>2, <2>4 DEF OnTheWay, Holds
  <2>6. \A c \in Content : c # k => (OnTheWay(c)' <=> OnTheWay(c))
    BY <2>1, <2>2 DEF OnTheWay
  <2> QED BY <2>1, <2>2, <2>3, <2>5, <2>6, AdmitStep
<1>6. CASE ListedRaises
  <2>1. scan'.fresh = scan.fresh
    BY <1>6 DEF ListedRaises, IdleScan, Typed, ScanTyped, Scans
  <2> QED BY <1>6, <2>1, QuietStep DEF ListedRaises, Raised, Quiet, Holds, watchVars, userVars
<1>7. CASE ListedAdmitRaises
  <2>1. /\ photo' = photo /\ admitted' = admitted /\ killsLeft' = killsLeft /\ handler' = handler
        /\ scan'.fresh = {} /\ stranded' = stranded \cup scan.fresh
    BY <1>7 DEF ListedAdmitRaises, Raised, IdleScan, watchVars, userVars
  <2>2. \A c \in Content : /\ OnTheWay(c)' => OnTheWay(c)
                           /\ OnTheWay(c) => OnTheWay(c)' \/ c \in stranded'
    BY <2>1 DEF OnTheWay
  <2>3. \A v \in Watcher, c \in Content : Holds(v, c)' => Holds(v, c)
    BY <2>1 DEF Holds
  <2> QED BY <2>1, <2>2, <2>3, LostStep
<1> QED BY <1>1, <1>2, <1>3, <1>4, <1>5, <1>6, <1>7 DEF Scan

\* And so do the user and a kill, which loses the producers on their way.
LEMMA CountedStep ==
  ASSUME Typed, killsLeft \in 0..MaxKills, OneProducer, NoneLost, [Next]_vars
  PROVE OneProducer' /\ NoneLost'
<1>1. CASE UNCHANGED vars
  BY <1>1, QuietStep DEF vars, watchVars, scanVars, userVars, faultVars, Quiet, Holds
<1>2. ASSUME NEW p \in Incoming, NEW c \in Content, Drop(p, c) PROVE OneProducer' /\ NoneLost'
  BY <1>2, QuietStep DEF Drop, scanVars, faultVars, Quiet, Holds
<1>3. CASE \E w \in Watcher : Watch(w)
  BY <1>3, CountedWatch
<1>4. CASE RequestScan
  BY <1>4, QuietStep DEF RequestScan, watchVars, faultVars, Quiet, Holds
<1>5. CASE Scan
  BY <1>5, CountedScan
<1>6. CASE Kill
  <2>1. \A c \in Content : ~OnTheWay(c)' /\ \A w \in Watcher : ~Holds(w, c)'
    BY <1>6 DEF Kill, OnTheWay, Holds, IdleHandler, IdleScan
  <2>2. OneProducer'
    <3>1. photo' = photo /\ admitted' = admitted /\ scan'.fresh = {}
      BY <1>6 DEF Kill, IdleScan
    <3> QED BY <2>1, <3>1 DEF OneProducer
  <2>3. NoneLost'
    BY <1>6, IntakeAssumption DEF Kill, NoneLost
  <2> QED BY <2>2, <2>3
<1> QED BY <1>1, <1>2, <1>3, <1>4, <1>5, <1>6 DEF Next

--------------------------------------------------------------------------------
(* The theorems *)

\* The program starts with no row, no admission and nobody on the way.
LEMMA InitInv == Init => IntakeInv
<1> SUFFICES ASSUME Init PROVE IntakeInv
  OBVIOUS
<1>1. Typed
  BY IdleTyped DEF Init, Typed, FileTyped, RowsTyped, AdmittedTyped, EventsTyped, HandlerTyped,
     ScanTyped
<1>2. killsLeft \in 0..MaxKills
  BY IntakeAssumption DEF Init
<1>3. OneProducer
  BY DEF Init, OneProducer, OnTheWay, Holds, IdleHandler, IdleScan
<1>4. NoneLost
  BY DEF Init, NoneLost
<1> QED BY <1>1, <1>2, <1>3, <1>4 DEF IntakeInv

\* The invariant behind the theorems: typed records, at most one producer on its
\* way per picture (unique photo hash, on_created and start_folder_scanner_task),
\* and none lost unless its admission raised or the application was killed.
THEOREM IntakeInvariance == Spec => []IntakeInv
<1>1. IntakeInv /\ [Next]_vars => IntakeInv'
  BY TypedStep, KillsStep, CountedStep DEF IntakeInv
<1> QED BY InitInv, <1>1, PTL DEF Spec

\* What the typing of producers leaves out: files dropped, duplicates, requests, what raised
\* and bounds.
Rest == /\ given \in SUBSET Content /\ stranded \in SUBSET Content
        /\ faultsLeft \in Nat /\ faultsLeft <= MaxFaults
        /\ dropped \in SUBSET Incoming /\ duplicates \in SUBSET (Content \X Path)
        /\ requests \in Nat /\ scansLeft \in Nat /\ requests + scansLeft <= MaxScans

\* An exception is counted and leaves its mark, and nothing else of this.
LEMMA RaisedRest ==
  ASSUME Rest, NEW G \in SUBSET Content, NEW S \in SUBSET Content, Raised(G, S),
         UNCHANGED <<dropped, duplicates, requests, scansLeft>>
  PROVE  Rest'
  BY IntakeAssumption DEF Rest, Raised

LEMMA RestStep == ASSUME Typed, Rest, [Next]_vars PROVE Rest'
<1>1. CASE UNCHANGED vars
  BY <1>1 DEF vars, watchVars, scanVars, userVars, faultVars, Rest
<1>2. ASSUME NEW p \in Incoming, NEW c \in Content, Drop(p, c) PROVE Rest'
  BY <1>2 DEF Drop, scanVars, faultVars, Rest
<1>3. ASSUME NEW w \in Watcher, Watch(w) PROVE Rest'
  <2>1. CASE CheckNewFile(w)
    <3>1. Head(events[w]) \in Incoming
      BY <2>1 DEF CheckNewFile, Typed, EventsTyped
    <3>2. file[Head(events[w])] # NoContent
      BY <2>1 DEF CheckNewFile
    <3>3. file[Head(events[w])] \in Content /\ Head(events[w]) \in Path
      BY <3>1, <3>2, PathFacts DEF Typed, FileTyped
    <3>4. duplicates' \in SUBSET (Content \X Path)
      BY <2>1, <3>3 DEF CheckNewFile, WithDuplicate, Rest
    <3> QED
      BY <2>1, <3>4 DEF CheckNewFile, scanVars, userVars, faultVars, Rest
  <2>2. CASE CheckRaises(w)
    <3>1. Head(events[w]) \in Path
      BY <2>2, PathFacts DEF CheckRaises, Typed, EventsTyped
    <3>2. {file[Head(events[w])]} \ {NoContent} \subseteq Content
      BY <3>1 DEF Typed, FileTyped
    <3> QED
      BY <2>2, <3>2, RaisedRest DEF CheckRaises, scanVars, userVars
  <2>3. CASE RecordRaises(w) \/ AdmitRaises(w)
    <3>1. handler[w].content \in Content
      BY <2>3 DEF RecordRaises, AdmitRaises, Typed, HandlerTyped, Handlers
    <3> QED
      BY <2>3, <3>1, RaisedRest DEF RecordRaises, AdmitRaises, scanVars, userVars
  <2> QED
    BY <1>3, <2>1, <2>2, <2>3 DEF Watch, FileNotReady, MovePhoto, RecordPhoto, AdmitPhoto, scanVars,
       userVars, faultVars, Rest
<1>4. CASE RequestScan
  BY <1>4 DEF RequestScan, faultVars, Rest
<1>5. CASE Scan
  <2>1. ASSUME NEW p \in Path, CheckListedFile(p) PROVE Rest'
    <3>1. file[p] # NoContent => file[p] \in Content
      BY DEF Typed, FileTyped
    <3>2. duplicates' \in SUBSET (Content \X Path)
      BY <2>1, <3>1 DEF CheckListedFile, WithDuplicate, Rest
    <3> QED
      BY <2>1, <3>2 DEF CheckListedFile, userVars, faultVars, Rest
  <2>2. CASE StartFolderScanner
    BY <2>2, IntakeAssumption DEF StartFolderScanner, userVars, faultVars, Rest
  <2>3. ASSUME NEW c \in Content, AdmitListed(c) PROVE Rest'
    BY <2>3 DEF AdmitListed, userVars, faultVars, Rest
  <2>4. CASE ListedRaises
    <3>1. PICK G \in SUBSET Content : Raised(G, {})
      <4>1. scan.at = "new" => scan.content \in Content
        BY DEF Typed, ScanTyped, Scans
      <4>2. \A p \in scan.left : {file[p]} \ {NoContent} \subseteq Content
        BY DEF Typed, FileTyped, ScanTyped, Scans
      <4> QED BY <2>4, <4>1, <4>2 DEF ListedRaises
    <3> QED BY <2>4, <3>1, RaisedRest DEF ListedRaises, userVars
  <2>5. CASE ListedAdmitRaises
    <3>1. scan.fresh \in SUBSET Content
      BY DEF Typed, ScanTyped, Scans
    <3> QED BY <2>5, <3>1, RaisedRest DEF ListedAdmitRaises, userVars
  <2> QED
    BY <1>5, <2>1, <2>2, <2>3, <2>4, <2>5 DEF Scan, RecordListedFile, EndScan, userVars, faultVars,
       Rest
<1>6. CASE Kill
  BY <1>6 DEF Kill, faultVars, Rest
<1> QED
  BY <1>1, <1>2, <1>3, <1>4, <1>5, <1>6 DEF Next

\* Every variable of the intake keeps its type; the requests waiting and those to come are
\* together no more than there were.
THEOREM IntakeTypeCorrect == Spec => []TypeOK
<1>1. Init => Rest
  BY IntakeAssumption DEF Init, Rest
<1>2. IntakeInv /\ Rest /\ [Next]_vars => Rest'
  BY RestStep DEF IntakeInv
<1>3. IntakeInv /\ Rest => TypeOK
  <2> SUFFICES ASSUME Typed, killsLeft \in 0..MaxKills, Rest
               PROVE  TypeOK
    BY DEF IntakeInv
  <2>1. handler \in [Watcher -> [at : HandlerStage, path : Path \cup {NoPath},
                                 content : Content \cup {NoContent}]]
    BY DEF Typed, HandlerTyped, Handlers
  <2>2. scan \in [at : ScanStage, left : SUBSET Path, fresh : SUBSET Content,
                  path : Path \cup {NoPath}, content : Content \cup {NoContent}]
    BY DEF Typed, ScanTyped, Scans
  <2>3. /\ requests \in 0..MaxScans /\ scansLeft \in 0..MaxScans
        /\ faultsLeft \in 0..MaxFaults
    BY IntakeAssumption DEF Rest
  <2> QED
    BY <2>1, <2>2, <2>3 DEF Typed, FileTyped, RowsTyped, AdmittedTyped, EventsTyped, Rest, TypeOK
<1> QED BY <1>1, <1>2, <1>3, IntakeInvariance, PTL DEF Spec

\* However many watcher threads and scans find a picture at the same time, its
\* first run is admitted at most once.
THEOREM OneAdmission == Spec => []AdmittedOnce
<1>1. IntakeInv => AdmittedOnce
  BY DEF IntakeInv, OneProducer, AdmittedOnce
<1> QED BY IntakeInvariance, <1>1, PTL

\* Only recorded photos are admitted, and a recorded photo is admitted or about to
\* be, unless that very admission raised or the application was killed.
THEOREM RowsAreFollowed == Spec => []AdmissionFollowsRow
<1>1. IntakeInv => AdmissionFollowsRow
  <2> SUFFICES ASSUME IntakeInv, NEW c \in Content
               PROVE  /\ admitted[c] > 0 => photo[c] # NoRow /\ ~OnTheWay(c)
                      /\ photo[c] # NoRow /\ admitted[c] = 0 /\ killsLeft = MaxKills =>
                            OnTheWay(c) \/ c \in stranded
    BY DEF AdmissionFollowsRow
  <2>1. admitted[c] > 0 => admitted[c] = 1
    BY DEF IntakeInv, OneProducer
  <2> QED BY <2>1 DEF IntakeInv, OneProducer, NoneLost
<1> QED BY IntakeInvariance, <1>1, PTL

================================================================================
