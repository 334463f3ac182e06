--------------------------- MODULE WsppHttpProofs ---------------------------
(***************************************************************************)
(* Proofs about the location handlers: for any settings, any files and any *)
(* changes of them, every request is answered, and in the order of the     *)
(* handlers and of their files.                                            *)
(***************************************************************************)
EXTENDS WsppHttp, FiniteSetTheorems, SequenceTheorems, TLAPS

\* run() puts the 404 handler at the end of the list.
LastIs404 == phase # "settings" =>
    /\ handlers # <<>>
    /\ handlers[Len(handlers)].kind = "404"

\* While a request is handled, the handlers and the files before the next
\* one have been asked: none of the files was there.
AskedInv == phase = "handling" =>
    /\ next.handler \in 1 .. Len(handlers)
    /\ \A i \in 1 .. next.handler - 1 :
          handlers[i].kind = "file" /\ handlers[i].location = request =>
             Files(handlers[i]) \subseteq missed
    /\ \A i \in 1 .. next.file - 1 : Handler.files[i] \in missed

\* Directories are read at start-up only, for an entry that has a location.
ReadInv == dirs # <<>> => phase = "settings" /\ loc \in Locations

IInv == TypeOK /\ LastIs404 /\ AskedInv /\ ReadInv

-----------------------------------------------------------------------------
\* The server starts with no handlers and no request.
LEMMA InitInv == Init => IInv
<1>. SUFFICES ASSUME Init PROVE IInv
  OBVIOUS
<1>1. settings \in Seq(Entries)
  BY HttpAssumption DEF Init
<1>2. next \in [handler : Nat \ {0}, file : Nat \ {0}]
  BY DEF Init
<1>3. response \in [status : {200, 404}, body : Paths \cup {NoPath, "app", "404"},
                    type : {"application/javascript", "text/css", "text/html", "none"},
                    gzip : BOOLEAN]
  BY DEF Init, NoResponse
<1>4. TypeOK
  BY <1>1, <1>2, <1>3, HttpAssumption DEF Init, TypeOK
<1>. QED
  BY <1>4 DEF Init, IInv, LastIs404, AskedInv, ReadInv

\* A function over 1 .. n is a sequence.
LEMMA FunctionIsSeq ==
    ASSUME NEW S, NEW n \in Nat, NEW f \in [1 .. n -> S]
    PROVE  f \in Seq(S)
<1>. QED
  BY SMT

\* The handlers made of entries of a directory are handlers of files.
LEMMA DirHandlers ==
    ASSUME TypeOK, loc \in Locations, NEW read \in SUBSET Paths, NEW order \in SetToSeqs(read)
    PROVE  HandlersOf(order) \in Seq(Handlers)
<1>1. Cardinality(read) \in Nat
  BY HttpAssumption, FS_Subset, FS_CardinalityType
<1>2. order \in [1 .. Cardinality(read) -> read]
  BY DEF SetToSeqs
<1>3. ASSUME NEW i \in 1 .. Cardinality(read)
      PROVE  FileHandler(Under[<<loc, order[i]>>], <<order[i]>>) \in Handlers
  <2>1. order[i] \in Paths
    BY <1>2
  <2>2. Under[<<loc, order[i]>>] \in Locations
    BY <2>1, HttpAssumption
  <2>. QED BY <2>1, <2>2 DEF FileHandler, Handlers
<1>. DEFINE n == Cardinality(read)
<1>4. DOMAIN order = 1 .. n
  BY <1>2
<1>5. HandlersOf(order) \in [1 .. n -> Handlers]
  BY <1>3, <1>4 DEF HandlersOf
<1>6. n \in Nat
  BY <1>1
<1>. HIDE DEF n
<1>. QED
  BY <1>5, <1>6, FunctionIsSeq

-----------------------------------------------------------------------------
(* The reading of the settings *)

\* Reading the settings keeps the invariant: only run() ends it.
LEMMA ConfigureInv == IInv /\ Configure => IInv'
<1>. SUFFICES ASSUME IInv, Configure PROVE IInv'
  OBVIOUS
<1>. USE DEF IInv
<1>1. /\ handlers \in Seq(Handlers) /\ settings \in Seq(Entries)
      /\ entry \in 1 .. Len(settings) + 1
  BY HttpAssumption DEF TypeOK
<1>2. ReadingEntry => Entry \in Entries
  BY <1>1 DEF ReadingEntry, Entry
<1>3. CASE FilesEntry
  <2>1. FileHandler(Entry.location, Entry.files) \in Handlers
    BY <1>2, <1>3 DEF FilesEntry, FileHandler, Handlers, Entries
  <2>2. handlers' \in Seq(Handlers)
    BY <1>1, <1>3, <2>1 DEF FilesEntry
  <2>3. entry' \in 1 .. Len(settings) + 1
    BY <1>1, <1>3 DEF FilesEntry, ReadingEntry, NextEntry
  <2>. QED
    BY <1>3, <2>2, <2>3 DEF FilesEntry, ReadingEntry, NextEntry, diskVars, requestVars,
                            TypeOK, LastIs404, AskedInv, ReadInv
<1>4. CASE DirsEntry
  <2>1. Entry.dirs \in Seq(Dirs) /\ Entry.location \in Locations
    BY <1>2, <1>4 DEF DirsEntry, Entries
  <2>2. entry' \in 1 .. Len(settings) + 1
    BY <1>1, <1>4 DEF DirsEntry, ReadingEntry, NextEntry
  <2>. QED
    BY <1>4, <2>1, <2>2 DEF DirsEntry, ReadingEntry, NextEntry, diskVars, requestVars,
                            TypeOK, LastIs404, AskedInv, ReadInv
<1>5. CASE InvalidEntry
  <2>1. entry' \in 1 .. Len(settings) + 1
    BY <1>1, <1>5 DEF InvalidEntry, ReadingEntry, NextEntry
  <2>. QED
    BY <1>5, <2>1 DEF InvalidEntry, ReadingEntry, NextEntry, diskVars, requestVars,
                      TypeOK, LastIs404, AskedInv, ReadInv
<1>6. CASE ReadDir \/ LockedDir
  <2>1. PICK read \in SUBSET There : \E order \in SetToSeqs(read) :
           handlers' = handlers \o HandlersOf(order)
    BY <1>6 DEF ReadDir, LockedDir
  <2>2. Head(dirs) \in Dirs /\ dirs' \in Seq(Dirs)
    <3>1. dirs \in Seq(Dirs) /\ dirs # <<>>
      BY <1>6 DEF ReadDir, LockedDir, TypeOK
    <3>2. dirs' = Tail(dirs) \/ dirs' = <<>>
      BY <1>6 DEF ReadDir, LockedDir
    <3>3. Head(dirs) \in Dirs /\ Tail(dirs) \in Seq(Dirs) /\ <<>> \in Seq(Dirs)
      BY <3>1, HeadTailProperties, EmptySeq
    <3>. QED
      BY <3>2, <3>3
  <2>3. phase = "settings" /\ loc \in Locations
    BY <1>6 DEF ReadDir, LockedDir, ReadInv
  <2>4. handlers' \in Seq(Handlers)
    <3>1. read \in SUBSET Paths
      BY <2>2, HttpAssumption DEF There
    <3>2. PICK order \in SetToSeqs(read) : handlers' = handlers \o HandlersOf(order)
      BY <2>1
    <3>3. HandlersOf(order) \in Seq(Handlers)
      BY <2>3, <3>1, DirHandlers
    <3>. QED
      BY <1>1, <3>2, <3>3
  <2>5. UNCHANGED <<settings, entry, loc, phase, diskVars, requestVars>>
    BY <1>6 DEF ReadDir, LockedDir
  <2>. QED
    BY <2>2, <2>3, <2>4, <2>5 DEF diskVars, requestVars, TypeOK, LastIs404, AskedInv, ReadInv
<1>7. CASE AddAppHandler
  <2>1. PICK location \in AppLocations : handlers' = Append(handlers, AppHandler(location))
    BY <1>7 DEF AddAppHandler
  <2>2. AppHandler(location) \in Handlers
    BY <2>1, HttpAssumption DEF AppHandler, Handlers
  <2>3. handlers' \in Seq(Handlers)
    BY <1>1, <2>1, <2>2
  <2>. QED
    BY <1>7, <2>3 DEF AddAppHandler, SettingsRead, diskVars, requestVars,
                      TypeOK, LastIs404, AskedInv, ReadInv
<1>8. CASE Run
  <2>1. NotFound \in Handlers
    BY DEF NotFound, Handlers
  <2>2. /\ handlers' \in Seq(Handlers) /\ handlers' # <<>>
        /\ handlers'[Len(handlers')] = NotFound
    BY <1>1, <1>8, <2>1, AppendProperties DEF Run
  <2>. QED
    BY <1>8, <2>2 DEF Run, SettingsRead, diskVars, requestVars, NotFound,
                      TypeOK, LastIs404, AskedInv, ReadInv
<1>. QED
  BY <1>3, <1>4, <1>5, <1>6, <1>7, <1>8 DEF Configure

-----------------------------------------------------------------------------
(* A request *)

\* What a step of the handling finds: a handler, and a file of it.
LEMMA AskedHandler ==
    ASSUME IInv, Asking
    PROVE  /\ Handler \in Handlers
           /\ next.handler \in 1 .. Len(handlers) /\ next.file \in Nat \ {0}
           /\ FilesLeft => Path \in Paths
<1>1. handlers \in Seq(Handlers) /\ next.handler \in DOMAIN handlers /\ next.file \in Nat \ {0}
  BY DEF IInv, TypeOK, Asking
<1>2. Handler \in Handlers
  BY <1>1 DEF Handler
<1>3. FilesLeft => Path \in Paths
  BY <1>2 DEF FilesLeft, Path, Handlers
<1>. QED
  BY <1>1, <1>2, <1>3

\* A new request starts at the first handler and file.
LEMMA OnHttpInv == IInv /\ OnHttp => IInv'
<1>. SUFFICES ASSUME IInv, OnHttp PROVE IInv'
  OBVIOUS
<1>. USE DEF IInv, OnHttp, configVars, diskVars
<1>1. Len(handlers) \in Nat /\ handlers # <<>> /\ handlers \in Seq(Handlers)
  BY DEF TypeOK, LastIs404
<1>2. next'.handler = 1 /\ next'.file = 1 /\ 1 \in 1 .. Len(handlers')
  BY <1>1
<1>3. next' \in [handler : Nat \ {0}, file : Nat \ {0}]
  OBVIOUS
<1>4. response' \in [status : {200, 404}, body : Paths \cup {NoPath, "app", "404"},
                     type : {"application/javascript", "text/css", "text/html", "none"},
                     gzip : BOOLEAN]
  BY DEF NoResponse
<1>5. TypeOK'
  BY <1>3, <1>4 DEF TypeOK
<1>. QED
  BY <1>2, <1>5 DEF LastIs404, AskedInv, ReadInv

\* A handler that does not handle the request is not the last.
LEMMA NotHandledStep ==
    ASSUME IInv, NotHandled
    PROVE  /\ next' = [handler |-> next.handler + 1, file |-> 1]
           /\ next.handler < Len(handlers)
           /\ UNCHANGED <<configVars, diskVars, phase, request, missed, response>>
           /\ Handler.kind = "file" /\ Handler.location = request =>
                 Files(Handler) \subseteq missed
<1>. USE DEF IInv
<1>1. Asking /\ phase = "handling" /\ Handler.kind # "404"
  BY DEF NotHandled, Asking
<1>2. /\ Handler \in Handlers /\ next.handler \in 1 .. Len(handlers)
      /\ next.file \in Nat \ {0} /\ handlers \in Seq(Handlers)
  BY <1>1, AskedHandler DEF TypeOK
<1>3. next.handler # Len(handlers)
  BY <1>1 DEF LastIs404, Handler
<1>4. /\ next' = [handler |-> next.handler + 1, file |-> 1]
      /\ UNCHANGED <<configVars, diskVars, phase, request, missed, response>>
  BY <1>3 DEF NotHandled, NextHandler
<1>5. ASSUME Handler.kind = "file", Handler.location = request
      PROVE  Files(Handler) \subseteq missed
  <2>1. next.file \notin DOMAIN Handler.files
    BY <1>5 DEF NotHandled, Concerned, FilesLeft
  <2>2. Handler.files \in Seq(Paths)
    BY <1>2 DEF Handlers
  <2>3. DOMAIN Handler.files \subseteq 1 .. next.file - 1
    BY <1>2, <2>1, <2>2
  <2>. QED
    BY <1>1, <2>3 DEF AskedInv, Files, ToSet
<1>. QED
  BY <1>2, <1>3, <1>4, <1>5

\* Every step of the handling keeps the invariant.
LEMMA HandleInv == IInv /\ HandleLocation => IInv'
<1>. SUFFICES ASSUME IInv, HandleLocation PROVE IInv'
  OBVIOUS
<1>. USE DEF IInv
<1>1. CASE NotHandled
  <2>1. /\ next' = [handler |-> next.handler + 1, file |-> 1]
        /\ next.handler < Len(handlers)
        /\ UNCHANGED <<configVars, diskVars, phase, request, missed, response>>
        /\ Handler.kind = "file" /\ Handler.location = request =>
              Files(Handler) \subseteq missed
    BY <1>1, NotHandledStep
  <2>2. /\ phase = "handling" /\ next.handler \in 1 .. Len(handlers) /\ Len(handlers) \in Nat
    BY <1>1, AskedHandler DEF NotHandled, Asking, TypeOK
  <2>3. next'.handler = next.handler + 1 /\ next'.file = 1
    BY <2>1
  <2>4. TypeOK'
    BY <2>1, <2>2 DEF TypeOK, configVars, diskVars
  <2>5. AskedInv'
    <3>1. next'.handler \in 1 .. Len(handlers)
      BY <2>1, <2>2, <2>3
    <3>2. ASSUME NEW i \in 1 .. next'.handler - 1,
                 handlers[i].kind = "file", handlers[i].location = request
          PROVE  Files(handlers[i]) \subseteq missed
      <4>1. CASE i = next.handler
        BY <2>1, <3>2, <4>1 DEF Handler
      <4>2. CASE i # next.handler
        <5>1. i \in 1 .. next.handler - 1
          BY <2>2, <2>3, <4>2
        <5>. QED BY <2>2, <3>2, <5>1 DEF AskedInv
      <4>. QED BY <4>1, <4>2
    <3>. QED
      BY <2>1, <2>3, <3>1, <3>2 DEF AskedInv, Files, configVars
  <2>. QED
    BY <2>1, <2>4, <2>5 DEF LastIs404, ReadInv, configVars
<1>2. CASE MissingFile
  <2>1. /\ phase = "handling" /\ Asking /\ FilesLeft
        /\ next' = [next EXCEPT !.file = @ + 1] /\ missed' = missed \cup {Path}
        /\ UNCHANGED <<configVars, diskVars, phase, request, response>>
    BY <1>2 DEF MissingFile, Asking
  <2>2. /\ next.handler \in 1 .. Len(handlers) /\ next.file \in Nat \ {0} /\ Path \in Paths
        /\ next \in [handler : Nat \ {0}, file : Nat \ {0}]
    BY <2>1, AskedHandler DEF TypeOK
  <2>3. next'.handler = next.handler /\ next'.file = next.file + 1
    BY <2>1, <2>2
  <2>4. TypeOK'
    BY <2>1, <2>2 DEF TypeOK, configVars, diskVars
  <2>5. AskedInv'
    <3>1. ASSUME NEW i \in 1 .. next'.file - 1 PROVE Handler.files[i] \in missed'
      <4>1. CASE i = next.file
        BY <2>1, <4>1 DEF Path
      <4>2. CASE i # next.file
        <5>1. i \in 1 .. next.file - 1
          BY <2>2, <2>3, <4>2
        <5>. QED BY <2>1, <5>1 DEF AskedInv
      <4>. QED BY <4>1, <4>2
    <3>2. Handler' = Handler
      BY <2>1, <2>3 DEF Handler, configVars
    <3>. QED
      BY <2>1, <2>2, <2>3, <3>1, <3>2 DEF AskedInv, Files, configVars
  <2>. QED
    BY <2>1, <2>4, <2>5 DEF LastIs404, ReadInv, configVars
<1>3. CASE ServeFile
  <2>1. Path \in Paths
    BY <1>3, AskedHandler DEF ServeFile
  <2>2. Gzip(Name[Path]) \in BOOLEAN
    BY DEF Gzip
  <2>3. ContentType(Name[Path]) \in {"application/javascript", "text/css", "text/html", "none"}
    BY DEF ContentType
  <2>4. response' \in [status : {200, 404}, body : Paths \cup {NoPath, "app", "404"},
                       type : {"application/javascript", "text/css", "text/html", "none"},
                       gzip : BOOLEAN]
    BY <1>3, <2>1, <2>2, <2>3 DEF ServeFile
  <2>. QED
    BY <1>3, <2>4 DEF ServeFile, Asking, configVars, diskVars,
                      TypeOK, LastIs404, AskedInv, ReadInv
<1>4. CASE Throws
  BY <1>4 DEF Throws, Asking, configVars, diskVars, requestVars,
              TypeOK, LastIs404, AskedInv, ReadInv
<1>5. CASE AppHandles
  <2>1. response' \in [status : {200, 404}, body : Paths \cup {NoPath, "app", "404"},
                       type : {"application/javascript", "text/css", "text/html", "none"},
                       gzip : BOOLEAN]
    BY <1>5 DEF AppHandles, NoResponse
  <2>. QED
    BY <1>5, <2>1 DEF AppHandles, Asking, configVars, diskVars,
                      TypeOK, LastIs404, AskedInv, ReadInv
<1>6. CASE Handle404
  <2>1. response' \in [status : {200, 404}, body : Paths \cup {NoPath, "app", "404"},
                       type : {"application/javascript", "text/css", "text/html", "none"},
                       gzip : BOOLEAN]
    <3>1. response' = [status |-> 404, body |-> "404", type |-> "none", gzip |-> FALSE]
      BY <1>6 DEF Handle404, NoResponse
    <3>. QED BY <3>1
  <2>. QED
    BY <1>6, <2>1 DEF Handle404, Asking, configVars, diskVars,
                      TypeOK, LastIs404, AskedInv, ReadInv
<1>. QED
  BY <1>1, <1>2, <1>3, <1>4, <1>5, <1>6 DEF HandleLocation

\* So does every step of the server and of the disk.
LEMMA NextInv == IInv /\ [Next]_vars => IInv'
<1>. SUFFICES ASSUME IInv, [Next]_vars PROVE IInv'
  OBVIOUS
<1>1. CASE DiskChanges
  <2>1. disk' \in [Paths -> {"file", "directory", "missing"}]
    BY <1>1 DEF DiskChanges, IInv, TypeOK
  <2>2. changes' \in 0 .. MaxChanges
    BY <1>1, HttpAssumption DEF DiskChanges, IInv, TypeOK
  <2>3. TypeOK'
    BY <1>1, <2>1, <2>2 DEF DiskChanges, configVars, requestVars, IInv, TypeOK
  <2>. QED
    BY <1>1, <2>3 DEF DiskChanges, configVars, requestVars, IInv, LastIs404,
                      AskedInv, ReadInv, Handler, Files
<1>2. CASE UNCHANGED vars
  BY <1>2 DEF vars, configVars, diskVars, requestVars, IInv, TypeOK, LastIs404,
              AskedInv, ReadInv, Handler, Files
<1>. QED
  BY <1>1, <1>2, ConfigureInv, OnHttpInv, HandleInv DEF Next, Stopped

-----------------------------------------------------------------------------
\* The inductive invariant holds in every reachable state.
THEOREM Invariance == Spec => []IInv
<1>. QED
  BY InitInv, NextInv, PTL DEF Spec

\* The handlers, the request and the response keep their types.
THEOREM TypeCorrect == Spec => []TypeOK
<1>1. IInv => TypeOK
  BY DEF IInv
<1>. QED
  BY <1>1, Invariance, PTL

\* While a request is handled the main thread is in HandleLocation, or the
\* disk changes under it.
LEMMA HandlingStep ==
    ASSUME IInv, Next, phase = "handling", phase' # "handling"
    PROVE  ServeFile \/ Throws \/ AppHandles \/ Handle404
<1>1. ~Configure
  BY DEF Configure, FilesEntry, DirsEntry, InvalidEntry, ReadDir, LockedDir, AddAppHandler, Run,
         ReadingEntry, SettingsRead, IInv, ReadInv
<1>2. ~OnHttp /\ ~DiskChanges /\ ~Stopped
  BY DEF OnHttp, DiskChanges, Stopped
<1>3. ~NotHandled
  BY NotHandledStep
<1>4. ~MissingFile
  BY DEF MissingFile
<1>. QED
  BY <1>1, <1>2, <1>3, <1>4 DEF Next, HandleLocation

\* No request gets the empty page of a response nobody has filled in.
THEOREM EveryRequestIsAnswered == Spec => AlwaysAnswered
<1>1. IInv /\ [Next]_vars =>
         [phase = "handling" /\ phase' = "idle" => response'.body # NoPath]_vars
  <2>. SUFFICES ASSUME IInv, Next, phase = "handling", phase' = "idle"
       PROVE response'.body # NoPath
    OBVIOUS
  <2>1. CASE ServeFile
    BY <2>1, AskedHandler, HttpAssumption DEF ServeFile
  <2>2. CASE AppHandles
    BY <2>2, HttpAssumption DEF AppHandles, NoResponse
  <2>3. CASE Handle404
    BY <2>3, HttpAssumption DEF Handle404, NoResponse
  <2>4. CASE Throws
    BY <2>4 DEF Throws
  <2>. QED
    BY <2>1, <2>2, <2>3, <2>4, HandlingStep
<1>. QED
  BY <1>1, Invariance, PTL DEF Spec, AlwaysAnswered

\* The answer is that of the first handler and file that was there.
THEOREM RequestsAreAnsweredInOrder == Spec => AnswersInOrder
<1>1. IInv /\ [Next]_vars =>
         [phase = "handling" /\ phase' # "handling" =>
            /\ \A i \in 1 .. next.handler - 1 :
                  handlers[i].kind = "file" /\ handlers[i].location = request =>
                     Files(handlers[i]) \subseteq missed
            /\ \A i \in 1 .. next.file - 1 : Handler.files[i] \in missed]_vars
  BY DEF IInv, AskedInv
<1>. QED
  BY <1>1, Invariance, PTL DEF Spec, AnswersInOrder

\* Only a directory or a name of less than seven characters makes on_http
\* throw.
THEOREM LongNamesDoNotThrow == Spec => LongNamesAreServed
<1>1. IInv /\ [Next]_vars =>
         [phase = "handling" /\ phase' = "threw" =>
            disk[Path] = "directory" \/ Name[Path].size < 7]_vars
  <2>. SUFFICES ASSUME IInv, Next, phase = "handling", phase' = "threw"
       PROVE disk[Path] = "directory" \/ Name[Path].size < 7
    OBVIOUS
  <2>1. Throws
    BY HandlingStep DEF ServeFile, AppHandles, Handle404
  <2>2. Name[Path].size \in Nat
    BY <2>1, AskedHandler, HttpAssumption DEF Throws
  <2>. QED
    BY <2>1, <2>2 DEF Throws, TooShort
<1>. QED
  BY <1>1, Invariance, PTL DEF Spec, LongNamesAreServed

-----------------------------------------------------------------------------
(* What a broken entry costs *)

Served(h) == h \in ToSet(handlers)

\* The files that directory n of an entry has had from the start
DirServed(e, n) == \A p \in InDir[e.dirs[n]] :
    disk[p] = "file" => Served(FileHandler(Under[<<e.location, p>>], <<p>>))

\* The directories still to read are the last of the entry read last.
RestInv == dirs # <<>> =>
    /\ entry - 1 \in DOMAIN settings
    /\ settings[entry - 1].location = loc /\ settings[entry - 1].files = <<>>
    /\ Len(dirs) <= Len(settings[entry - 1].dirs)
    /\ \A j \in 1 .. Len(dirs) :
          dirs[j] = settings[entry - 1].dirs[Len(settings[entry - 1].dirs) - Len(dirs) + j]

\* Directory n of entry i has been read or given up.
DirDone(i, n) == i = entry - 1 => n <= Len(settings[i].dirs) - Len(dirs)

\* The entries read so far have their handlers.
FilesServedInv == \A i \in 1 .. entry - 1 :
    settings[i].location # NoLocation /\ settings[i].files # <<>> =>
        Served(FileHandler(settings[i].location, settings[i].files))
DirsServedInv == changes = 0 => \A i \in 1 .. entry - 1 :
    settings[i].location # NoLocation /\ settings[i].files = <<>> =>
        \A n \in DOMAIN settings[i].dirs :
           DirDone(i, n) /\ (\A m \in 1 .. n : settings[i].dirs[m] \notin locked) =>
              DirServed(settings[i], n)

AllReadInv == phase # "settings" => dirs = <<>> /\ entry = Len(settings) + 1

ReadingInv == RestInv /\ FilesServedInv /\ DirsServedInv /\ AllReadInv

\* A longer list of handlers has those it had, and the new ones.
LEMMA MoreServed ==
    ASSUME handlers \in Seq(Handlers), NEW more \in Seq(Handlers), handlers' = handlers \o more
    PROVE  ToSet(handlers) \subseteq ToSet(handlers') /\ ToSet(more) \subseteq ToSet(handlers')
<1>1. \A i \in DOMAIN handlers : i \in DOMAIN handlers' /\ handlers'[i] = handlers[i]
  OBVIOUS
<1>2. \A i \in DOMAIN more : Len(handlers) + i \in DOMAIN handlers' /\ handlers'[Len(handlers) + i] = more[i]
  OBVIOUS
<1>. QED
  BY <1>1, <1>2 DEF ToSet

LEMMA OneMoreServed ==
    ASSUME handlers \in Seq(Handlers), NEW h \in Handlers, handlers' = Append(handlers, h)
    PROVE  ToSet(handlers) \subseteq ToSet(handlers') /\ h \in ToSet(handlers')
<1>1. <<h>> \in Seq(Handlers) /\ handlers' = handlers \o <<h>> /\ h \in ToSet(<<h>>)
  BY DEF ToSet
<1>. QED
  BY <1>1, MoreServed

\* What was served stays served while the handlers grow and nothing else that
\* the invariant is about changes.
LEMMA Growing ==
    ASSUME ReadingInv, ToSet(handlers) \subseteq ToSet(handlers'),
           UNCHANGED <<settings, entry, dirs, loc, disk, locked, changes>>,
           phase' # "settings" => dirs = <<>> /\ entry = Len(settings) + 1
    PROVE  ReadingInv'
<1>1. RestInv' /\ AllReadInv'  BY DEF ReadingInv, RestInv, AllReadInv
<1>2. FilesServedInv'  BY DEF ReadingInv, FilesServedInv, Served
<1>3. DirsServedInv'  BY DEF ReadingInv, DirsServedInv, DirDone, DirServed, Served
<1>. QED  BY <1>1, <1>2, <1>3 DEF ReadingInv

\* A directory that can be read gets a handler for each of its files.
LEMMA DirIsServed ==
    ASSUME TypeOK, Head(dirs) \in Dirs, NEW order \in SetToSeqs(There),
           NEW p \in InDir[Head(dirs)], disk[p] = "file"
    PROVE  FileHandler(Under[<<loc, p>>], <<p>>) \in ToSet(HandlersOf(order))
<1>. DEFINE there == There
            n == Cardinality(there)
<1>1. IsFiniteSet(there)
  <2>1. there \subseteq Paths  BY HttpAssumption DEF There
  <2>. QED  BY <2>1, HttpAssumption, FS_Subset
<1>2. n \in Nat  BY <1>1, FS_CardinalityType
<1>3. order \in Injection(1 .. n, there)
  BY DEF SetToSeqs, Injection, IsInjective
<1>4. IsFiniteSet(1 .. n) /\ Cardinality(1 .. n) = n
  <2>. HIDE DEF n, there
  <2>. QED  BY <1>2, FS_Interval
<1>5. order \in Surjection(1 .. n, there)
  <2>. HIDE DEF n
  <2>1. Cardinality(1 .. n) = Cardinality(there)  BY <1>4 DEF n
  <2>. QED  BY <1>1, <1>3, <2>1, FS_Injection
<1>6. p \in there  BY DEF There
<1>7. PICK i \in 1 .. n : order[i] = p
  <2>. HIDE DEF n, there
  <2>. QED  BY <1>5, <1>6 DEF Surjection
<1>8. DOMAIN order = 1 .. n
  <2>. HIDE DEF n, there
  <2>. QED  BY <1>3 DEF Injection
<1>. QED
  BY <1>7, <1>8 DEF ToSet, HandlersOf

\* The directories of an entry are a sequence.
LEMMA EntryDirs == ASSUME settings \in Seq(Entries), NEW i \in DOMAIN settings
                   PROVE  settings[i].dirs \in Seq(Dirs)
<1>1. settings[i] \in Entries  OBVIOUS
<1>. QED  BY <1>1 DEF Entries

\* No entry has been read at the start.
LEMMA InitReading == Init => ReadingInv
  BY DEF Init, ReadingInv, RestInv, FilesServedInv, DirsServedInv, AllReadInv

\* An entry with files gets its handler.
LEMMA FilesEntryReads == ASSUME IInv, ReadingInv, FilesEntry PROVE ReadingInv'
<1>. USE DEF IInv, ReadingInv
<1>1. /\ dirs = <<>> /\ phase = "settings" /\ entry \in DOMAIN settings
      /\ entry' = entry + 1 /\ UNCHANGED <<settings, dirs, loc, phase, disk, locked, changes>>
      /\ handlers' = Append(handlers, FileHandler(Entry.location, Entry.files))
      /\ Entry.files # <<>>
  BY DEF FilesEntry, ReadingEntry, NextEntry, diskVars
<1>2. settings \in Seq(Entries) /\ handlers \in Seq(Handlers)  BY HttpAssumption DEF TypeOK
<1>3. FileHandler(Entry.location, Entry.files) \in Handlers
  <2>1. Entry \in Entries  BY <1>1, <1>2 DEF Entry
  <2>. QED  BY <2>1 DEF FileHandler, Handlers, Entries
<1>4. /\ ToSet(handlers) \subseteq ToSet(handlers')
      /\ FileHandler(Entry.location, Entry.files) \in ToSet(handlers')
  BY <1>1, <1>2, <1>3, OneMoreServed
<1>5. \A i \in 1 .. entry' - 1 : i \in 1 .. entry - 1 \/ i = entry  BY <1>1, <1>2
<1>6. FilesServedInv'  BY <1>1, <1>4, <1>5 DEF FilesServedInv, Served, Entry
<1>7. DirsServedInv'
  <2>. SUFFICES ASSUME changes = 0, NEW i \in 1 .. entry - 1, settings[i].location # NoLocation,
                       settings[i].files = <<>>, NEW n \in DOMAIN settings[i].dirs,
                       \A m \in 1 .. n : settings[i].dirs[m] \notin locked
                PROVE  DirServed(settings[i], n)'
    BY <1>1, <1>5 DEF DirsServedInv, Entry
  <2>1. settings[i].dirs \in Seq(Dirs) /\ i \in DOMAIN settings
    <3>1. i \in DOMAIN settings  BY <1>1, <1>2
    <3>. QED  BY <1>2, <3>1, EntryDirs
  <2>2. DirDone(i, n)  BY <1>1, <2>1 DEF DirDone
  <2>3. DirServed(settings[i], n)  BY <2>2 DEF DirsServedInv
  <2>. QED  BY <1>1, <1>4, <2>3 DEF DirServed, Served
<1>. QED  BY <1>1, <1>6, <1>7 DEF RestInv, AllReadInv

\* An entry without a location gets none, and is passed.
LEMMA InvalidEntryReads == ASSUME IInv, ReadingInv, InvalidEntry PROVE ReadingInv'
<1>. USE DEF IInv, ReadingInv
<1>1. /\ dirs = <<>> /\ phase = "settings" /\ entry \in DOMAIN settings
      /\ entry' = entry + 1 /\ UNCHANGED <<settings, dirs, loc, handlers, phase, disk, locked, changes>>
      /\ settings[entry].location = NoLocation
  BY DEF InvalidEntry, ReadingEntry, NextEntry, diskVars, Entry
<1>2. settings \in Seq(Entries)  BY HttpAssumption DEF TypeOK
<1>3. \A i \in 1 .. entry' - 1 : i \in 1 .. entry - 1 \/ i = entry  BY <1>1, <1>2
<1>4. FilesServedInv'  BY <1>1, <1>3 DEF FilesServedInv, Served
<1>5. DirsServedInv'
  <2>1. \A i \in 1 .. entry - 1 : \A n \in DOMAIN settings[i].dirs : DirDone(i, n)
    <3>1. \A i \in 1 .. entry - 1 : i \in DOMAIN settings  BY <1>1, <1>2
    <3>. QED  BY <1>1, <1>2, <3>1 DEF DirDone, Entries
  <2>. QED  BY <1>1, <1>3, <2>1 DEF DirsServedInv, DirServed, Served
<1>. QED  BY <1>1, <1>4, <1>5 DEF RestInv, AllReadInv

\* The directories of an entry are all left to read.
LEMMA DirsEntryReads == ASSUME IInv, ReadingInv, DirsEntry PROVE ReadingInv'
<1>. USE DEF IInv, ReadingInv
<1>1. /\ dirs = <<>> /\ phase = "settings" /\ entry \in DOMAIN settings
      /\ entry' = entry + 1 /\ UNCHANGED <<settings, handlers, phase, disk, locked, changes>>
      /\ settings[entry].location # NoLocation /\ settings[entry].files = <<>>
      /\ dirs' = settings[entry].dirs /\ loc' = settings[entry].location
  BY DEF DirsEntry, ReadingEntry, NextEntry, diskVars, Entry
<1>2. settings \in Seq(Entries)  BY HttpAssumption DEF TypeOK
<1>3. settings[entry].dirs \in Seq(Dirs) /\ Len(settings[entry].dirs) \in Nat
      /\ DOMAIN settings[entry].dirs = 1 .. Len(settings[entry].dirs)
  BY <1>1, <1>2, EntryDirs
<1>4. entry \in Nat /\ entry' - 1 = entry  BY <1>1, <1>2
<1>5. \A i \in 1 .. entry' - 1 : i \in 1 .. entry - 1 \/ i = entry  BY <1>4
<1>6. FilesServedInv'  BY <1>1, <1>5 DEF FilesServedInv, Served
<1>7. RestInv'
  <2>1. \A j \in 1 .. Len(settings[entry].dirs) :
           Len(settings[entry].dirs) - Len(settings[entry].dirs) + j = j
    BY <1>3
  <2>2. dirs' # <<>> => /\ entry' - 1 \in DOMAIN settings'
                        /\ settings'[entry' - 1].location = loc' /\ settings'[entry' - 1].files = <<>>
                        /\ Len(dirs') <= Len(settings'[entry' - 1].dirs)
    BY <1>1, <1>3, <1>4
  <2>3. ASSUME NEW j \in 1 .. Len(dirs')
        PROVE  dirs'[j] = settings'[entry' - 1].dirs[Len(settings'[entry' - 1].dirs) - Len(dirs') + j]
    <3>1. settings'[entry' - 1].dirs = settings[entry].dirs /\ dirs' = settings[entry].dirs
      BY <1>1, <1>4
    <3>. QED  BY <2>1, <3>1
  <2>. QED  BY <2>2, <2>3 DEF RestInv
<1>8. DirsServedInv'
  <2>1. \A i \in 1 .. entry - 1 : \A n \in DOMAIN settings[i].dirs : DirDone(i, n)
    <3>1. \A i \in 1 .. entry - 1 : i \in DOMAIN settings  BY <1>1, <1>2
    <3>. QED  BY <1>1, <1>2, <3>1 DEF DirDone, Entries
  <2>2. \A n \in DOMAIN settings[entry].dirs : ~(n <= Len(settings[entry].dirs) - Len(dirs'))
    BY <1>1, <1>3
  <2>. SUFFICES ASSUME changes = 0, NEW i \in 1 .. entry, settings[i].location # NoLocation,
                       settings[i].files = <<>>, NEW n \in DOMAIN settings[i].dirs, DirDone(i, n)',
                       \A m \in 1 .. n : settings[i].dirs[m] \notin locked
                PROVE  DirServed(settings[i], n)'
    BY <1>1, <1>4 DEF DirsServedInv
  <2>3. i # entry  BY <1>1, <1>4, <2>2 DEF DirDone
  <2>4. DirServed(settings[i], n)  BY <1>4, <2>1, <2>3 DEF DirsServedInv
  <2>. QED  BY <1>1, <2>4 DEF DirServed, Served
<1>. QED  BY <1>1, <1>6, <1>7, <1>8 DEF AllReadInv

\* The first of the directories left is read,
LEMMA ReadDirReads == ASSUME IInv, ReadingInv, ReadDir PROVE ReadingInv'
<1>. USE DEF IInv, ReadingInv
<1>1. /\ dirs # <<>> /\ phase = "settings" /\ loc \in Locations
      /\ UNCHANGED <<settings, entry, loc, phase, disk, locked, changes>> /\ dirs' = Tail(dirs)
  BY DEF ReadDir, ReadInv, diskVars
<1>2. /\ settings \in Seq(Entries) /\ dirs \in Seq(Dirs) /\ entry \in Nat
      /\ handlers \in Seq(Handlers) /\ Head(dirs) \in Dirs
  BY <1>1, HttpAssumption DEF TypeOK
<1>. DEFINE e == settings[entry - 1]
            d == Len(e.dirs) - Len(dirs) + 1
<1>3. PICK order \in SetToSeqs(There) : handlers' = handlers \o HandlersOf(order)
  BY DEF ReadDir
<1>. DEFINE made == HandlersOf(order)
<1>4. made \in Seq(Handlers)
  <2>1. There \in SUBSET Paths  BY <1>2, HttpAssumption DEF There
  <2>. QED  BY <1>1, <2>1, DirHandlers
<1>5. \A p \in InDir[Head(dirs)] : disk[p] = "file" =>
         FileHandler(Under[<<loc, p>>], <<p>>) \in ToSet(made)
  BY <1>2, DirIsServed
<1>. HIDE DEF made
<1>6. ToSet(handlers) \subseteq ToSet(handlers') /\ ToSet(made) \subseteq ToSet(handlers')
  BY <1>2, <1>3, <1>4, MoreServed DEF made
<1>7. /\ e.dirs \in Seq(Dirs) /\ entry - 1 \in DOMAIN settings
      /\ Len(e.dirs) \in Nat /\ Len(dirs) \in Nat
  BY <1>1, <1>2, EntryDirs DEF RestInv
<1>8. Head(dirs) = e.dirs[d] /\ Len(dirs) >= 1 /\ Len(dirs') = Len(dirs) - 1
      /\ \A j \in 1 .. Len(dirs') : dirs'[j] = dirs[j + 1]
  <2>1. Head(dirs) = dirs[1] /\ Len(dirs) >= 1 /\ Len(dirs') = Len(dirs) - 1
        /\ \A j \in 1 .. Len(dirs') : dirs'[j] = dirs[j + 1]
    BY <1>1, <1>2
  <2>. QED  BY <1>1, <1>2, <2>1 DEF RestInv
<1>9. e.location = loc /\ e.files = <<>> /\ Len(dirs) <= Len(e.dirs)
      /\ \A j \in 1 .. Len(dirs) : dirs[j] = e.dirs[Len(e.dirs) - Len(dirs) + j]
  BY <1>1 DEF RestInv
<1>10. RestInv'
  <2>1. ASSUME NEW j \in 1 .. Len(dirs')
        PROVE  dirs'[j] = e.dirs[Len(e.dirs) - Len(dirs') + j]
    <3>1. j + 1 \in 1 .. Len(dirs)  BY <1>2, <1>8
    <3>2. Len(e.dirs) - Len(dirs) + (j + 1) = Len(e.dirs) - Len(dirs') + j
      <4>1. Len(dirs) \in Nat /\ Len(e.dirs) \in Nat /\ Len(dirs') = Len(dirs) - 1  BY <1>7, <1>8
      <4>2. j \in Nat  BY <4>1
      <4>. DEFINE a == Len(e.dirs)
                  b == Len(dirs)
                  c == Len(dirs')
      <4>3. a \in Nat /\ b \in Nat /\ c = b - 1  BY <4>1
      <4>. HIDE DEF a, b, c
      <4>4. a - b + (j + 1) = a - c + j  BY <4>2, <4>3
      <4>. QED  BY <4>4 DEF a, b, c
    <3>. QED  BY <1>8, <1>9, <3>1, <3>2
  <2>2. Len(dirs') <= Len(e.dirs)  BY <1>2, <1>7, <1>8, <1>9
  <2>. QED  BY <1>1, <1>7, <1>9, <2>1, <2>2 DEF RestInv
<1>11. FilesServedInv'  BY <1>1, <1>6 DEF FilesServedInv, Served
<1>12. DirsServedInv'
  <2>. SUFFICES ASSUME changes = 0, NEW i \in 1 .. entry - 1, settings[i].location # NoLocation,
                       settings[i].files = <<>>, NEW n \in DOMAIN settings[i].dirs, DirDone(i, n)',
                       \A m \in 1 .. n : settings[i].dirs[m] \notin locked
                PROVE  DirServed(settings[i], n)'
    BY <1>1 DEF DirsServedInv
  <2>1. CASE DirDone(i, n)
    <3>1. DirServed(settings[i], n)  BY <2>1 DEF DirsServedInv
    <3>. QED  BY <1>1, <1>6, <3>1 DEF DirServed, Served
  <2>2. CASE ~DirDone(i, n)
    <3>1. i = entry - 1 /\ n = d
      BY <1>1, <1>2, <1>7, <1>8, <2>2 DEF DirDone
    <3>. QED  BY <1>1, <1>5, <1>6, <1>8, <1>9, <3>1 DEF DirServed, Served
  <2>. QED  BY <2>1, <2>2
<1>. QED  BY <1>1, <1>10, <1>11, <1>12 DEF AllReadInv

\* or cannot be read, and costs those after it.
LEMMA LockedDirReads == ASSUME IInv, ReadingInv, LockedDir PROVE ReadingInv'
<1>. USE DEF IInv, ReadingInv
<1>1. /\ dirs # <<>> /\ phase = "settings" /\ Head(dirs) \in locked /\ dirs' = <<>>
      /\ UNCHANGED <<settings, entry, loc, phase, disk, locked, changes>> /\ loc \in Locations
  BY DEF LockedDir, ReadInv, diskVars
<1>2. settings \in Seq(Entries) /\ dirs \in Seq(Dirs) /\ entry \in Nat
      /\ handlers \in Seq(Handlers) /\ Head(dirs) \in Dirs
  BY <1>1, HttpAssumption DEF TypeOK
<1>. DEFINE e == settings[entry - 1]
            d == Len(e.dirs) - Len(dirs) + 1
<1>3. e.dirs \in Seq(Dirs) /\ entry - 1 \in DOMAIN settings
  BY <1>1, <1>2, EntryDirs DEF RestInv
<1>4. Head(dirs) = e.dirs[d] /\ Len(dirs) >= 1 /\ Len(dirs) <= Len(e.dirs)
  <2>1. Head(dirs) = dirs[1] /\ Len(dirs) >= 1  BY <1>1, <1>2
  <2>. QED  BY <1>1, <1>2, <2>1 DEF RestInv
<1>5. ToSet(handlers) \subseteq ToSet(handlers')
  <2>1. PICK read \in SUBSET There : \E order \in SetToSeqs(read) :
           handlers' = handlers \o HandlersOf(order)
    BY DEF LockedDir
  <2>2. read \in SUBSET Paths  BY <1>2, HttpAssumption DEF There
  <2>3. PICK order \in SetToSeqs(read) : handlers' = handlers \o HandlersOf(order)  BY <2>1
  <2>4. HandlersOf(order) \in Seq(Handlers)  BY <1>1, <2>2, DirHandlers
  <2>. QED  BY <1>2, <2>3, <2>4, MoreServed
<1>6. FilesServedInv'  BY <1>1, <1>5 DEF FilesServedInv, Served
<1>7. DirsServedInv'
  <2>. SUFFICES ASSUME changes = 0, NEW i \in 1 .. entry - 1, settings[i].location # NoLocation,
                       settings[i].files = <<>>, NEW n \in DOMAIN settings[i].dirs,
                       \A m \in 1 .. n : settings[i].dirs[m] \notin locked
                PROVE  DirServed(settings[i], n)'
    BY <1>1 DEF DirsServedInv
  <2>1. DirDone(i, n)
    <3>. SUFFICES ASSUME i = entry - 1, n > Len(e.dirs) - Len(dirs) PROVE FALSE
      BY <1>2, <1>3 DEF DirDone
    <3>1. d \in 1 .. n  BY <1>2, <1>3, <1>4
    <3>. QED  BY <1>1, <1>4, <3>1
  <2>2. DirServed(settings[i], n)  BY <2>1 DEF DirsServedInv
  <2>. QED  BY <1>1, <1>5, <2>2 DEF DirServed, Served
<1>. QED  BY <1>1, <1>6, <1>7 DEF RestInv, AllReadInv

\* The application and run() only add handlers.
LEMMA AddingReads == ASSUME IInv, ReadingInv, AddAppHandler \/ Run PROVE ReadingInv'
<1>1. PICK h \in Handlers : handlers' = Append(handlers, h)
  <2>1. CASE AddAppHandler
    <3>1. \A location \in AppLocations : AppHandler(location) \in Handlers
      BY HttpAssumption DEF AppHandler, Handlers
    <3>. QED  BY <2>1, <3>1 DEF AddAppHandler
  <2>2. CASE Run
    <3>1. NotFound \in Handlers  BY DEF NotFound, Handlers
    <3>. QED  BY <2>2, <3>1 DEF Run
  <2>. QED  BY <2>1, <2>2
<1>2. ToSet(handlers) \subseteq ToSet(handlers')
  BY <1>1, OneMoreServed DEF IInv, TypeOK
<1>. QED
  BY <1>2, Growing DEF AddAppHandler, Run, SettingsRead, diskVars

\* Every step of the server and of the disk keeps what is said of entries.
LEMMA NextReading == IInv /\ ReadingInv /\ [Next]_vars => ReadingInv'
<1>. SUFFICES ASSUME IInv, ReadingInv, [Next]_vars PROVE ReadingInv'
  OBVIOUS
<1>1. CASE Configure
  BY <1>1, FilesEntryReads, InvalidEntryReads, DirsEntryReads, ReadDirReads, LockedDirReads,
     AddingReads DEF Configure
<1>2. CASE DiskChanges
  <2>1. changes' # 0  BY <1>2 DEF DiskChanges, IInv, TypeOK
  <2>2. UNCHANGED <<settings, entry, dirs, loc, handlers, phase>>  BY <1>2 DEF DiskChanges, configVars
  <2>. QED  BY <2>1, <2>2 DEF ReadingInv, RestInv, FilesServedInv, DirsServedInv, AllReadInv, Served
<1>3. CASE OnHttp \/ HandleLocation
  <2>1. UNCHANGED <<configVars, diskVars>> /\ phase # "settings"
    BY <1>3 DEF OnHttp, HandleLocation, NotHandled, NextHandler, MissingFile, ServeFile, Throws,
       AppHandles, Handle404, Asking
  <2>. QED  BY <2>1, Growing DEF configVars, diskVars, ReadingInv, AllReadInv
<1>4. CASE UNCHANGED vars
  BY <1>4, Growing DEF vars, configVars, diskVars, ReadingInv, AllReadInv
<1>. QED  BY <1>1, <1>2, <1>3, <1>4 DEF Next, Stopped

\* A broken entry of the settings costs only itself.
THEOREM EntriesAreIndependent == Spec => []EntriesStandAlone
<1>1. IInv /\ ReadingInv => EntriesStandAlone
  <2>. SUFFICES ASSUME IInv, ReadingInv, phase # "settings", NEW i \in DOMAIN settings,
                       settings[i].location # NoLocation
                PROVE  /\ settings[i].files # <<>> =>
                             FileHandler(settings[i].location, settings[i].files) \in ToSet(handlers)
                       /\ settings[i].files = <<>> /\ changes = 0 =>
                             \A n \in DOMAIN settings[i].dirs :
                                (\A m \in 1 .. n : settings[i].dirs[m] \notin locked) =>
                                   DirServed(settings[i], n)
    BY DEF EntriesStandAlone, DirServed, Served
  <2>1. settings \in Seq(Entries) /\ dirs = <<>> /\ entry = Len(settings) + 1
    BY HttpAssumption DEF IInv, TypeOK, ReadingInv, AllReadInv
  <2>2. i \in 1 .. entry - 1 /\ settings[i].dirs \in Seq(Dirs)  BY <2>1, EntryDirs
  <2>3. \A n \in DOMAIN settings[i].dirs : DirDone(i, n)  BY <2>1, <2>2 DEF DirDone
  <2>. QED  BY <2>2, <2>3 DEF ReadingInv, FilesServedInv, DirsServedInv, Served
<1>. QED
  BY <1>1, InitReading, NextReading, Invariance, PTL DEF Spec
=============================================================================
