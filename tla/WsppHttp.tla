------------------------------ MODULE WsppHttp ------------------------------
(***************************************************************************)
(* HTTP requests: the location handlers that read_settings makes of the    *)
(* settings file, those the application adds and the 404 handler that      *)
(* run() adds, and the answer of on_http, which asks them in turn.  The    *)
(* files are opened at each request, so they may come and go in between.   *)
(*                                                                         *)
(* All of it runs in the main thread.  A path stands for the name of a     *)
(* file and for its content; of its name the code looks at the length and  *)
(* at the suffix.                                                          *)
(***************************************************************************)
EXTENDS Naturals, Sequences, SequencesExt

CONSTANTS
    Paths,          \* file names of the settings and of directory entries
    Name,           \* Name[p]: length and suffix of p
    Locations,      \* locations clients ask for
    Under,          \* Under[<<loc, p>>]: loc with the last part of p, less its .gz
    Dirs,           \* directories of the settings
    InDir,          \* InDir[d]: the paths in directory d
    SettingsFiles,  \* possible values of "locations" in the settings
    AppLocations,   \* locations of handlers of the application
    MaxChanges,     \* bound on the changes of the disk
    NoLocation,     \* a location that is missing or empty
    NoPath          \* no file

NameSuffixes == {".js", ".js.gz", ".css", ".css.gz", ".html", ".gz", ""}
Entries == [location : Locations \cup {NoLocation}, files : Seq(Paths), dirs : Seq(Dirs)]

ASSUME HttpAssumption ==
    /\ Name \in [Paths -> [size : Nat, suffix : NameSuffixes]]
    /\ Under \in [Locations \X Paths -> Locations]
    /\ InDir \in [Dirs -> SUBSET Paths]
    /\ \A settings \in SettingsFiles : settings \in Seq(Entries)
    /\ AppLocations \subseteq Locations
    /\ MaxChanges \in Nat
    /\ NoLocation \notin Locations
    /\ NoPath \notin Paths \cup {"app", "404"}
    /\ IsFiniteSet(Paths)

VARIABLES
    settings,   \* "locations" of the settings file
    entry,      \* the next entry of it to read
    dirs,       \* the directories still to read of the entry being read
    loc,        \* its location
    handlers,   \* mHttpLocationHandlers
    disk,       \* disk[p]: what an open of p meets
    locked,     \* the directories that cannot be read, or not to the end
    changes,    \* number of changes of the disk
    phase,      \* where the main thread is
    request,    \* location asked for
    next,       \* handler asked, and the file of it tried, next
    missed,     \* paths that were missing when tried for the request
    response    \* WsppHttpResponseData

configVars == <<settings, entry, dirs, loc, handlers>>
diskVars == <<disk, locked, changes>>
requestVars == <<request, next, missed, response>>
vars == <<configVars, diskVars, phase, requestVars>>

FileHandler(location, files) == [kind |-> "file", location |-> location, files |-> files]
AppHandler(location) == [kind |-> "app", location |-> location, files |-> <<>>]
NotFound == [kind |-> "404", location |-> NoLocation, files |-> <<>>]

NoResponse == [status |-> 200, body |-> NoPath, type |-> "none", gzip |-> FALSE]

Init == /\ settings \in SettingsFiles
        /\ entry = 1
        /\ dirs = <<>>
        /\ loc = NoLocation
        /\ handlers = <<>>
        /\ disk \in [Paths -> {"file", "missing"}]
        /\ locked \in SUBSET Dirs
        /\ changes = 0
        /\ phase = "settings"
        /\ request = NoLocation
        /\ next = [handler |-> 1, file |-> 1]
        /\ missed = {}
        /\ response = NoResponse

-----------------------------------------------------------------------------
(* read_settings, the application, run *)

Entry == settings[entry]
ReadingEntry == phase = "settings" /\ dirs = <<>> /\ entry \in DOMAIN settings
SettingsRead == phase = "settings" /\ dirs = <<>> /\ entry = Len(settings) + 1
NextEntry == entry' = entry + 1 /\ UNCHANGED <<settings, phase, diskVars, requestVars>>

FilesEntry == /\ ReadingEntry
              /\ Entry.location # NoLocation
              /\ Entry.files # <<>>
              /\ handlers' = Append(handlers, FileHandler(Entry.location, Entry.files))
              /\ NextEntry
              /\ UNCHANGED <<dirs, loc>>

DirsEntry == /\ ReadingEntry
             /\ Entry.location # NoLocation
             /\ Entry.files = <<>>
             /\ dirs' = Entry.dirs
             /\ loc' = Entry.location
             /\ NextEntry
             /\ UNCHANGED handlers

\* variant: the exception ends the reading of the settings
InvalidEntryEnds == /\ ReadingEntry
                    /\ Entry.location = NoLocation
                    /\ entry' = Len(settings) + 1
                    /\ UNCHANGED <<settings, dirs, loc, handlers, phase, diskVars, requestVars>>

\* the warning for an invalid location entry
InvalidEntry == /\ ReadingEntry
                /\ Entry.location = NoLocation
                /\ NextEntry
                /\ UNCHANGED <<dirs, loc, handlers>>

There == {p \in InDir[Head(dirs)] : disk[p] # "missing"}
HandlersOf(order) == [i \in DOMAIN order |-> FileHandler(Under[<<loc, order[i]>>], <<order[i]>>)]

\* directory_iterator yields the entries in any order
ReadDir == /\ dirs # <<>>
           /\ Head(dirs) \notin locked
           /\ \E order \in SetToSeqs(There) : handlers' = handlers \o HandlersOf(order)
           /\ dirs' = Tail(dirs)
           /\ UNCHANGED <<settings, entry, loc, phase, diskVars, requestVars>>

\* A filesystem_error, at the first entry of the directory or after some of
\* them, gives up the rest of the entry; the handlers made so far stay.
LockedDir == /\ dirs # <<>>
             /\ Head(dirs) \in locked
             /\ \E read \in SUBSET There : \E order \in SetToSeqs(read) :
                   handlers' = handlers \o HandlersOf(order)
             /\ dirs' = <<>>
             /\ UNCHANGED <<settings, entry, loc, phase, diskVars, requestVars>>

AddAppHandler == /\ SettingsRead
                 /\ \E location \in AppLocations :
                       /\ AppHandler(location) \notin ToSet(handlers)
                       /\ handlers' = Append(handlers, AppHandler(location))
                 /\ UNCHANGED <<settings, entry, dirs, loc, phase, diskVars, requestVars>>

\* variant: run() adds no 404 handler
RunWithout404 == /\ SettingsRead
                 /\ phase' = "idle"
                 /\ UNCHANGED <<configVars, diskVars, requestVars>>

Run == /\ SettingsRead
       /\ handlers' = Append(handlers, NotFound)
       /\ phase' = "idle"
       /\ UNCHANGED <<settings, entry, dirs, loc, diskVars, requestVars>>

\* Somebody adds or removes a file, or makes a directory of its name.
DiskChanges == /\ changes < MaxChanges
               /\ \E p \in Paths, what \in {"file", "directory", "missing"} :
                     disk[p] # what /\ disk' = [disk EXCEPT ![p] = what]
               /\ changes' = changes + 1
               /\ UNCHANGED <<configVars, locked, phase, requestVars>>

-----------------------------------------------------------------------------
(* on_http and http_location_handle *)

OnHttp == /\ phase = "idle"
          /\ phase' = "handling"
          /\ request' \in Locations
          /\ next' = [handler |-> 1, file |-> 1]
          /\ missed' = {}
          /\ response' = NoResponse
          /\ UNCHANGED <<configVars, diskVars>>

Asking == phase = "handling" /\ next.handler \in DOMAIN handlers
Handler == handlers[next.handler]
Concerned == Handler.kind # "404" /\ Handler.location = request
FilesLeft == Handler.kind = "file" /\ next.file \in DOMAIN Handler.files
Path == Handler.files[next.file]

\* handle() returns false; after the last handler the response goes out as
\* it is
NextHandler == IF next.handler = Len(handlers)
               THEN phase' = "idle" /\ UNCHANGED next
               ELSE next' = [handler |-> next.handler + 1, file |-> 1] /\ UNCHANGED phase

NotHandled == /\ Asking
              /\ Handler.kind # "404"
              /\ Concerned => Handler.kind = "file" /\ ~FilesLeft
              /\ NextHandler
              /\ UNCHANGED <<configVars, diskVars, request, missed, response>>

\* variant: the second file is not tried
MissingFileEnds == /\ Asking /\ Concerned /\ FilesLeft
                   /\ disk[Path] = "missing"
                   /\ NextHandler
                   /\ missed' = missed \cup {Path}
                   /\ UNCHANGED <<configVars, diskVars, request, response>>

\* variant: the files are tried from the last to the first
MissingFileNext == /\ Asking /\ Concerned /\ FilesLeft
                   /\ disk[Path] = "missing"
                   /\ next' = [next EXCEPT !.file = @ - 1]
                   /\ missed' = missed \cup {Path}
                   /\ UNCHANGED <<configVars, diskVars, phase, request, response>>

\* the ifstream does not open
MissingFile == /\ Asking /\ Concerned /\ FilesLeft
               /\ disk[Path] = "missing"
               /\ next' = [next EXCEPT !.file = @ + 1]
               /\ missed' = missed \cup {Path}
               /\ UNCHANGED <<configVars, diskVars, phase, request, response>>

\* variant: the tests go on to a suffix of eight characters
TooShortForEight(name) == \/ name.size < 3
                          \/ name.size < 6 /\ name.suffix # ".js"
                          \/ name.size < 8 /\ name.suffix \notin {".js", ".js.gz"}

\* filename.substr(filename.size() - n) throws for a name shorter than n.
\* The tests are made in this order until one of them is true.
TooShort(name) == \/ name.size < 3
                  \/ name.size < 6 /\ name.suffix # ".js"
                  \/ name.size < 7 /\ name.suffix \notin {".js", ".js.gz", ".css"}

ContentType(name) == CASE name.suffix \in {".js", ".js.gz"} -> "application/javascript"
                       [] name.suffix \in {".css", ".css.gz"} -> "text/css"
                       [] name.suffix = ".html" -> "text/html"
                       [] OTHER -> "none"

Gzip(name) == name.suffix \in {".js.gz", ".css.gz", ".gz"}

ServeFile == /\ Asking /\ Concerned /\ FilesLeft
             /\ disk[Path] = "file"
             /\ ~TooShort(Name[Path])
             /\ response' = [status |-> 200, body |-> Path,
                             type |-> ContentType(Name[Path]), gzip |-> Gzip(Name[Path])]
             /\ phase' = "idle"
             /\ UNCHANGED <<configVars, diskVars, request, next, missed>>

\* std::out_of_range of substr(), or the failing read of a directory, which
\* opens like a file; on_http does not catch it and mServer.run() ends
Throws == /\ Asking /\ Concerned /\ FilesLeft
          /\ \/ disk[Path] = "directory"
             \/ disk[Path] = "file" /\ TooShort(Name[Path])
          /\ phase' = "threw"
          /\ UNCHANGED <<configVars, diskVars, requestVars>>

AppHandles == /\ Asking /\ Concerned
              /\ Handler.kind = "app"
              /\ response' = [NoResponse EXCEPT !.body = "app"]
              /\ phase' = "idle"
              /\ UNCHANGED <<configVars, diskVars, request, next, missed>>

Handle404 == /\ Asking
             /\ Handler.kind = "404"
             /\ response' = [NoResponse EXCEPT !.status = 404, !.body = "404"]
             /\ phase' = "idle"
             /\ UNCHANGED <<configVars, diskVars, request, next, missed>>

-----------------------------------------------------------------------------
Configure == FilesEntry \/ DirsEntry \/ InvalidEntry \/ ReadDir \/ LockedDir \/ AddAppHandler \/ Run

HandleLocation == \/ NotHandled \/ MissingFile \/ ServeFile \/ Throws
                  \/ AppHandles \/ Handle404

Stopped == phase = "threw" /\ UNCHANGED vars

Next == Configure \/ DiskChanges \/ OnHttp \/ HandleLocation \/ Stopped

Spec == Init /\ [][Next]_vars

-----------------------------------------------------------------------------
(* Properties *)

Files(h) == ToSet(h.files)

Handlers == [kind : {"file", "app", "404"},
             location : Locations \cup {NoLocation}, files : Seq(Paths)]

\* Every variable keeps its type.
TypeOK == /\ settings \in SettingsFiles
          /\ entry \in 1 .. Len(settings) + 1
          /\ dirs \in Seq(Dirs)
          /\ loc \in Locations \cup {NoLocation}
          /\ handlers \in Seq(Handlers)
          /\ disk \in [Paths -> {"file", "directory", "missing"}]
          /\ locked \subseteq Dirs
          /\ changes \in 0 .. MaxChanges
          /\ phase \in {"settings", "idle", "handling", "threw"}
          /\ request \in Locations \cup {NoLocation}
          /\ next \in [handler : Nat \ {0}, file : Nat \ {0}]
          /\ missed \subseteq Paths
          /\ response \in [status : {200, 404}, body : Paths \cup {NoPath, "app", "404"},
                            type : {"application/javascript", "text/css", "text/html", "none"},
                            gzip : BOOLEAN]

\* Some handler answers each request: no empty page with the status 200 that
\* a new response has goes out, whatever the handlers of the settings, of
\* the application and the files at the time.
AlwaysAnswered ==
    [][phase = "handling" /\ phase' = "idle" => response'.body # NoPath]_vars

\* The answer comes from the first handler and file in the order of the
\* settings that was there: every file before it was missing when its turn
\* came, and so was every file of the location when the answer is 404.
AnswersInOrder ==
    [][phase = "handling" /\ phase' # "handling" =>
          /\ \A i \in 1 .. next.handler - 1 :
                handlers[i].kind = "file" /\ handlers[i].location = request =>
                   Files(handlers[i]) \subseteq missed
          /\ \A i \in 1 .. next.file - 1 : Handler.files[i] \in missed]_vars

\* A broken entry of the settings, or a directory that cannot be read, costs
\* only itself: when the server runs, every other entry has its handlers.
EntriesStandAlone == phase # "settings" =>
    \A i \in DOMAIN settings : settings[i].location # NoLocation =>
        LET e == settings[i]
        IN  /\ e.files # <<>> => FileHandler(e.location, e.files) \in ToSet(handlers)
            /\ e.files = <<>> /\ changes = 0 =>
                  \A n \in DOMAIN e.dirs :
                     (\A m \in 1 .. n : e.dirs[m] \notin locked) =>
                        \A p \in InDir[e.dirs[n]] : disk[p] = "file" =>
                           FileHandler(Under[<<e.location, p>>], <<p>>) \in ToSet(handlers)

\* A file whose name has seven characters or more never makes on_http throw:
\* the wrapping size() - 7 is the last.
LongNamesAreServed ==
    [][phase = "handling" /\ phase' = "threw" =>
          disk[Path] = "directory" \/ Name[Path].size < 7]_vars
=============================================================================
