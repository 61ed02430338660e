------------------------------ MODULE SdeIndex ------------------------------
(***************************************************************************)
(* The desktop application's static data (desktop-app/internal/eve/sde.go, *)
(* with evesde/importer.go and eve/bundled_sde.go): calls of the window,   *)
(* each in a goroutine of its own, select a directory or a database,       *)
(* import one, index again, load a cached index and look things up, while  *)
(* the handle of the database that answers is exchanged under a lock and   *)
(* the old one is closed outside it.                                       *)
(***************************************************************************)
EXTENDS Integers, FiniteSets

CONSTANTS Calls,     \* calls in progress at once
          Handles,   \* handles that may be open at once
          NoHandle,
          MaxBuild   \* bound: databases built

ASSUME SdeAssumption == NoHandle \notin Handles /\ MaxBuild \in Nat \ {0}

VARIABLES index,    \* the handle and path of the database, the file imported from,
                    \* and whose names the status and the entries are
          open,     \* open handles, each with the build it reads
          file,     \* the build at each path, 0 for none, and its copy ".old"
          built,    \* builds so far
          task      \* each call

sdeVars == <<index, open, file, built, task>>

\* The bundled database, and the two paths an import takes turns with.
DbPaths == {"bundled", "base", "next"}
Nothing == [target |-> 0, old |-> 0]
NoTask == [at |-> "idle"]
NoIndex == [repo |-> NoHandle, path |-> "none", imported |-> FALSE, status |-> 0, entries |-> FALSE]

SdeTypeOK ==
    /\ DOMAIN open \subseteq Handles /\ built \in 0..MaxBuild
    /\ index \in [repo : Handles \cup {NoHandle}, path : DbPaths \cup {"none"},
                  imported : BOOLEAN, status : 0..MaxBuild, entries : BOOLEAN]
    /\ file \in [DbPaths -> [target : 0..MaxBuild, old : 0..MaxBuild]]
    /\ \A c \in Calls : task[c].at \in {"idle", "build", "clear", "stat", "swap", "cleanup", "open",
                                        "validate", "close", "scan", "reading", "routing"}

SdeInit ==
    /\ index = NoIndex /\ open = << >>
    /\ file = [p \in DbPaths |-> Nothing] /\ built = 0
    /\ task = [c \in Calls |-> NoTask]

Step(c, t) == task' = [task EXCEPT ![c] = t]
Idle(c) == task[c].at = "idle"
Doing(c, place) == task[c].at = place

\* Queries hold the read lock for as long as they run: the write lock is free
\* when none does.  A mutated form: the switch does not wait for them.
AnyTime == TRUE
WriteLock == \A c \in Calls : ~Doing(c, "reading")

\* The handle that a switch takes out of the index is closed afterwards.
ThenClose(c) ==
    Step(c, IF index.repo = NoHandle THEN NoTask ELSE [at |-> "close", handle |-> index.repo])

CloseHandle(c) ==
    /\ Doing(c, "close")
    /\ open' = [h \in DOMAIN open \ {task[c].handle} |-> open[h]]
    /\ Step(c, NoTask)
    /\ UNCHANGED <<index, file, built>>

-----------------------------------------------------------------------------
(* Switches. *)

SetDirectory(c) ==
    /\ Idle(c) /\ WriteLock
    /\ index' = NoIndex /\ ThenClose(c)
    /\ UNCHANGED <<open, file, built>>

\* Close keeps the status and the file imported from.
CloseIndex(c) ==
    /\ Idle(c) /\ WriteLock
    /\ index' = [index EXCEPT !.repo = NoHandle, !.path = "none"] /\ ThenClose(c)
    /\ UNCHANGED <<open, file, built>>

OpenDatabase(c) ==
    /\ Idle(c)
    /\ \E p \in DbPaths : Step(c, [at |-> "open", path |-> p, import |-> FALSE])
    /\ UNCHANGED <<index, open, file, built>>

\* evesde.Open: there must be a database of this schema.
OpenRepository(c) ==
    /\ Doing(c, "open")
    /\ \/ /\ file[task[c].path].target # 0
          /\ \E h \in Handles \ DOMAIN open :
                /\ open' = [k \in DOMAIN open \cup {h} |->
                              IF k = h THEN file[task[c].path].target ELSE open[k]]
                /\ Step(c, [at |-> "validate", path |-> task[c].path, import |-> task[c].import,
                            handle |-> h])
       \/ open' = open /\ Step(c, NoTask)
    /\ UNCHANGED <<index, file, built>>

\* Manifest and NamedCount are read, then the handle goes into the index; when
\* they cannot be, it is closed and the index stays.
Install(c) ==
    /\ Doing(c, "validate")
    /\ \/ /\ WriteLock
          /\ index' = [repo |-> task[c].handle, path |-> task[c].path,
                       imported |-> index.imported \/ task[c].import,
                       status |-> open[task[c].handle], entries |-> FALSE]
          /\ ThenClose(c)
       \/ index' = index /\ Step(c, [at |-> "close", handle |-> task[c].handle])
    /\ UNCHANGED <<open, file, built>>

-----------------------------------------------------------------------------
(* Imports. *)

\* A database that is open at one path is replaced at the other.
ImportNormalized(c) ==
    /\ Idle(c)
    /\ Step(c, [at |-> "build", path |-> IF index.path = "base" THEN "next" ELSE "base"])
    /\ UNCHANGED <<index, open, file, built>>

\* The records are read, checked and written to a file of its own.
BuildDB(c) ==
    /\ Doing(c, "build")
    /\ \/ /\ built < MaxBuild /\ built' = built + 1
          /\ Step(c, [at |-> "clear", path |-> task[c].path, build |-> built + 1])
       \/ built' = built /\ Step(c, NoTask)
    /\ UNCHANGED <<index, open, file>>

Onto(c, place) == [task[c] EXCEPT !.at = place]
Opening(c) == [at |-> "open", path |-> task[c].path, import |-> TRUE]
PutFile(p, f) == file' = [file EXCEPT ![p] = f]

\* replaceFile: the old copy is removed, the target becomes the copy, the new
\* file the target, and the copy is removed again; a rename may fail, as it does
\* on Windows for an open database.
ReplaceFile(c) ==
    LET p == task[c].path IN
    /\ UNCHANGED <<index, open, built>>
    /\ \/ /\ Doing(c, "clear")
          /\ PutFile(p, [file[p] EXCEPT !.old = 0]) /\ Step(c, Onto(c, "stat"))
       \/ /\ Doing(c, "stat") /\ file[p].target = 0
          /\ PutFile(p, [file[p] EXCEPT !.target = task[c].build]) /\ Step(c, Opening(c))
       \/ /\ Doing(c, "stat") /\ file[p].target # 0
          /\ PutFile(p, [target |-> 0, old |-> file[p].target]) /\ Step(c, Onto(c, "swap"))
       \/ /\ Doing(c, "swap")
          /\ PutFile(p, [file[p] EXCEPT !.target = task[c].build]) /\ Step(c, Onto(c, "cleanup"))
       \/ /\ Doing(c, "swap")                                   \* the rename fails: back
          /\ PutFile(p, IF file[p].old = 0 THEN file[p] ELSE [target |-> file[p].old, old |-> 0])
          /\ Step(c, NoTask)
       \/ /\ Doing(c, "cleanup")
          /\ PutFile(p, [file[p] EXCEPT !.old = 0]) /\ Step(c, Opening(c))
       \/ Doing(c, "stat") /\ file' = file /\ Step(c, NoTask)   \* the rename fails

-----------------------------------------------------------------------------
(* The index of a directory, and lookups. *)

\* A file once imported is imported again; otherwise the directory is scanned,
\* without a lock, and published whatever has been selected meanwhile.
Reindex(c) ==
    /\ Idle(c)
    /\ \/ index.imported /\ Step(c, [at |-> "build",
                                     path |-> IF index.path = "base" THEN "next" ELSE "base"])
       \/ ~index.imported /\ Step(c, [at |-> "scan"])
    /\ UNCHANGED <<index, open, file, built>>

Publish(c) ==
    /\ Doing(c, "scan")
    /\ \/ WriteLock /\ index' = [index EXCEPT !.status = 0, !.entries = TRUE]
       \/ index' = index
    /\ Step(c, NoTask)
    /\ UNCHANGED <<open, file, built>>

\* LoadCached brings the entries back; the database stays where it is.
LoadCached(c) ==
    /\ Idle(c) /\ WriteLock
    /\ index' = [index EXCEPT !.status = 0, !.entries = TRUE]
    /\ UNCHANGED <<open, file, built, task>>

\* Query, TypeNames, LocationNames, Regions and RegionForSystem keep the read
\* lock; Route lets it go first.
Look(c) ==
    /\ Idle(c)
    /\ \E place \in {"reading", "routing"} : Step(c, [at |-> place, handle |-> index.repo])
    /\ UNCHANGED <<index, open, file, built>>

Looked(c) ==
    /\ task[c].at \in {"reading", "routing"} /\ Step(c, NoTask)
    /\ UNCHANGED <<index, open, file, built>>

\* The application ends and starts again: EnsureBundledSDE installs the bundled
\* database unless a newer one is there, and it is opened next.
RestartSde ==
    /\ open' = << >> /\ index' = NoIndex
    /\ \/ file' = [file EXCEPT !["bundled"].target = 1]
       \/ file' = file
    /\ task' = [c \in Calls |-> NoTask]
    /\ built' = IF built = 0 THEN 1 ELSE built

SdeNext ==
    \/ \E c \in Calls :
          \/ SetDirectory(c) \/ CloseIndex(c) \/ OpenDatabase(c) \/ OpenRepository(c)
          \/ Install(c) \/ CloseHandle(c) \/ ImportNormalized(c) \/ BuildDB(c) \/ ReplaceFile(c)
          \/ Reindex(c) \/ Publish(c) \/ LoadCached(c) \/ Look(c) \/ Looked(c)
    \/ RestartSde

SdeSpec == SdeInit /\ [][SdeNext]_sdeVars

-----------------------------------------------------------------------------
\* However switches, imports and lookups overlap, the database that answers is
\* open, so is the one a query is reading, every open handle is the index's or
\* some one call's to install or to close, and the status describes the database
\* that answers unless a directory was indexed since (sde.go:171 "switches this
\* index ... only after the new database is valid").
HeldBy(c) == IF task[c].at \in {"validate", "close"} THEN {task[c].handle} ELSE {}

SelectedDatabaseIsOpen ==
    /\ DOMAIN open = ({index.repo} \ {NoHandle}) \cup UNION {HeldBy(c) : c \in Calls}
    /\ \A c \in Calls : /\ index.repo \notin HeldBy(c)
                        /\ \A d \in Calls \ {c} : HeldBy(c) \cap HeldBy(d) = {}
    /\ \A c \in Calls : Doing(c, "reading") /\ task[c].handle # NoHandle
                            => task[c].handle \in DOMAIN open
    /\ index.repo # NoHandle /\ ~index.entries => index.status = open[index.repo]

\* The index has its types, and the database that answers is open.
SdeInvariant == SdeTypeOK /\ SelectedDatabaseIsOpen
=============================================================================
