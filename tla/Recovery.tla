------------------------------ MODULE Recovery ------------------------------
(***************************************************************************)
(* Files, journals and restarts of one database with one dimension and one *)
(* cube.                                                                   *)
(*                                                                         *)
(* A commit appends what it did to the journal of the database (elements)  *)
(* or of the cube (cells) before its version is published.  A save writes  *)
(* a temporary file, archives the journal and puts the file in the place   *)
(* of the old one, in an order that is not the same for the two kinds of   *)
(* file.  After a crash the files are loaded and the journals are replayed *)
(* by time.                                                                *)
(*                                                                         *)
(* getSaveLock() is the writers' mutex: nothing is committed while a save  *)
(* runs.  A request to save has taken its version before, when its session *)
(* was looked up.  cube/unload saves the cube of its own copy without that *)
(* mutex, and only then commits; the lock of the file keeps the two apart  *)
(* while they replace it.  One cube/unload runs at a time.                 *)
(*                                                                         *)
(* The cells of the cube are abstracted to one per element identifier, 0   *)
(* is an empty cell; like the storage they do not know whether there is an *)
(* element of that identifier.  A commit is named by its number, which is  *)
(* the time stamp of its journal entry.  Left out: the rules of the cube   *)
(* and their file, CSV files, archives, and writes of one commit to more   *)
(* than one journal.                                                       *)
(***************************************************************************)
EXTENDS Integers, FiniteSets, Sequences, SequencesExt

CONSTANTS
    Name,       \* names of elements
    None,
    MaxId,      \* bound: largest identifier of an element
    MaxValue,   \* bound: largest value of a cell
    MaxCommits, \* bound: number of commits
    MaxSaves,   \* bound: number of saves and of requests cube/unload
    MaxCrashes  \* bound: number of crashes

VARIABLES
    version,    \* the published version; after a crash, the one that was lost
    changed,    \* objects (the number of the commit that copied them) with status CHANGED
    disk,       \* files and journals
    waiting,    \* a request to save that waits for the mutex, or None
    saver,      \* the save that has the mutex
    unloader,   \* the cube/unload that runs, or None
    phase,      \* "up", "down" or "loading"
    spent,      \* saves (with requests cube/unload) and crashes so far
    history     \* what the code does not keep: see Histories

vars == <<version, changed, disk, waiting, saver, unloader, phase, spent, history>>

Id == 0..MaxId
Number == 0..MaxCommits

(***************************************************************************)
(* db and cube are the objects of the version, named by the number of the  *)
(* commit that copied them: every commit copies the database, only some    *)
(* the cube, and fewer the list of its pages.  Of a cube that is not loaded *)
(* the code keeps no cells: cells are then those it had.                   *)
(***************************************************************************)
Versions ==
    [names : [Id -> Name \cup {None}], next : 0..(MaxId + 1),
     cells : [Id -> 0..MaxValue], loaded : BOOLEAN,
     db : Number, cube : Number, pages : Number]

Entries == [at : Number, op : {"create", "destroy", "clear", "set", "add"},
            id : Id, name : Name \cup {None}, value : 0..MaxValue]
DbFiles == [at : Number, names : [Id -> Name \cup {None}]] \cup {None}
CubeFiles == [at : Number, pages : Number, cells : [Id -> 0..MaxValue]] \cup {None}

Disks == [db : DbFiles, dbTmp : DbFiles, dbLog : SUBSET Entries,
          cube : CubeFiles, cubeTmp : CubeFiles, cubeLog : SUBSET Entries]

Steps == {"write", "archive", "remove", "rename"}
Savers == [todo : {<<>>, <<"db">>, <<"cube">>, <<"db", "cube">>, <<"cube", "db">>},
           step : Steps, from : Versions]
Unloaders == [step : Steps \cup {"copy", "commit"}, from : Versions]

(***************************************************************************)
(* removals: commits of destroy and clear; lost: the files from which a    *)
(* save of an old version or a crash inside of a save has taken commits,   *)
(* and "start" once a start has not restored them.                         *)
(***************************************************************************)
Histories == [removals : SUBSET Number, lost : SUBSET {"db", "cube", "start"}]

TypeOK ==
    /\ version \in Versions
    /\ changed \in [db : SUBSET Number, cube : SUBSET Number]
    /\ disk.db \in DbFiles /\ disk.dbTmp \in DbFiles /\ disk.dbLog \subseteq Entries
    /\ disk.cube \in CubeFiles /\ disk.cubeTmp \in CubeFiles /\ disk.cubeLog \subseteq Entries
    /\ waiting \in [todo : {<<"db">>, <<"cube">>, <<"db", "cube">>}, from : Versions] \cup {None}
    /\ saver \in Savers \cup {None}
    /\ unloader \in Unloaders \cup {None}
    /\ phase \in {"up", "down", "loading"}
    /\ spent \in [saves : 0..MaxSaves, crashes : 0..MaxCrashes]
    /\ history \in Histories

NoNames == [i \in Id |-> None]
NoCells == [i \in Id |-> 0]

\* A database that was created and saved.
Init ==
    /\ version = [names |-> NoNames, next |-> 0, cells |-> NoCells, loaded |-> TRUE,
                  db |-> 0, cube |-> 0, pages |-> 0]
    /\ changed = [db |-> {}, cube |-> {}]
    /\ disk = [db |-> [at |-> 0, names |-> NoNames], dbTmp |-> None, dbLog |-> {},
               cube |-> [at |-> 0, pages |-> 0, cells |-> NoCells], cubeTmp |-> None, cubeLog |-> {}]
    /\ waiting = None
    /\ saver = None
    /\ unloader = None
    /\ phase = "up"
    /\ spent = [saves |-> 0, crashes |-> 0]
    /\ history = [removals |-> {}, lost |-> {}]

-----------------------------------------------------------------------------
(* What the operations do to a version; the replay applies them again.     *)

InUse(names, name) == \E i \in Id : names[i] = name

Created(v, id, name) ==
    [v EXCEPT !.names[id] = name, !.next = IF id >= v.next THEN id + 1 ELSE v.next]

Destroyed(v, id) == [v EXCEPT !.names[id] = None, !.cells[id] = 0]

Cleared(v) == [v EXCEPT !.names = NoNames, !.next = 0, !.cells = NoCells]

Written(v, id, value) == [v EXCEPT !.cells[id] = value]

-----------------------------------------------------------------------------
(* Commits: the entry is flushed to the journal, then the version becomes  *)
(* the published one.  No save runs, as it has the mutex.                  *)

MayCommit == phase = "up" /\ saver = None /\ version.db < MaxCommits

Now == version.db + 1

Entry(op, id, name, value) ==
    [at |-> Now, op |-> op, id |-> id, name |-> name, value |-> value]

\* The objects of the new version, cubeStatus is None if it has the cube of the
\* old one.  The copy of the database has the status of the one it copies unless
\* it sets its own.
Commit(v, cubeStatus, dbChanged) ==
    /\ version' = [v EXCEPT !.db = Now, !.cube = IF cubeStatus = None THEN @ ELSE Now]
    /\ changed' = [db |-> IF dbChanged \/ version.db \in changed.db
                             THEN changed.db \cup {Now} ELSE changed.db,
                   cube |-> IF cubeStatus = "CHANGED"
                             THEN changed.cube \cup {Now} ELSE changed.cube]
    /\ UNCHANGED <<waiting, saver, phase, spent>>

CreateElement(name) ==
    /\ MayCommit
    /\ version.next <= MaxId
    /\ ~ InUse(version.names, name)
    /\ Commit(Created(version, version.next, name), None, TRUE)
    /\ disk' = [disk EXCEPT !.dbLog = @ \cup {Entry("create", version.next, name, 0)}]
    /\ UNCHANGED <<unloader, history>>

\* The cells of the element are removed from a cube that is loaded; only the
\* journal of the database knows.  The pages are left alone if there are none.
DestroyElement(id) ==
    /\ MayCommit
    /\ version.names[id] # None
    /\ IF version.loaded
          THEN /\ Commit([Destroyed(version, id) EXCEPT
                              !.pages = IF version.cells[id] = 0 THEN @ ELSE Now],
                         "CHANGED", TRUE)
               /\ history' = [history EXCEPT !.removals = @ \cup {Now}]
          ELSE /\ Commit([version EXCEPT !.names[id] = None], None, TRUE)
               /\ UNCHANGED history
    /\ disk' = [disk EXCEPT !.dbLog = @ \cup {Entry("destroy", id, None, 0)}]
    /\ UNCHANGED unloader

\* The status of the database is left alone; a cube that was not loaded is
\* CHANGED, so it counts as loaded.
ClearDimension ==
    /\ MayCommit
    /\ version.names # NoNames
    /\ Commit([Cleared(version) EXCEPT !.loaded = TRUE, !.pages = Now], "CHANGED", FALSE)
    /\ disk' = [disk EXCEPT !.dbLog = @ \cup {Entry("clear", 0, None, 0)}]
    /\ history' = [history EXCEPT !.removals = @ \cup {Now}]
    /\ UNCHANGED unloader

\* cell/replace with a value, or with add=1 by one.
ReplaceCell(id, op) ==
    LET value == IF op = "set" THEN 1 ELSE version.cells[id] + 1
    IN  /\ MayCommit
        /\ version.loaded
        /\ version.names[id] # None
        /\ value <= MaxValue
        /\ Commit([Written(version, id, value) EXCEPT !.pages = Now], "CHANGED", FALSE)
        /\ disk' = [disk EXCEPT !.cubeLog = @ \cup {Entry(op, id, None, 1)}]
        /\ UNCHANGED <<unloader, history>>

-----------------------------------------------------------------------------
(* Saving.                                                                 *)

\* What a save does first with an item of its list.
FirstStep == "write"

StartSave(todo, from) == saver' = [todo |-> todo, step |-> FirstStep, from |-> from]

\* A request database/save, the same with complete=1, or cube/save: the lookup
\* of the user puts the published version into the context.
RequestSave ==
    /\ phase = "up"
    /\ waiting = None
    /\ spent.saves < MaxSaves
    /\ \E todo \in {<<"db">>, <<"cube">>, <<"db", "cube">>} :
          /\ todo = <<"cube">> => version.loaded
          /\ waiting' = [todo |-> todo, from |-> version]
    /\ spent' = [spent EXCEPT !.saves = @ + 1]
    /\ UNCHANGED <<version, changed, disk, saver, unloader, phase, history>>

\* compute has the mutex, and saves the version of the context.
BeginSave ==
    /\ waiting # None
    /\ saver = None
    /\ StartSave(waiting.todo, waiting.from)
    /\ waiting' = None
    /\ UNCHANGED <<version, changed, disk, unloader, phase, spent, history>>

\* The timer takes its version when it has the mutex.
AutoSave ==
    /\ phase = "up"
    /\ saver = None
    /\ spent.saves < MaxSaves
    /\ StartSave(<<"db", "cube">>, version)
    /\ spent' = [spent EXCEPT !.saves = @ + 1]
    /\ UNCHANGED <<version, changed, disk, waiting, unloader, phase, history>>

Saving(item, step) == saver # None /\ saver.todo # <<>> /\ Head(saver.todo) = item /\ saver.step = step

Object(item, v) == IF item = "db" THEN v.db ELSE v.cube

IsChanged(item) ==
    IF item = "db" THEN saver.from.db \in changed.db ELSE saver.from.cube \in changed.cube

GoTo(step) == saver' = [saver EXCEPT !.step = step]

NextItem == saver' = [saver EXCEPT !.todo = Tail(@), !.step = FirstStep]

\* Nothing is saved of an object with status LOADED.
SkipItem ==
    /\ \E item \in {"db", "cube"} : Saving(item, FirstStep) /\ ~ IsChanged(item)
    /\ NextItem
    /\ UNCHANGED <<version, changed, disk, waiting, unloader, phase, spent, history>>

Lose(item) == history' = [history EXCEPT !.lost = @ \cup {item}]

\* The journal is archived: what is in no file then is lost, until a save of the
\* published object.
Archived(item, losing, restoring) ==
    IF losing
        THEN Lose(item)
        ELSE history' = [history EXCEPT !.lost = IF restoring THEN @ \ {item} ELSE @]

\* saveDatabase, step by step: the journal is archived before the old file is
\* replaced.
SaveDatabase ==
    /\ \/ /\ Saving("db", "write") /\ IsChanged("db")
          /\ disk' = [disk EXCEPT !.dbTmp = [at |-> saver.from.db, names |-> saver.from.names]]
          /\ GoTo("archive")
          /\ UNCHANGED <<changed, history>>
       \/ /\ Saving("db", "archive")
          /\ disk' = [disk EXCEPT !.dbLog = {}]
          /\ GoTo("remove")
          /\ Archived("db",
                      disk.db.at > saver.from.db \/ \E e \in disk.dbLog : e.at > saver.from.db,
                      saver.from.db = version.db)
          /\ UNCHANGED changed
       \/ /\ Saving("db", "remove")
          /\ disk' = [disk EXCEPT !.db = None]
          /\ GoTo("rename")
          /\ UNCHANGED <<changed, history>>
       \/ /\ Saving("db", "rename")
          /\ disk' = [disk EXCEPT !.db = disk.dbTmp, !.dbTmp = None]
          /\ changed' = [changed EXCEPT !.db = @ \ {saver.from.db}]
          /\ NextItem
          /\ UNCHANGED history
    /\ UNCHANGED <<version, waiting, unloader, phase, spent>>

\* Plausible error: the status is set on the cube of the latest version.
SavedLatest == [changed EXCEPT !.cube = {}]

\* The status is set on the cube that was saved.
SavedCube == [changed EXCEPT !.cube = @ \ {saver.from.cube}]

\* The lock of the file of the cube, from the temporary file to the rename.
SaverHasFile == Saving("cube", "remove") \/ Saving("cube", "rename")
UnloaderHasFile == unloader # None /\ unloader.step \in {"remove", "rename"}

\* The file of the cube, or the one that takes its place.
CubeFile == IF disk.cube = None THEN disk.cubeTmp ELSE disk.cube

OnFile(v) == [at |-> v.db, pages |-> v.pages, cells |-> v.cells]

\* One step of saveCubeIntern for the cube of a version, without the status: the
\* journal is archived after the old file was replaced.
CubeSaved(step, from) ==
    \/ /\ step = "write"
       /\ disk' = [disk EXCEPT !.cubeTmp = OnFile(from)]
       /\ UNCHANGED history
    \/ /\ step = "remove"
       /\ disk' = [disk EXCEPT !.cube = None]
       /\ IF disk.cube.pages > from.pages
             THEN Lose("cube") ELSE UNCHANGED history
    \/ /\ step = "rename"
       /\ disk' = [disk EXCEPT !.cube = disk.cubeTmp, !.cubeTmp = None]
       /\ UNCHANGED history
    \/ /\ step = "archive"
       /\ disk' = [disk EXCEPT !.cubeLog = {}]
       /\ Archived("cube", \E e \in disk.cubeLog : e.at > CubeFile.at,
                   CubeFile.pages = version.pages)

Following == [write |-> "remove", remove |-> "rename", rename |-> "archive"]

SaveCube ==
    /\ \E step \in Steps : Saving("cube", step)
    /\ saver.step = "write" => IsChanged("cube") /\ ~ UnloaderHasFile
    /\ CubeSaved(saver.step, saver.from)
    /\ IF saver.step = "archive"
          THEN changed' = SavedCube /\ NextItem
          ELSE GoTo(Following[saver.step]) /\ UNCHANGED changed
    /\ UNCHANGED <<version, waiting, unloader, phase, spent>>

\* The mutex is given back; a database that was being loaded is loaded.
EndSave ==
    /\ saver # None
    /\ saver.todo = <<>>
    /\ saver' = None
    /\ phase' = "up"
    /\ UNCHANGED <<version, changed, disk, waiting, unloader, spent, history>>

-----------------------------------------------------------------------------
(* Unloading a cube.                                                       *)

\* cube/unload makes its copy, again after a conflict; a cube that is LOADED is
\* not saved.
CopyToUnload ==
    /\ phase = "up"
    /\ version.loaded
    /\ IF unloader = None
          THEN /\ spent.saves < MaxSaves
               /\ spent' = [spent EXCEPT !.saves = @ + 1]
          ELSE unloader.step = "copy" /\ UNCHANGED spent
    /\ unloader' = [step |-> IF version.cube \in changed.cube THEN "write" ELSE "commit",
                    from |-> version]
    /\ UNCHANGED <<version, changed, disk, waiting, saver, phase, history>>

\* The copy is saved; the status set is that of the copy.
SaveToUnload ==
    /\ unloader # None
    /\ unloader.step \in Steps
    /\ unloader.step = "write" => ~ SaverHasFile
    /\ CubeSaved(unloader.step, unloader.from)
    /\ unloader' = [unloader EXCEPT
                        !.step = IF @ = "archive" THEN "commit" ELSE Following[@]]
    /\ UNCHANGED <<version, changed, waiting, saver, phase, spent>>

\* The new storage replaces the pages of the copy: that conflicts with a commit
\* that has changed them.
CommitUnload ==
    /\ MayCommit
    /\ unloader # None
    /\ unloader.step = "commit"
    /\ IF version.pages = unloader.from.pages
          THEN /\ Commit([version EXCEPT !.loaded = FALSE, !.pages = Now], "UNLOADED", FALSE)
               /\ unloader' = None
          ELSE /\ unloader' = [unloader EXCEPT !.step = "copy"]
               /\ UNCHANGED <<version, changed, waiting, saver, phase, spent>>
    /\ UNCHANGED <<disk, history>>

-----------------------------------------------------------------------------
(* Crash and restart.                                                      *)

\* Archived and not replaced: the old file stays, and nothing else counts.
Torn == Saving("db", "remove")

Crash ==
    /\ phase # "down"
    /\ spent.crashes < MaxCrashes
    /\ phase' = "down"
    /\ waiting' = None
    /\ saver' = None
    /\ unloader' = None
    /\ spent' = [spent EXCEPT !.crashes = @ + 1]
    /\ history' = [history EXCEPT !.lost = IF Torn THEN @ \cup {"db"} ELSE @]
    /\ UNCHANGED <<version, changed, disk>>

\* loadDatabase and loadCubeIntern: a temporary file counts only if there is no
\* other, and then the journal of the database is deleted.
Mended ==
    [disk EXCEPT
        !.db = IF @ = None THEN disk.dbTmp ELSE @,
        !.dbTmp = IF disk.db = None THEN None ELSE @,
        !.dbLog = IF disk.db = None THEN {} ELSE @,
        !.cube = IF @ = None THEN disk.cubeTmp ELSE @,
        !.cubeTmp = None]

\* The version the files hold: the next identifier is that after the largest.
FromFiles(d) ==
    [names |-> d.db.names,
     next |-> IF d.db.names = NoNames THEN 0
              ELSE 1 + (CHOOSE i \in Id : /\ d.db.names[i] # None
                                          /\ \A j \in Id : d.db.names[j] # None => j <= i),
     cells |-> d.cube.cells, loaded |-> TRUE,
     db |-> version.db, cube |-> version.db, pages |-> version.db]

\* An element that exists (by its name, or by its identifier, which is not
\* looked at) ends the load.
ReplayedCreate(s, e) ==
    IF InUse(s.v.names, e.name) \/ s.v.names[e.id] # None
        THEN [s EXCEPT !.failed = TRUE]
        ELSE [s EXCEPT !.v = Created(@, e.id, e.name)]

ReplayedDestroy(s, e) ==
    IF s.v.names[e.id] = None THEN s ELSE [s EXCEPT !.v = Destroyed(@, e.id), !.dirty = TRUE]

ReplayedClear(s) == [s EXCEPT !.v = Cleared(@), !.dirty = TRUE]

\* The cell of an element that does not exist is passed over.
ReplayedCell(s, e) ==
    LET value == IF e.op = "set" THEN e.value ELSE s.v.cells[e.id] + e.value
    IN  IF s.v.names[e.id] = None THEN s
            ELSE [s EXCEPT !.v = Written(@, e.id, value), !.dirty = TRUE]

\* One entry; dirty tells whether the cube was changed.
Replayed(s, e) ==
    IF s.failed THEN s ELSE
    CASE e.op = "create" -> ReplayedCreate(s, e)
      [] e.op = "destroy" -> ReplayedDestroy(s, e)
      [] e.op = "clear" -> ReplayedClear(s)
      [] OTHER -> ReplayedCell(s, e)

\* Plausible error: the journals are replayed one after the other.
OneByOne(d) ==
    SetToSortSeq(d.cubeLog, LAMBDA e, f : e.at < f.at)
        \o SetToSortSeq(d.dbLog, LAMBDA e, f : e.at < f.at)

\* processJournalsChronologically
Chronologically(d) == SetToSortSeq(d.cubeLog \cup d.dbLog, LAMBDA e, f : e.at < f.at)

Recovered(d) ==
    FoldLeft(Replayed, [v |-> FromFiles(d), dirty |-> FALSE, failed |-> FALSE],
             Chronologically(d))

\* The database is loaded; a cube the replay has changed is saved, then the
\* database if its journal had an entry.
Load ==
    LET d == Mended
        r == Recovered(d)
    IN  /\ phase = "down"
        /\ ~ r.failed
        /\ \A i \in Id : r.v.cells[i] <= MaxValue
        /\ phase' = "loading"
        /\ disk' = d
        /\ version' = r.v
        /\ changed' = [db |-> IF d.dbLog # {} THEN {version.db} ELSE {},
                       cube |-> IF r.dirty THEN {version.db} ELSE {}]
        /\ StartSave(<<"cube", "db">>, r.v)
        /\ history' = [history EXCEPT !.lost = IF @ = {} THEN @ ELSE @ \cup {"start"}]
        /\ UNCHANGED <<waiting, unloader, spent>>

\* cube/load: the file, and the journal of the cube alone.
CubeLoaded ==
    FoldLeft(Replayed,
             [v |-> [version EXCEPT !.cells = disk.cube.cells], dirty |-> FALSE, failed |-> FALSE],
             SetToSortSeq(disk.cubeLog, LAMBDA e, f : e.at < f.at))

\* A cube the replay has changed is saved while the file is locked.
LoadCube ==
    LET r == CubeLoaded
    IN  /\ MayCommit
        /\ ~ version.loaded
        /\ \A i \in Id : r.v.cells[i] <= MaxValue
        /\ Commit([r.v EXCEPT !.loaded = TRUE, !.pages = Now], "LOADED", FALSE)
        /\ disk' = IF r.dirty
                      THEN [disk EXCEPT !.cube = [OnFile(r.v) EXCEPT !.pages = Now],
                                        !.cubeLog = {}]
                      ELSE disk
        /\ UNCHANGED <<unloader, history>>

-----------------------------------------------------------------------------
Next ==
    \/ \E n \in Name : CreateElement(n)
    \/ \E i \in Id : DestroyElement(i)
    \/ ClearDimension
    \/ \E i \in Id, op \in {"set", "add"} : ReplaceCell(i, op)
    \/ RequestSave
    \/ BeginSave
    \/ AutoSave
    \/ SkipItem
    \/ SaveDatabase
    \/ SaveCube
    \/ EndSave
    \/ CopyToUnload
    \/ SaveToUnload
    \/ CommitUnload
    \/ LoadCube
    \/ Crash
    \/ Load

Spec == Init /\ [][Next]_vars

-----------------------------------------------------------------------------
(* Properties.                                                             *)

\* What a client sees: the values of the elements by their names.
View(v) ==
    [n \in Name |->
        IF InUse(v.names, n) THEN v.cells[CHOOSE i \in Id : v.names[i] = n] ELSE None]

\* No removal of elements lies between what is in the file of the cube and its
\* journal and what is in the file of the database: it is replayed on a file
\* from before it, or it is in both files and in front of the whole journal.
SameSideOfRemovals(d) ==
    \A r \in history.removals :
        IF \E e \in d.dbLog : e.at = r
            THEN d.cube.at < r
            ELSE d.cube.at >= r /\ \A e \in d.cubeLog : e.at > r

\* No addition is in the file of the cube and in its journal.
AddedOnce(d) == \A e \in d.cubeLog : e.op = "add" => e.at > d.cube.at

FilesInStep(d) == history.lost = {} /\ SameSideOfRemovals(d) /\ AddedOnce(d)

\* After a crash at any point of a commit or a save the next start restores the
\* committed version, unless a save of an old version or a crash between the
\* archiving of the journal and the replacement of the database's file has lost
\* commits, a removal lies between the files, or an addition would be made
\* twice.
RecoversCommitted ==
    LET d == Mended
        r == Recovered(d)
    IN  phase = "down" /\ FilesInStep(d) =>
            ~ r.failed /\ View(r.v) = View(version)

\* Nothing commits, saves or unloads a cube behind the status: a cube that is not
\* CHANGED has its cells in the file, unless a save of an old version overwrote
\* it.  One that is not loaded gets them back with cube/load and its journal, if
\* the files are in step as RecoversCommitted asks.
LoadedIsOnDisk ==
    /\ phase = "up" /\ saver = None /\ disk.cube # None
    /\ version.cube \notin changed.cube /\ "cube" \notin history.lost
    => /\ disk.cube.cells = version.cells
       /\ ~ version.loaded /\ FilesInStep(disk) => CubeLoaded.v.cells = version.cells

=============================================================================
