------------------------------ MODULE Startup ------------------------------
(***************************************************************************)
(* How clippod comes up: main.rs `run', the database key of key.rs and the *)
(* opening of the database in store.rs and schema.rs, step by step, with a *)
(* Secret Service that comes and goes and a process that may stop at any   *)
(* step, by a crash or by an error it returns.  Several processes may      *)
(* start at once: what they share is the data directory, the Secret        *)
(* Service and the name on the session bus.                                *)
(***************************************************************************)
EXTENDS Naturals, FiniteSets

CONSTANTS
  Procs,    \* the clippod processes
  Keys,     \* bound: how many keys there are; one nobody holds any more is new again
  Stops     \* bound: how often a process stops of its own accord

ASSUME StartupAssumption == Keys \in Nat /\ Stops \in Nat /\ 0 \notin Procs

None == 0          \* no key, no owner
Torn == Keys + 1   \* a key file that was created and not written

VARIABLES
  keyFile,    \* what ~/.local/share/clippo/key holds
  ring,       \* the key the Secret Service holds
  reachable,  \* the Secret Service answers
  dir,        \* the data directory: absent, open to others, or private
  db,         \* history.db: [there, private, key, tables, version]
  pc,         \* where each process is
  mine,       \* the key each process has
  name,       \* who owns the bus name
  alone,      \* history variable: no two first runs have overlapped
  stops       \* how often a process has stopped

disk == <<keyFile, dir, db>>
vars == <<disk, ring, reachable, pc, mine, name, alone, stops>>

Places ==
  {"down", "key", "ring", "store", "fallback", "create", "write", "dir", "open",
   "restrict", "check", "ensure", "schema", "load", "name", "sweep", "serving"}

TypeOK ==
  /\ keyFile \in 0..Torn /\ ring \in 0..Keys /\ reachable \in BOOLEAN
  /\ dir \in {"absent", "wide", "private"}
  /\ db \in [there : BOOLEAN, private : BOOLEAN, key : 0..Keys, tables : BOOLEAN, version : 0..1]
  /\ pc \in [Procs -> Places] /\ mine \in [Procs -> 0..Keys]
  /\ name \in Procs \cup {None} /\ alone \in BOOLEAN /\ stops \in 0..Stops

NoDatabase == [there |-> FALSE, private |-> FALSE, key |-> None, tables |-> FALSE, version |-> 0]

(* The first run on a machine, in a directory that may be there already.   *)
Init ==
  /\ keyFile = None /\ ring = None /\ reachable \in BOOLEAN
  /\ dir \in {"absent", "wide"} /\ db = NoDatabase
  /\ pc = [p \in Procs |-> "down"] /\ mine = [p \in Procs |-> None]
  /\ name = None /\ alone = TRUE /\ stops = 0

-----------------------------------------------------------------------------

At(p, place)   == pc[p] = place
GoTo(p, place) == pc' = [pc EXCEPT ![p] = place]
Has(p, key)    == mine' = [mine EXCEPT ![p] = key]

(* An error ends the process.                                              *)
Exit(p) ==
  /\ GoTo(p, "down") /\ Has(p, None)
  /\ name' = IF name = p THEN None ELSE name

(* The configuration is read; one that does not parse ends the start.      *)
Start(p) ==
  /\ At(p, "down")
  /\ GoTo(p, "key")
  /\ alone' = (alone /\ (db.tables \/ \A q \in Procs : At(q, "down")))
  /\ UNCHANGED <<disk, ring, reachable, mine, name, stops>>

(* read_key_file: the file wins over the Secret Service.                   *)
ReadKeyFile(p) ==
  /\ At(p, "key")
  /\ CASE keyFile = None -> GoTo(p, "ring") /\ UNCHANGED <<mine, name>>
       [] keyFile = Torn -> Exit(p)
       [] OTHER          -> GoTo(p, "dir") /\ Has(p, keyFile) /\ UNCHANGED name
  /\ UNCHANGED <<disk, ring, reachable, alone, stops>>

(* Key::random: a key that is nowhere yet.                                 *)
NewKey(p) ==
  \E key \in (1..Keys) \ ({keyFile, ring, db.key} \cup {mine[q] : q \in Procs}) : Has(p, key)

(* Mutant: a Secret Service with no key in it is one that cannot be used.  *)
SearchRingOnly(p) ==
  /\ At(p, "ring")
  /\ IF reachable /\ ring # None THEN GoTo(p, "dir") /\ Has(p, ring) ELSE Exit(p)
  /\ UNCHANGED <<disk, ring, reachable, name, alone, stops>>

(* from_secret_service: the item that is there, or a new key.              *)
SearchRing(p) ==
  /\ At(p, "ring")
  /\ \/ ~reachable /\ GoTo(p, "fallback") /\ UNCHANGED mine
     \/ reachable /\ ring # None /\ GoTo(p, "dir") /\ Has(p, ring)
     \/ reachable /\ ring = None /\ GoTo(p, "store") /\ NewKey(p)
  /\ UNCHANGED <<disk, ring, reachable, name, alone, stops>>

(* create_item, which replaces one that has come to be there.  It may fail *)
(* after the Secret Service has stored the key.                            *)
StoreKey(p) ==
  /\ At(p, "store")
  /\ \/ reachable /\ ring' = mine[p] /\ GoTo(p, "dir") /\ UNCHANGED mine
     \/ reachable /\ ring' = mine[p] /\ GoTo(p, "fallback") /\ Has(p, None)
     \/ UNCHANGED ring /\ GoTo(p, "fallback") /\ Has(p, None)
  /\ UNCHANGED <<disk, reachable, name, alone, stops>>

(* Mutant: a key file is created whatever is there to be decrypted.        *)
FallBackAnyway(p) ==
  /\ At(p, "fallback")
  /\ GoTo(p, "create")
  /\ UNCHANGED <<disk, ring, reachable, mine, name, alone, stops>>

(* fall_back_to_file refuses when there is a database.                     *)
FallBack(p) ==
  /\ At(p, "fallback")
  /\ IF db.there THEN Exit(p) ELSE GoTo(p, "create") /\ UNCHANGED <<mine, name>>
  /\ UNCHANGED <<disk, ring, reachable, alone, stops>>

(* create_key_file: the directory, a new key, a file nobody has created.   *)
CreateKeyFile(p) ==
  /\ At(p, "create")
  /\ dir' = "private"
  /\ IF keyFile # None
     THEN Exit(p) /\ UNCHANGED keyFile
     ELSE keyFile' = Torn /\ GoTo(p, "write") /\ NewKey(p) /\ UNCHANGED name
  /\ UNCHANGED <<db, ring, reachable, alone, stops>>

(* The write and the sync.                                                 *)
WriteKeyFile(p) ==
  /\ At(p, "write")
  /\ keyFile' = mine[p] /\ GoTo(p, "dir")
  /\ UNCHANGED <<dir, db, ring, reachable, mine, name, alone, stops>>

(* open_default: create_data_dir narrows what it finds.                    *)
PrepareDir(p) ==
  /\ At(p, "dir")
  /\ dir' = "private" /\ GoTo(p, "open")
  /\ UNCHANGED <<keyFile, db, ring, reachable, mine, name, alone, stops>>

(* Store::open: SQLite creates the file by the umask.                      *)
OpenFile(p) ==
  /\ At(p, "open")
  /\ db' = [db EXCEPT !.there = TRUE] /\ GoTo(p, "restrict")
  /\ UNCHANGED <<keyFile, dir, ring, reachable, mine, name, alone, stops>>

(* Mutant: the mode is left for later.                                     *)
RestrictNothing(p) ==
  /\ At(p, "restrict")
  /\ GoTo(p, "check")
  /\ UNCHANGED <<disk, ring, reachable, mine, name, alone, stops>>

(* restrict_db_file.                                                       *)
Restrict(p) ==
  /\ At(p, "restrict")
  /\ db' = [db EXCEPT !.private = TRUE] /\ GoTo(p, "check")
  /\ UNCHANGED <<keyFile, dir, ring, reachable, mine, name, alone, stops>>

Decrypts(p) == db.key \in {None, mine[p]}

(* The first query finds out whether the key is the right one.             *)
CheckKey(p) ==
  /\ At(p, "check")
  /\ IF Decrypts(p) THEN GoTo(p, "ensure") /\ UNCHANGED <<mine, name>> ELSE Exit(p)
  /\ UNCHANGED <<disk, ring, reachable, alone, stops>>

(* schema::ensure.                                                         *)
Ensure(p) ==
  /\ At(p, "ensure")
  /\ \/ Decrypts(p) /\ db.version = 1 /\ GoTo(p, "load") /\ UNCHANGED <<mine, name>>
     \/ Decrypts(p) /\ db.version = 0 /\ ~db.tables /\ GoTo(p, "schema") /\ UNCHANGED <<mine, name>>
     \/ (~Decrypts(p) \/ (db.version = 0 /\ db.tables)) /\ Exit(p)
  /\ UNCHANGED <<disk, ring, reachable, alone, stops>>

(* schema::create: one transaction.  Tables that somebody has created      *)
(* since, or a page under another key, are an error.                       *)
CreateSchema(p) ==
  /\ At(p, "schema")
  /\ IF db.tables
     THEN Exit(p) /\ UNCHANGED db
     ELSE /\ db' = [db EXCEPT !.key = mine[p], !.tables = TRUE, !.version = 1]
          /\ GoTo(p, "load") /\ UNCHANGED <<mine, name>>
  /\ UNCHANGED <<keyFile, dir, ring, reachable, alone, stops>>

(* Daemon::new reads the history; the object is exported before the name.  *)
LoadHistory(p) ==
  /\ At(p, "load")
  /\ GoTo(p, "name")
  /\ UNCHANGED <<disk, ring, reachable, mine, name, alone, stops>>

(* Mutant: a process that does not get the name goes on without it.        *)
QueueForName(p) ==
  /\ At(p, "name")
  /\ GoTo(p, "sweep")
  /\ name' = IF name = None THEN p ELSE name
  /\ UNCHANGED <<disk, ring, reachable, mine, alone, stops>>

(* acquire_name, with DoNotQueue.                                          *)
AcquireName(p) ==
  /\ At(p, "name")
  /\ IF name = None THEN name' = p /\ GoTo(p, "sweep") /\ UNCHANGED mine ELSE Exit(p)
  /\ UNCHANGED <<disk, ring, reachable, alone, stops>>

(* sweep_retention, the first change of an entry, and the watcher.         *)
Sweep(p) ==
  /\ At(p, "sweep")
  /\ GoTo(p, "serving")
  /\ UNCHANGED <<disk, ring, reachable, mine, name, alone, stops>>

(* A crash, a signal, or any error of the step the process is at.          *)
Stop(p) ==
  /\ ~At(p, "down") /\ stops < Stops
  /\ stops' = stops + 1 /\ Exit(p)
  /\ UNCHANGED <<disk, ring, reachable, alone>>

(* The Secret Service goes, or is locked; and comes back.                  *)
RingChanges ==
  /\ reachable' = ~reachable
  /\ UNCHANGED <<disk, ring, pc, mine, name, alone, stops>>

Steps(p) ==
  \/ Start(p) \/ ReadKeyFile(p) \/ SearchRing(p) \/ StoreKey(p) \/ FallBack(p)
  \/ CreateKeyFile(p) \/ WriteKeyFile(p) \/ PrepareDir(p) \/ OpenFile(p) \/ Restrict(p)
  \/ CheckKey(p) \/ Ensure(p) \/ CreateSchema(p) \/ LoadHistory(p) \/ AcquireName(p) \/ Sweep(p)

Next == RingChanges \/ \E p \in Procs : Steps(p) \/ Stop(p)

Spec == Init /\ [][Next]_vars

(* The process runs, and the service manager starts it again               *)
(* (res/clippod.service: Restart=on-failure).                              *)
FairSpec == Spec /\ \A p \in Procs : WF_vars(Steps(p))

-----------------------------------------------------------------------------
(* Properties.                                                             *)

(* The key that decrypts the history is the one the next start finds: a    *)
(* key file, if there is one, is that key (key.rs:14).                     *)
KeyIsFound ==
  db.tables => keyFile = db.key \/ (keyFile = None /\ ring = db.key)

(* So it is unless two clippods were up at once before there was a         *)
(* history.                                                                *)
KeyIsFoundAlone == alone => KeyIsFound

(* A database with tables has a version: a start that stops in between     *)
(* leaves one that the next start does not refuse (schema.rs:86).          *)
NeverUnversioned == db.tables <=> db.version = 1

(* The first page is written to a file and a directory others cannot read. *)
WrittenInPrivate == [][db'.tables # db.tables => dir = "private" /\ db.private]_vars

(* Only the owner of the name changes entries: a second clippod exits      *)
(* before it has (main.rs:31).                                             *)
OneAtATime == \A p \in Procs : pc[p] \in {"sweep", "serving"} => name = p

(* Once the Secret Service stays there, some clippod serves in the end,    *)
(* whatever outages and crashes there were, unless one left an unwritten   *)
(* key file or two first runs have overlapped.                             *)
Serving     == \E p \in Procs : pc[p] = "serving"
ServesAgain == <>[]reachable => <>(keyFile = Torn \/ ~alone) \/ <>[]Serving
=============================================================================
