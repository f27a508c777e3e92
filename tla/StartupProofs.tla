--------------------------- MODULE StartupProofs ---------------------------
(***************************************************************************)
(* What holds of every start of clippod, for any number of processes, keys *)
(* and stops: the name, the modes and the version keep their order, and    *)
(* the key of the history is the one the next start finds.                 *)
(***************************************************************************)
EXTENDS Startup, TLAPS

(* How far a start has come.                                               *)
Searching   == {"ring", "store", "fallback"}
Served      == {"load", "name", "sweep", "serving"}
Restricted  == {"check", "ensure", "schema"} \cup Served
Opened      == {"restrict"} \cup Restricted
Prepared    == {"open"} \cup Opened
Opening     == {"dir", "open", "restrict", "check", "ensure", "schema"}
HoldingAKey == {"store", "write"} \cup Opening

(* The key a start that finds the disk and the Secret Service so would     *)
(* take.                                                                   *)
Found(key) == keyFile = key \/ (keyFile = None /\ ring = key)

Placed ==
  \A p \in Procs :
    /\ pc[p] \in Prepared    => dir = "private"
    /\ pc[p] \in Opened      => db.there
    /\ pc[p] \in Restricted  => db.private
    /\ pc[p] \in HoldingAKey => mine[p] # None

Written == NeverUnversioned /\ (db.tables => db.there /\ db.key # None)

(* The first run, before it has created the tables: nobody else is up, and *)
(* the key in its hand is where the next one looks.                        *)
FirstRun ==
  alone /\ ~db.tables =>
    /\ \A p, q \in Procs : p # q => At(p, "down") \/ At(q, "down")
    /\ \A p \in Procs : pc[p] \in Searching => keyFile = None
    /\ \A p \in Procs : pc[p] \in Opening => Found(mine[p])

(* Every later run finds the key of the history and makes no other.        *)
LaterRuns ==
  alone /\ db.tables =>
    /\ Found(db.key)
    /\ \A p \in Procs : pc[p] \notin {"store", "create", "write"}
    /\ \A p \in Procs : At(p, "ring") => keyFile = None

Safe == TypeOK /\ Placed /\ Written /\ OneAtATime
IInv == Safe /\ FirstRun /\ LaterRuns

USE DEF None, At, GoTo, Has

LEMMA Initially == Init => IInv
<1> SUFFICES ASSUME Init PROVE IInv
  OBVIOUS
<1>1. TypeOK
  BY StartupAssumption DEF Init, TypeOK, NoDatabase, Places, Torn
<1>2. Placed /\ Written /\ OneAtATime
  BY DEF Init, Placed, Written, NeverUnversioned, OneAtATime, NoDatabase,
     Prepared, Opened, Restricted, Served, HoldingAKey, Opening
<1>3. FirstRun /\ LaterRuns
  BY DEF Init, FirstRun, LaterRuns, NoDatabase, Searching, Opening
<1> QED
  BY <1>1, <1>2, <1>3 DEF IInv, Safe

-----------------------------------------------------------------------------
(* A process that ends gives up its key and the name, and no other         *)
(* process sees more of it.                                                *)
LEMMA ExitIsSafe ==
  ASSUME IInv, NEW p \in Procs, Exit(p),
         UNCHANGED <<keyFile, db, ring, alone, reachable>>,
         dir' \in {dir, "private"}, stops' \in 0..Stops
  PROVE  IInv'
<1>1. TypeOK'
  BY StartupAssumption DEF IInv, Safe, TypeOK, Exit, Places
<1>2. Placed' /\ Written'
  BY DEF IInv, Safe, TypeOK, Exit, Placed, Written, NeverUnversioned,
     Prepared, Opened, Restricted, Served, HoldingAKey, Opening
<1>3. OneAtATime'
  BY DEF IInv, Safe, TypeOK, Exit, OneAtATime
<1>4. FirstRun' /\ LaterRuns'
  BY DEF IInv, Safe, TypeOK, Exit, FirstRun, LaterRuns, Found, Searching, Opening
<1> QED
  BY <1>1, <1>2, <1>3, <1>4 DEF IInv, Safe

(* Every step of a start keeps the invariant: a first run creates the      *)
(* tables under a key that is where the next run looks, and a later run    *)
(* creates none.                                                           *)
LEMMA StepIsSafe ==
  ASSUME IInv, NEW p \in Procs, Steps(p)
  PROVE  IInv'
<1> USE StartupAssumption DEF IInv, Safe, TypeOK, disk, Places, Torn, Prepared, Opened, Restricted, Served, HoldingAKey, Opening, Searching, Found, Written, NeverUnversioned
<1>1. CASE Start(p)
  <2>1. TypeOK' /\ Written'
    BY <1>1 DEF Start
  <2>2. Placed'
    BY <1>1 DEF Start, Placed
  <2>3. OneAtATime'
    BY <1>1 DEF Start, OneAtATime
  <2>4. FirstRun'
    BY <1>1 DEF Start, Placed, FirstRun
  <2>5. LaterRuns'
    BY <1>1 DEF Start, Placed, FirstRun, LaterRuns
  <2> QED
    BY <2>1, <2>2, <2>3, <2>4, <2>5
<1>2. CASE ReadKeyFile(p)
  <2>1. CASE Exit(p)
    BY <1>2, <2>1, ExitIsSafe DEF ReadKeyFile, Exit
  <2>2. CASE ~Exit(p)
    <3>1. TypeOK' /\ Written'
      BY <1>2, <2>2 DEF ReadKeyFile
    <3>2. Placed'
      BY <1>2, <2>2 DEF ReadKeyFile, Placed
    <3>3. OneAtATime'
      BY <1>2, <2>2 DEF ReadKeyFile, OneAtATime
    <3>4. FirstRun'
      BY <1>2, <2>2 DEF ReadKeyFile, Placed, FirstRun
    <3>5. LaterRuns'
      BY <1>2, <2>2 DEF ReadKeyFile, Placed, FirstRun, LaterRuns
    <3> QED
      BY <3>1, <3>2, <3>3, <3>4, <3>5
  <2> QED
    BY <2>1, <2>2
<1>3. CASE SearchRing(p)
  <2>1. TypeOK' /\ Written'
    BY <1>3 DEF SearchRing, NewKey
  <2>2. Placed'
    BY <1>3 DEF SearchRing, NewKey, Placed
  <2>3. OneAtATime'
    BY <1>3 DEF SearchRing, NewKey, OneAtATime
  <2>4. FirstRun'
    BY <1>3 DEF SearchRing, NewKey, Placed, FirstRun
  <2>5. LaterRuns'
    BY <1>3 DEF SearchRing, NewKey, Placed, FirstRun, LaterRuns
  <2> QED
    BY <2>1, <2>2, <2>3, <2>4, <2>5
<1>4. CASE StoreKey(p)
  <2>1. TypeOK' /\ Written'
    BY <1>4 DEF StoreKey
  <2>2. Placed'
    BY <1>4 DEF StoreKey, Placed
  <2>3. OneAtATime'
    BY <1>4 DEF StoreKey, OneAtATime
  <2>4. FirstRun'
    BY <1>4 DEF StoreKey, Placed, FirstRun
  <2>5. LaterRuns'
    BY <1>4 DEF StoreKey, Placed, FirstRun, LaterRuns
  <2> QED
    BY <2>1, <2>2, <2>3, <2>4, <2>5
<1>5. CASE FallBack(p)
  <2>1. CASE Exit(p)
    BY <1>5, <2>1, ExitIsSafe DEF FallBack, Exit
  <2>2. CASE ~Exit(p)
    <3>1. TypeOK' /\ Written'
      BY <1>5, <2>2 DEF FallBack
    <3>2. Placed'
      BY <1>5, <2>2 DEF FallBack, Placed
    <3>3. OneAtATime'
      BY <1>5, <2>2 DEF FallBack, OneAtATime
    <3>4. FirstRun'
      BY <1>5, <2>2 DEF FallBack, Placed, FirstRun
    <3>5. LaterRuns'
      BY <1>5, <2>2 DEF FallBack, Placed, FirstRun, LaterRuns
    <3> QED
      BY <3>1, <3>2, <3>3, <3>4, <3>5
  <2> QED
    BY <2>1, <2>2
<1>6. CASE CreateKeyFile(p)
  <2>1. CASE Exit(p)
    BY <1>6, <2>1, ExitIsSafe DEF CreateKeyFile, Exit, NewKey
  <2>2. CASE ~Exit(p)
    <3>1. TypeOK' /\ Written'
      BY <1>6, <2>2 DEF CreateKeyFile, NewKey
    <3>2. Placed'
      BY <1>6, <2>2 DEF CreateKeyFile, NewKey, Placed
    <3>3. OneAtATime'
      BY <1>6, <2>2 DEF CreateKeyFile, NewKey, OneAtATime
    <3>4. FirstRun'
      BY <1>6, <2>2 DEF CreateKeyFile, NewKey, Placed, FirstRun
    <3>5. LaterRuns'
      BY <1>6, <2>2 DEF CreateKeyFile, NewKey, Placed, FirstRun, LaterRuns
    <3> QED
      BY <3>1, <3>2, <3>3, <3>4, <3>5
  <2> QED
    BY <2>1, <2>2
<1>7. CASE WriteKeyFile(p)
  <2>1. TypeOK' /\ Written'
    BY <1>7 DEF WriteKeyFile
  <2>2. Placed'
    BY <1>7 DEF WriteKeyFile, Placed
  <2>3. OneAtATime'
    BY <1>7 DEF WriteKeyFile, OneAtATime
  <2>4. FirstRun'
    BY <1>7 DEF WriteKeyFile, Placed, FirstRun
  <2>5. LaterRuns'
    BY <1>7 DEF WriteKeyFile, Placed, FirstRun, LaterRuns
  <2> QED
    BY <2>1, <2>2, <2>3, <2>4, <2>5
<1>8. CASE PrepareDir(p)
  <2>1. TypeOK' /\ Written'
    BY <1>8 DEF PrepareDir
  <2>2. Placed'
    BY <1>8 DEF PrepareDir, Placed
  <2>3. OneAtATime'
    BY <1>8 DEF PrepareDir, OneAtATime
  <2>4. FirstRun'
    BY <1>8 DEF PrepareDir, Placed, FirstRun
  <2>5. LaterRuns'
    BY <1>8 DEF PrepareDir, Placed, FirstRun, LaterRuns
  <2> QED
    BY <2>1, <2>2, <2>3, <2>4, <2>5
<1>9. CASE OpenFile(p)
  <2>1. TypeOK' /\ Written'
    BY <1>9 DEF OpenFile
  <2>2. Placed'
    BY <1>9 DEF OpenFile, Placed
  <2>3. OneAtATime'
    BY <1>9 DEF OpenFile, OneAtATime
  <2>4. FirstRun'
    BY <1>9 DEF OpenFile, Placed, FirstRun
  <2>5. LaterRuns'
    BY <1>9 DEF OpenFile, Placed, FirstRun, LaterRuns
  <2> QED
    BY <2>1, <2>2, <2>3, <2>4, <2>5
<1>10. CASE Restrict(p)
  <2>1. TypeOK' /\ Written'
    BY <1>10 DEF Restrict
  <2>2. Placed'
    BY <1>10 DEF Restrict, Placed
  <2>3. OneAtATime'
    BY <1>10 DEF Restrict, OneAtATime
  <2>4. FirstRun'
    BY <1>10 DEF Restrict, Placed, FirstRun
  <2>5. LaterRuns'
    BY <1>10 DEF Restrict, Placed, FirstRun, LaterRuns
  <2> QED
    BY <2>1, <2>2, <2>3, <2>4, <2>5
<1>11. CASE CheckKey(p)
  <2>1. CASE Exit(p)
    BY <1>11, <2>1, ExitIsSafe DEF CheckKey, Exit, Decrypts
  <2>2. CASE ~Exit(p)
    <3>1. TypeOK' /\ Written'
      BY <1>11, <2>2 DEF CheckKey, Decrypts
    <3>2. Placed'
      BY <1>11, <2>2 DEF CheckKey, Decrypts, Placed
    <3>3. OneAtATime'
      BY <1>11, <2>2 DEF CheckKey, Decrypts, OneAtATime
    <3>4. FirstRun'
      BY <1>11, <2>2 DEF CheckKey, Decrypts, Placed, FirstRun
    <3>5. LaterRuns'
      BY <1>11, <2>2 DEF CheckKey, Decrypts, Placed, FirstRun, LaterRuns
    <3> QED
      BY <3>1, <3>2, <3>3, <3>4, <3>5
  <2> QED
    BY <2>1, <2>2
<1>12. CASE Ensure(p)
  <2>1. CASE Exit(p)
    BY <1>12, <2>1, ExitIsSafe DEF Ensure, Exit, Decrypts
  <2>2. CASE ~Exit(p)
    <3>1. TypeOK' /\ Written'
      BY <1>12, <2>2 DEF Ensure, Decrypts
    <3>2. Placed'
      BY <1>12, <2>2 DEF Ensure, Decrypts, Placed
    <3>3. OneAtATime'
      BY <1>12, <2>2 DEF Ensure, Decrypts, OneAtATime
    <3>4. FirstRun'
      BY <1>12, <2>2 DEF Ensure, Decrypts, Placed, FirstRun
    <3>5. LaterRuns'
      BY <1>12, <2>2 DEF Ensure, Decrypts, Placed, FirstRun, LaterRuns
    <3> QED
      BY <3>1, <3>2, <3>3, <3>4, <3>5
  <2> QED
    BY <2>1, <2>2
<1>13. CASE CreateSchema(p)
  <2>1. CASE Exit(p)
    BY <1>13, <2>1, ExitIsSafe DEF CreateSchema, Exit
  <2>2. CASE ~Exit(p)
    <3>1. /\ ~db.tables /\ db' = [db EXCEPT !.key = mine[p], !.tables = TRUE, !.version = 1]
          /\ At(p, "schema") /\ GoTo(p, "load") /\ UNCHANGED <<keyFile, dir, ring, reachable, alone, stops, mine, name>>
      BY <1>13, <2>2 DEF CreateSchema
    <3>2. /\ db.there /\ mine[p] \in 1..Keys
      BY <3>1 DEF Placed
    <3>3. db' = [there |-> TRUE, private |-> db.private, key |-> mine[p], tables |-> TRUE, version |-> 1]
      BY <3>1, <3>2
    <3>4. TypeOK' /\ Written'
      <4>1. db.private \in BOOLEAN /\ mine[p] \in 0..Keys /\ 1 \in 0..1
        BY <3>2
      <4>2. db' \in [there : BOOLEAN, private : BOOLEAN, key : 0..Keys, tables : BOOLEAN, version : 0..1]
        BY <3>3, <4>1
      <4>3. Written'
        BY <3>2, <3>3
      <4> QED
        BY <3>1, <4>2, <4>3
    <3>5. Placed'
      BY <3>1, <3>3 DEF Placed
    <3>6. OneAtATime'
      BY <3>1 DEF OneAtATime
    <3>7. FirstRun'
      BY <3>3 DEF FirstRun
    <3>8. LaterRuns'
      <4>1. ASSUME alone
            PROVE  Found(mine[p]) /\ \A q \in Procs : q # p => At(q, "down")
        BY <4>1, <3>1 DEF FirstRun
      <4> QED
        BY <4>1, <3>1, <3>3 DEF LaterRuns
    <3> QED
      BY <3>4, <3>5, <3>6, <3>7, <3>8
  <2> QED
    BY <2>1, <2>2
<1>14. CASE LoadHistory(p)
  <2>1. TypeOK' /\ Written'
    BY <1>14 DEF LoadHistory
  <2>2. Placed'
    BY <1>14 DEF LoadHistory, Placed
  <2>3. OneAtATime'
    BY <1>14 DEF LoadHistory, OneAtATime
  <2>4. FirstRun'
    BY <1>14 DEF LoadHistory, Placed, FirstRun
  <2>5. LaterRuns'
    BY <1>14 DEF LoadHistory, Placed, FirstRun, LaterRuns
  <2> QED
    BY <2>1, <2>2, <2>3, <2>4, <2>5
<1>15. CASE AcquireName(p)
  <2>1. CASE Exit(p)
    BY <1>15, <2>1, ExitIsSafe DEF AcquireName, Exit
  <2>2. CASE ~Exit(p)
    <3>1. TypeOK' /\ Written'
      BY <1>15, <2>2 DEF AcquireName
    <3>2. Placed'
      BY <1>15, <2>2 DEF AcquireName, Placed
    <3>3. OneAtATime'
      BY <1>15, <2>2 DEF AcquireName, OneAtATime
    <3>4. FirstRun'
      BY <1>15, <2>2 DEF AcquireName, Placed, FirstRun
    <3>5. LaterRuns'
      BY <1>15, <2>2 DEF AcquireName, Placed, FirstRun, LaterRuns
    <3> QED
      BY <3>1, <3>2, <3>3, <3>4, <3>5
  <2> QED
    BY <2>1, <2>2
<1>16. CASE Sweep(p)
  <2>1. TypeOK' /\ Written'
    BY <1>16 DEF Sweep
  <2>2. Placed'
    BY <1>16 DEF Sweep, Placed
  <2>3. OneAtATime'
    BY <1>16 DEF Sweep, OneAtATime
  <2>4. FirstRun'
    BY <1>16 DEF Sweep, Placed, FirstRun
  <2>5. LaterRuns'
    BY <1>16 DEF Sweep, Placed, FirstRun, LaterRuns
  <2> QED
    BY <2>1, <2>2, <2>3, <2>4, <2>5
<1> QED
  BY <1>1, <1>2, <1>3, <1>4, <1>5, <1>6, <1>7, <1>8, <1>9, <1>10, <1>11, <1>12, <1>13, <1>14, <1>15, <1>16 DEF Steps

LEMMA Inductive == IInv /\ [Next]_vars => IInv'
<1> SUFFICES ASSUME IInv, [Next]_vars PROVE IInv'
  OBVIOUS
<1> USE DEF IInv, Safe
<1>1. ASSUME NEW p \in Procs, Stop(p)
      PROVE  IInv'
  <2>1. /\ Exit(p) /\ UNCHANGED <<keyFile, db, ring, alone, reachable>>
        /\ dir' \in {dir, "private"} /\ stops' \in 0..Stops
    BY <1>1, StartupAssumption DEF Stop, disk, TypeOK
  <2> QED
    BY <2>1, ExitIsSafe
<1>2. CASE RingChanges
  <2>1. TypeOK'
    BY <1>2 DEF RingChanges, disk, TypeOK, Torn
  <2>2. Placed' /\ Written' /\ OneAtATime'
    BY <1>2 DEF RingChanges, disk, Placed, Written, NeverUnversioned, OneAtATime
  <2>3. FirstRun' /\ LaterRuns'
    BY <1>2 DEF RingChanges, disk, FirstRun, LaterRuns, Found
  <2> QED
    BY <2>1, <2>2, <2>3
<1>3. CASE UNCHANGED vars
  BY <1>3 DEF vars, disk, TypeOK, Torn, Placed, Written, NeverUnversioned, OneAtATime,
     FirstRun, LaterRuns, Found
<1> QED
  BY <1>1, <1>2, <1>3, StepIsSafe DEF Next

THEOREM AlwaysIInv == Spec => []IInv
BY Initially, Inductive, PTL DEF Spec

-----------------------------------------------------------------------------
(* Every variable keeps its type.                                          *)
THEOREM TypeCorrect == Spec => []TypeOK
<1>1. IInv => TypeOK
  BY DEF IInv, Safe
<1> QED
  BY <1>1, AlwaysIInv, PTL

(* Unless two first runs have overlapped, the key of the history is the    *)
(* one the next start takes (key.rs acquire_in), whatever crashes and      *)
(* outages of the Secret Service there were.                               *)
THEOREM KeyAlwaysFoundAlone == Spec => []KeyIsFoundAlone
<1>1. IInv => KeyIsFoundAlone
  BY DEF IInv, LaterRuns, Found, KeyIsFoundAlone, KeyIsFound
<1> QED
  BY <1>1, AlwaysIInv, PTL

(* At most one process gets as far as changing entries, and it owns the    *)
(* name (main.rs acquire_name).                                            *)
THEOREM AlwaysOneAtATime == Spec => []OneAtATime
<1>1. IInv => OneAtATime
  BY DEF IInv, Safe
<1> QED
  BY <1>1, AlwaysIInv, PTL

(* The tables and the version come together (schema.rs create).            *)
THEOREM AlwaysVersioned == Spec => []NeverUnversioned
<1>1. IInv => NeverUnversioned
  BY DEF IInv, Safe, Written
<1> QED
  BY <1>1, AlwaysIInv, PTL

(* Nothing is written before the directory and the file are narrowed       *)
(* (store.rs open_default, restrict_db_file).                              *)
THEOREM AlwaysWrittenInPrivate == Spec => WrittenInPrivate
<1>1. IInv /\ [Next]_vars => [db'.tables # db.tables => dir = "private" /\ db.private]_vars
  <2> SUFFICES ASSUME IInv, Next, db'.tables # db.tables
               PROVE  dir = "private" /\ db.private
    BY DEF vars, disk
  <2> USE DEF IInv, Safe, TypeOK
  <2>1. ASSUME NEW p \in Procs, Steps(p)
        PROVE  CreateSchema(p)
    BY <2>1 DEF Steps, Start, ReadKeyFile, SearchRing, StoreKey, FallBack, CreateKeyFile,
       WriteKeyFile, PrepareDir, OpenFile, Restrict, CheckKey, Ensure, LoadHistory,
       AcquireName, Sweep, disk
  <2>2. ASSUME NEW p \in Procs, Steps(p)
        PROVE  dir = "private" /\ db.private
    BY <2>1, <2>2 DEF CreateSchema, Placed, Prepared, Opened, Restricted
  <2> QED
    BY <2>2 DEF Next, RingChanges, Stop, disk
<1> QED
  BY <1>1, AlwaysIInv, PTL DEF Spec, WrittenInPrivate
=============================================================================
