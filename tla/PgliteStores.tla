---------------------------- MODULE PgliteStores -----------------------------
(***************************************************************************)
(* Processes that open the same persistent PGlite data directory (models    *)
(* pglite-store.ts): each takes the lock of its .drfed.lock file before it  *)
(* starts the database on the directory, and gives it up after the database *)
(* is closed, while opening and closing may fail and processes may exit.    *)
(*                                                                         *)
(* The operating system's file locks and PGlite are external.               *)
(***************************************************************************)
EXTENDS FiniteSets

CONSTANTS
  Owners,  \* processes
  NoOwner  \* the file is not locked

ASSUME OwnersAssumption == NoOwner \notin Owners

VARIABLES
  fileLock, \* whose descriptor holds the lock
  client,   \* each process's database: not there, "active" or "closed"
  store,    \* where openPersistentPglite() and close() are
  closing   \* whether close() was called

storeVars == <<fileLock, client, store, closing>>

StoreInit ==
  /\ fileLock = NoOwner
  /\ client = [o \in Owners |-> "none"]
  /\ store = [o \in Owners |-> "path"]
  /\ closing = [o \in Owners |-> FALSE]

-----------------------------------------------------------------------------
StoreAt(o, point) == store' = [store EXCEPT ![o] = point]

\* acquireLock(): the directory or the file is unusable, another owner holds
\* the lock, or it is taken.
AcquireLock(o) ==
  /\ store[o] = "path"
  /\ \/ StoreAt(o, "failed") /\ UNCHANGED fileLock
     \/ fileLock = NoOwner /\ fileLock' = o /\ StoreAt(o, "locked")
  /\ UNCHANGED <<client, closing>>

\* The database starts on the directory; when it cannot, the lock is closed.
StartClient(o) ==
  /\ store[o] = "locked"
  /\ \/ /\ StoreAt(o, "starting")
        /\ client' = [client EXCEPT ![o] = "active"]
        /\ UNCHANGED fileLock
     \/ /\ StoreAt(o, "failed")
        /\ fileLock' \in {NoOwner, fileLock} \* closing the file may fail
        /\ UNCHANGED client
  /\ UNCHANGED closing

\* Ready, or open-failed: the owner still has to close it.
ClientReady(o) ==
  /\ store[o] = "starting"
  /\ \E ready \in {"open", "broken"} : StoreAt(o, ready)
  /\ UNCHANGED <<fileLock, client, closing>>

\* Calls of close() share one completion.
CallClose(o) ==
  /\ store[o] \in {"starting", "open", "broken"}
  /\ ~closing[o]
  /\ closing' = [closing EXCEPT ![o] = TRUE]
  /\ UNCHANGED <<fileLock, client, store>>

\* Mutant: the lock is closed whether or not the database could be.
CloseBoth(o) ==
  /\ closing[o]
  /\ store[o] \in {"starting", "open", "broken"}
  /\ client' \in {client, [client EXCEPT ![o] = "closed"]}
  /\ fileLock' = NoOwner
  /\ StoreAt(o, "over")
  /\ UNCHANGED closing

\* A database that fails to close may be active still.
CloseClient(o) ==
  /\ closing[o]
  /\ store[o] \in {"starting", "open", "broken"}
  /\ \/ client' = [client EXCEPT ![o] = "closed"] /\ StoreAt(o, "unlock")
     \/ StoreAt(o, "stuck") /\ UNCHANGED client
  /\ UNCHANGED <<fileLock, closing>>

CloseLock(o) ==
  /\ store[o] = "unlock"
  /\ \/ fileLock' = NoOwner /\ StoreAt(o, "over")
     \/ StoreAt(o, "stuck") /\ UNCHANGED fileLock
  /\ UNCHANGED <<client, closing>>

\* The system releases what the process held; it may be started again.
ExitProcess(o) ==
  /\ store' = [store EXCEPT ![o] = "path"]
  /\ client' = [client EXCEPT ![o] = "none"]
  /\ fileLock' = IF fileLock = o THEN NoOwner ELSE fileLock
  /\ closing' = [closing EXCEPT ![o] = FALSE]

StoreNext ==
  \E o \in Owners :
    \/ AcquireLock(o) \/ StartClient(o) \/ ClientReady(o) \/ CallClose(o)
    \/ CloseClient(o) \/ CloseLock(o) \/ ExitProcess(o)

StoreSpec == StoreInit /\ [][StoreNext]_storeVars

-----------------------------------------------------------------------------
(* Properties                                                              *)

StoreTypeOK ==
  /\ fileLock \in Owners \union {NoOwner}
  /\ client \in [Owners -> {"none", "active", "closed"}]
  /\ store \in [Owners -> {"path", "locked", "starting", "open", "broken",
                           "unlock", "stuck", "over", "failed"}]
  /\ closing \in [Owners -> BOOLEAN]

\* A data directory is never active in two processes, not even after a close
\* that failed: a database that may still run keeps the directory locked until
\* its process ends.
DirectoryHasOneOwner ==
  \A o \in Owners : client[o] = "active" => fileLock = o
=============================================================================
