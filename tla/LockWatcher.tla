---------------------------- MODULE LockWatcher ----------------------------
(***************************************************************************)
(* RedMutex and LockWatcher (patterns/redlock.h, redlock.cpp): mutexes     *)
(* that are locked and unlocked by the threads of an application, and the  *)
(* one thread that extends their locks while they are locked.              *)
(*                                                                         *)
(* A step is what a thread does under RedMutexImpl::_mtx or                *)
(* LockWatcher::_mtx. The lock on the masters is reduced to the lock id    *)
(* its key holds (RedLockMutex models it): any command may fail, and the   *)
(* key may expire at any time, since nothing bounds how late a watcher is. *)
(***************************************************************************)
EXTENDS Naturals

CONSTANTS Mutexes,  \* RedMutex objects for the same resource, with the same watcher
          Scripted, \* those with RedMutexOptions::scripting, the default; others use RedMutexTx
          NoMutex,  \* the watcher runs no task
          MaxIds    \* bound: the number of lock ids, that is of successful try_lock()

ASSUME WatcherAssumption == NoMutex \notin Mutexes /\ Scripted \subseteq Mutexes /\ MaxIds \in Nat

VARIABLES keyId,      \* the lock id the masters hold, 0 if none
          ids,        \* how many lock ids have been made
          lockId,     \* RedMutexImpl::_lock_id, 0 if empty
          userRef,    \* mutexes whose RedMutex exists
          appRef,     \* whether the application itself keeps the shared LockWatcher
          tasks,      \* LockWatcher::_tasks: how many for each mutex
          terminate,  \* whether the default constructed Task is in _tasks
          wpc,        \* what _watcher_thread is doing
          batch,      \* ready_tasks that it has still to run
          again,      \* rescheduled_tasks
          cur,        \* the mutex of the task that it runs, locked from its weak_ptr
          dtor        \* ~LockWatcher: "none", "joining", "done", or "terminated"

userVars == <<keyId, ids, lockId, userRef, appRef>>
watcherVars == <<tasks, terminate, wpc, batch, again, cur, dtor>>
allVars == <<userVars, watcherVars>>

WatcherTypeOK ==
    /\ keyId \in 0..MaxIds /\ ids \in 0..MaxIds
    /\ lockId \in [Mutexes -> 0..MaxIds]
    /\ userRef \subseteq Mutexes
    /\ {appRef, terminate} \subseteq BOOLEAN
    /\ {tasks, batch, again} \subseteq [Mutexes -> Nat]
    /\ wpc \in {"fetch", "run", "check", "extend", "release", "ended"}
    /\ cur \in Mutexes \cup {NoMutex}
    /\ wpc \in {"check", "extend", "release"} <=> cur # NoMutex
    /\ dtor \in {"none", "joining", "done", "terminated"}

None == [m \in Mutexes |-> 0]

WatcherInit ==
    /\ keyId = 0 /\ ids = 0
    /\ lockId = None
    /\ userRef = Mutexes
    /\ appRef \in BOOLEAN
    /\ tasks = None /\ batch = None /\ again = None
    /\ terminate = FALSE
    /\ wpc = "fetch"
    /\ cur = NoMutex
    /\ dtor = "none"

Running == dtor # "terminated"
Locked(m) == lockId[m] # 0

(***************************************************************************)
(* The threads of the application                                          *)
(***************************************************************************)
\* try_lock(), which lock() repeats until it succeeds.
TryLock(m) ==
    /\ Running /\ m \in userRef /\ ids < MaxIds
    /\ keyId = 0
    /\ keyId' = ids + 1 /\ ids' = ids + 1
    /\ lockId' = [lockId EXCEPT ![m] = ids + 1]
    /\ tasks' = [tasks EXCEPT ![m] = @ + 1]
    /\ UNCHANGED <<userRef, appRef, terminate, wpc, batch, again, cur, dtor>>

\* An exception leaves try_lock() and its keys on the masters; so does a RedMutexTx
\* that finds too little time left, since its unlock(_resource) deletes no key.
TryLockThrows(m) ==
    /\ Running /\ m \in userRef /\ ids < MaxIds
    /\ keyId = 0
    /\ keyId' = ids + 1 /\ ids' = ids + 1
    /\ UNCHANGED <<lockId, userRef, appRef, watcherVars>>

\* unlock() ignores exceptions, and then the key may be left.
Unlock(m) ==
    /\ Running /\ m \in userRef
    /\ Locked(m)
    /\ keyId' \in {keyId, IF keyId = lockId[m] THEN 0 ELSE keyId}
    /\ lockId' = [lockId EXCEPT ![m] = 0]
    /\ UNCHANGED <<ids, userRef, appRef, watcherVars>>

KeyExpires ==
    /\ Running
    /\ keyId # 0
    /\ keyId' = 0
    /\ UNCHANGED <<ids, lockId, userRef, appRef, watcherVars>>

\* Mutant: the destructor joins without the task that ends the thread.
LetGo_joinsOnly(refs, app) ==
    /\ Running
    /\ userRef' = refs /\ appRef' = app
    /\ dtor' = IF refs = {} /\ ~app /\ cur = NoMutex THEN "joining" ELSE dtor
    /\ UNCHANGED <<keyId, ids, lockId, tasks, terminate, wpc, batch, again, cur>>

\* The application destroys a RedMutex or lets go of the watcher. The last
\* reference to the watcher runs ~LockWatcher: it adds the task that terminates
\* the thread, and joins.
LetGo(refs, app) ==
    /\ Running
    /\ userRef' = refs /\ appRef' = app
    /\ IF refs = {} /\ ~app /\ cur = NoMutex
       THEN terminate' = TRUE /\ dtor' = "joining"
       ELSE UNCHANGED <<terminate, dtor>>
    /\ UNCHANGED <<keyId, ids, lockId, tasks, wpc, batch, again, cur>>

DestroyMutex(m) == m \in userRef /\ LetGo(userRef \ {m}, appRef)

DropWatcher == appRef /\ LetGo(userRef, FALSE)

Joined ==
    /\ dtor = "joining"
    /\ wpc = "ended"
    /\ dtor' = "done"
    /\ UNCHANGED <<userVars, tasks, terminate, wpc, batch, again, cur>>

(***************************************************************************)
(* The watcher thread                                                      *)
(***************************************************************************)
\* _fetch_tasks() takes the tasks whose time has come.
Fetch(m) ==
    /\ Running /\ wpc = "fetch" /\ ~terminate
    /\ tasks[m] > 0
    /\ \E ready \in [Mutexes -> 0..MaxIds] :
          /\ ready[m] > 0
          /\ \A n \in Mutexes : ready[n] <= tasks[n]
          /\ batch' = ready
          /\ tasks' = [n \in Mutexes |-> tasks[n] - ready[n]]
    /\ wpc' = "run"
    /\ UNCHANGED <<userVars, terminate, again, cur, dtor>>

\* The default constructed Task comes first, and ends the thread.
FetchTerminate ==
    /\ Running /\ wpc = "fetch" /\ terminate
    /\ wpc' = "ended"
    /\ UNCHANGED <<userVars, tasks, terminate, batch, again, cur, dtor>>

\* Task::run(): `_mtx.lock()', which fails when the mutex is destroyed.
StartTask(m) ==
    /\ Running /\ wpc = "run"
    /\ batch[m] > 0
    /\ batch' = [batch EXCEPT ![m] = @ - 1]
    /\ IF m \in userRef THEN wpc' = "check" /\ cur' = m ELSE UNCHANGED <<wpc, cur>>
    /\ UNCHANGED <<userVars, tasks, terminate, again, dtor>>

\* mtx->locked()
CheckLocked ==
    /\ Running /\ wpc = "check"
    /\ wpc' = IF Locked(cur) THEN "extend" ELSE "release"
    /\ UNCHANGED <<userVars, tasks, terminate, batch, again, cur, dtor>>

\* mtx->extend_lock() throws if the mutex was unlocked since.
ExtendUnlocked ==
    /\ Running /\ wpc = "extend"
    /\ ~Locked(cur)
    /\ wpc' = "release"
    /\ UNCHANGED <<userVars, tasks, terminate, batch, again, cur, dtor>>

\* It extends the lock, and the task will be rescheduled. Only the script compares
\* first: RedMutexTx counts a master without the key, or with the key of another
\* lock, as extended as well.
TaskExtends ==
    /\ Running /\ wpc = "extend"
    /\ Locked(cur)
    /\ cur \in Scripted => keyId = lockId[cur]
    /\ again' = [again EXCEPT ![cur] = @ + 1]
    /\ wpc' = "release"
    /\ UNCHANGED <<userVars, tasks, terminate, batch, cur, dtor>>

\* A failed extend_lock() deletes the key, or cannot. That of RedMutexTx deletes
\* none: it calls unlock(_resource).
Cleanup == keyId' = keyId \/ (cur \in Scripted /\ keyId = lockId[cur] /\ keyId' = 0)

\* Mutant: a lock that was lost stays locked.
TaskFails_keeps ==
    /\ Running /\ wpc = "extend"
    /\ Locked(cur)
    /\ Cleanup
    /\ wpc' = "release"
    /\ UNCHANGED <<ids, lockId, userRef, appRef, tasks, terminate, batch, again, cur, dtor>>

\* It fails, calls the error callback, and resets the mutex.
TaskFails ==
    /\ Running /\ wpc = "extend"
    /\ Locked(cur)
    /\ Cleanup
    /\ lockId' = [lockId EXCEPT ![cur] = 0]
    /\ wpc' = "release"
    /\ UNCHANGED <<ids, userRef, appRef, tasks, terminate, batch, again, cur, dtor>>

\* The shared_ptr of Task::run() is released. If it was the last one of the
\* mutex, and that one the last one of the watcher, then ~LockWatcher runs on
\* the thread that it joins, and the exception of join() ends the process.
Release ==
    /\ Running /\ wpc = "release"
    /\ cur' = NoMutex
    /\ wpc' = "run"
    /\ IF userRef = {} /\ ~appRef THEN terminate' = TRUE /\ dtor' = "terminated"
                                  ELSE UNCHANGED <<terminate, dtor>>
    /\ UNCHANGED <<userVars, tasks, batch, again>>

\* Mutant: extended tasks are not queued again.
Reschedule_forgets ==
    /\ Running /\ wpc = "run"
    /\ batch = None
    /\ again' = None
    /\ wpc' = "fetch"
    /\ UNCHANGED <<userVars, tasks, terminate, batch, cur, dtor>>

Reschedule ==
    /\ Running /\ wpc = "run"
    /\ batch = None
    /\ tasks' = [m \in Mutexes |-> tasks[m] + again[m]]
    /\ again' = None
    /\ wpc' = "fetch"
    /\ UNCHANGED <<userVars, terminate, batch, cur, dtor>>

-----------------------------------------------------------------------------
User ==
    \/ \E m \in Mutexes : TryLock(m) \/ TryLockThrows(m) \/ Unlock(m) \/ DestroyMutex(m)
    \/ DropWatcher \/ KeyExpires

RunTasks ==
    \/ \E m \in Mutexes : StartTask(m)
    \/ CheckLocked \/ ExtendUnlocked \/ TaskExtends \/ TaskFails \/ Release \/ Reschedule

Watcher == RunTasks \/ FetchTerminate \/ \E m \in Mutexes : Fetch(m)

WatcherNext == User \/ Watcher \/ Joined

WatcherSpec == WatcherInit /\ [][WatcherNext]_allVars

\* The thread runs; as time passes every task gets ready, and the queue is in
\* the order of time; join() returns when the thread has ended.
WatcherFairness ==
    /\ WF_allVars(RunTasks) /\ WF_allVars(FetchTerminate) /\ WF_allVars(Joined)
    /\ \A m \in Mutexes : SF_allVars(Fetch(m))

FairWatcherSpec == WatcherSpec /\ WatcherFairness

-----------------------------------------------------------------------------
(***************************************************************************)
(* Properties                                                              *)
(***************************************************************************)
\* Every locked mutex that still exists has a task waiting, or running before
\* its decision, so its lock is going to be extended: whatever the order of
\* unlock(), try_lock() and the steps of a task that found it locked.
LockedIsWatched ==
    \A m \in userRef :
        Locked(m) => \/ tasks[m] > 0 \/ batch[m] > 0 \/ again[m] > 0
                     \/ cur = m /\ wpc \in {"check", "extend"}

Lost(m) == Locked(m) /\ keyId # lockId[m]

\* A mutex made with the scripts (the default) that believes to be locked after
\* its key was lost finds out, also when other mutexes of the watcher use
\* transactions.
LostLockIsNoticed == \A m \in Scripted : Lost(m) ~> (~Lost(m) \/ m \notin userRef \/ ~Running)

\* README.md: "If failing to automatically extend the lock, this error callback will
\* be called." Whichever way a mutex is made, it finds out that its lock is lost.
EveryLossIsNoticed == \A m \in Mutexes : Lost(m) ~> (~Lost(m) \/ m \notin userRef \/ ~Running)

\* Destroying the last RedMutex (or the watcher after it) does not hang.
DestructorReturns == (dtor = "joining") ~> (dtor = "done")

\* redlock.cpp: "A default constructed `Task` will end `_watcher_thread`."
\* The destructor of the watcher ends the thread, and not the process.
NoSelfJoin == dtor # "terminated"
=============================================================================
