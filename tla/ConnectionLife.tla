----------------------------- MODULE ConnectionLife -----------------------------
(***************************************************************************)
(* The lock of a connection, its opening and its closing                   *)
(* (libgda/gda-connection.c).  A recursive mutex protects the connection;  *)
(* the property "thread-owner" keeps all threads but one out of it, and a  *)
(* thread kept out waits for a condition with another mutex, which         *)
(* gda_connection_get_meta_store() also takes.                             *)
(*                                                                         *)
(* A call is the sequence of the operations that involve the mutexes or    *)
(* provider_data; operations of different threads interleave.              *)
(*                                                                         *)
(* A name that ends in _mutant is a wrong version of the definition after  *)
(* it, used to confirm that the properties notice such a mistake.          *)
(***************************************************************************)
EXTENDS Naturals, Sequences

CONSTANTS
    Threads,
    NoThread,
    OwnerAtOpen,  \* what open_connection() makes of "thread-owner"
    MaxSessions   \* bound: sessions opened on the server

ASSUME LifeAssumption == /\ NoThread \notin Threads /\ MaxSessions \in Nat \ {0}
                         /\ OwnerAtOpen \in {"unchanged", "none", "self"}

Owners == Threads \cup {NoThread}

VARIABLES
    todo,         \* the operations left in the call of each thread
    at,           \* where the thread is in the first of them
    rmutex,       \* priv->rmutex, recursive
    object_mutex, \* priv->object_mutex
    owner,        \* priv->unique_possible_thread
    provider_data,\* the connection is opened
    sessions,     \* sessions on the server
    told,         \* what the last of "conn-opened" and "conn-closed" said
    raced,        \* history: a connection was opened while it was opened
    missed        \* history: threads that the last broadcast did not find waiting

vars == <<todo, at, rmutex, object_mutex, owner, provider_data, sessions, told, raced, missed>>
life == <<provider_data, sessions, told, raced>>
cond == <<owner, missed>>

Op(name) == [op |-> name, value |-> NoThread]

Open(t) == << Op("return if opened"), Op("lock"), Op("open") >>
             \o (CASE OwnerAtOpen = "unchanged" -> << >>
                   [] OwnerAtOpen = "none" -> << Op("owner") >>
                   [] OwnerAtOpen = "self" -> << [op |-> "owner", value |-> t] >>)
             \o << Op("opened"), Op("unlock") >>

\* gda_connection_close_no_warning() between the lock of gda_connection_close()
Close == << Op("return if closed"), Op("lock"), Op("lock"), Op("close"), Op("unlock"),
            Op("closed"), Op("unlock") >>

\* The methods that use the connection, from one another; gda_connection_update_meta_store()
Use      == << Op("lock"), Op("lock"), Op("unlock"), Op("unlock") >>
TryToUse == << Op("trylock"), Op("unlock") >>
UpdateMetaStore == << Op("lock"), Op("meta store"), Op("unlock") >>
SetOwner(v)     == << [op |-> "owner", value |-> v] >>

Calls(t) == {Open(t), Close, Use, TryToUse, UpdateMetaStore} \cup {SetOwner(v) : v \in Owners}

Free == [by |-> NoThread, count |-> 0]

Init ==
    /\ todo = [t \in Threads |-> << >>]
    /\ at = [t \in Threads |-> "start"]
    /\ rmutex = Free /\ object_mutex = NoThread
    /\ owner = NoThread /\ missed = {}
    /\ provider_data = FALSE /\ sessions = 0 /\ told = FALSE /\ raced = FALSE

-----------------------------------------------------------------------------
(* The mutexes                                                             *)

IsFor(t, name) == todo[t] # << >> /\ Head(todo[t]).op = name
CanTake(t) == rmutex.by \in {NoThread, t}
Take(t)    == CanTake(t) /\ rmutex' = [by |-> t, count |-> rmutex.count + 1]
Release(t) == rmutex' = IF rmutex.count = 1 THEN Free ELSE [rmutex EXCEPT !.count = @ - 1]
TakeObject(t) == object_mutex = NoThread /\ object_mutex' = t
ReleaseObject == object_mutex' = NoThread

Goes(t, place) == at' = [at EXCEPT ![t] = place] /\ UNCHANGED todo
Finishes(t) == /\ todo' = [todo EXCEPT ![t] = Tail(@)]
               /\ at' = [at EXCEPT ![t] = "start"]
Returns(t)  == /\ todo' = [todo EXCEPT ![t] = << >>]
               /\ at' = [at EXCEPT ![t] = "start"]

MayUse(t) == owner \in {NoThread, t}

-----------------------------------------------------------------------------
(* gda_connection_lock()                                                   *)

LockMutex(t) ==
    /\ IsFor(t, "lock") /\ at[t] = "start"
    /\ Take(t) /\ Goes(t, "locked")
    /\ UNCHANGED <<object_mutex, cond, life>>

LockTest(t) ==
    /\ at[t] = "locked"
    /\ IF MayUse(t) THEN Finishes(t) /\ UNCHANGED rmutex
       ELSE Release(t) /\ Goes(t, "kept out")
    /\ UNCHANGED <<object_mutex, cond, life>>

LockObject(t) ==
    /\ at[t] \in {"kept out", "woken"}
    /\ TakeObject(t) /\ Goes(t, "testing")
    /\ UNCHANGED <<rmutex, cond, life>>

\* The thread waits, or it tries the mutex again and again with object_mutex.
LockRetest(t) ==
    /\ at[t] = "testing"
    /\ IF MayUse(t) THEN Goes(t, "trying") /\ UNCHANGED object_mutex
       ELSE ReleaseObject /\ Goes(t, "waiting")
    /\ UNCHANGED <<rmutex, cond, life>>

LockTry(t) ==
    /\ at[t] = "trying"
    /\ Take(t) /\ ReleaseObject /\ Finishes(t)
    /\ UNCHANGED <<cond, life>>

\* After the deadline each wait ends at once.  Its result makes the thread wait
\* again without a look at the owner, once it has had the mutex back.
LockDeadline(t) ==
    /\ at[t] = "waiting" /\ Goes(t, "late")
    /\ UNCHANGED <<rmutex, object_mutex, cond, life>>
LockWaitAgain(t) ==
    /\ at[t] = "late" /\ object_mutex = NoThread
    /\ Goes(t, "waiting")
    /\ UNCHANGED <<rmutex, object_mutex, cond, life>>

Trylock(t) ==
    /\ IsFor(t, "trylock")
    /\ \/ ~CanTake(t) /\ Returns(t) /\ UNCHANGED rmutex
       \/ CanTake(t) /\ ~MayUse(t) /\ Returns(t) /\ UNCHANGED rmutex
       \/ MayUse(t) /\ Take(t) /\ Finishes(t)
    /\ UNCHANGED <<object_mutex, cond, life>>

Unlock(t) ==
    /\ IsFor(t, "unlock")
    /\ Release(t) /\ Finishes(t)
    /\ UNCHANGED <<object_mutex, cond, life>>

-----------------------------------------------------------------------------
(* The property "thread-owner": object_mutex, then the mutex               *)

OwnerBegin(t) ==
    /\ IsFor(t, "owner") /\ at[t] = "start"
    /\ TakeObject(t) /\ Goes(t, "setting")
    /\ UNCHANGED <<rmutex, cond, life>>

\* The threads that are between two waits do not see the broadcast.
Woken_mutant(place) == place
Woken(place) == IF place = "waiting" THEN "woken" ELSE place
OwnerNeeds_mutant(t) == TRUE
OwnerNeeds(t) == CanTake(t)
OwnerSet(t) ==
    /\ at[t] = "setting"
    /\ OwnerNeeds(t)
    /\ owner' = Head(todo[t]).value
    /\ at' = [u \in Threads |-> IF u = t THEN "start" ELSE Woken(at[u])]
    /\ missed' = {u \in Threads : at[u] = "late"}
    /\ todo' = [todo EXCEPT ![t] = Tail(@)]
    /\ ReleaseObject
    /\ UNCHANGED <<rmutex, life>>

\* gda_connection_get_meta_store()
MetaStore(t) ==
    /\ IsFor(t, "meta store")
    /\ object_mutex = NoThread
    /\ Finishes(t)
    /\ UNCHANGED <<rmutex, object_mutex, cond, life>>

-----------------------------------------------------------------------------
(* gda_connection_open(), gda_connection_close()                           *)

\* Both look at provider_data before they lock the connection.
TestOpened(t) ==
    /\ \/ IsFor(t, "return if opened") /\ (IF provider_data THEN Returns(t) ELSE Finishes(t))
       \/ IsFor(t, "return if closed") /\ (IF provider_data THEN Finishes(t) ELSE Returns(t))
    /\ UNCHANGED <<rmutex, object_mutex, cond, life>>

\* The provider opens a session, whether or not there is one; when it fails the
\* call only has to unlock.
OpenSession(t) ==
    /\ IsFor(t, "open")
    /\ \/ /\ sessions < MaxSessions
          /\ provider_data' = TRUE /\ sessions' = sessions + 1
          /\ raced' = (raced \/ provider_data)
          /\ Finishes(t)
       \/ /\ todo' = [todo EXCEPT ![t] = IF provider_data THEN << Op("opened"), Op("unlock") >>
                                         ELSE << Op("unlock") >>]
          /\ UNCHANGED <<at, provider_data, sessions, raced>>
    /\ UNCHANGED <<rmutex, object_mutex, cond, told>>

\* Another thread may have closed it: only the lock is released.
WhenClosed_mutant(t) == Returns(t)
WhenClosed(t) == todo' = [todo EXCEPT ![t] = << Op("unlock"), Op("unlock") >>] /\ UNCHANGED at
StillOpened_mutant == TRUE
StillOpened == provider_data
CloseSession(t) ==
    /\ IsFor(t, "close")
    /\ IF StillOpened
       THEN provider_data' = FALSE /\ sessions' = sessions - 1 /\ Finishes(t)
       ELSE WhenClosed(t) /\ UNCHANGED <<provider_data, sessions>>
    /\ UNCHANGED <<rmutex, object_mutex, cond, told, raced>>

Announce(t) ==
    /\ \/ IsFor(t, "opened") /\ told' = TRUE
       \/ IsFor(t, "closed") /\ told' = FALSE
    /\ Finishes(t)
    /\ UNCHANGED <<rmutex, object_mutex, cond, provider_data, sessions, raced>>

-----------------------------------------------------------------------------
Call(t) ==
    /\ todo[t] = << >>
    /\ \E c \in Calls(t) : todo' = [todo EXCEPT ![t] = c]
    /\ UNCHANGED <<at, rmutex, object_mutex, cond, life>>

Continues(t) ==
    \/ LockMutex(t) \/ LockTest(t) \/ LockObject(t) \/ LockRetest(t) \/ LockTry(t)
    \/ LockWaitAgain(t) \/ Trylock(t) \/ Unlock(t)
    \/ OwnerBegin(t) \/ OwnerSet(t) \/ MetaStore(t)
    \/ TestOpened(t) \/ OpenSession(t) \/ CloseSession(t) \/ Announce(t)

Next == \E t \in Threads : Call(t) \/ Continues(t) \/ LockDeadline(t)

Spec == Init /\ [][Next]_vars

\* A thread is not passed over for ever where it could go on: by the scheduler,
\* and by a mutex that is free again and again.
FairSpec == Spec /\ \A t \in Threads : SF_vars(Continues(t))

-----------------------------------------------------------------------------
(* Properties                                                              *)

TypeOK ==
    /\ at \in [Threads -> {"start", "locked", "kept out", "testing", "trying", "waiting",
                           "late", "woken", "setting"}]
    /\ rmutex.by \in Owners /\ rmutex.count \in 0 .. 3 /\ (rmutex.by = NoThread <=> rmutex.count = 0)
    /\ object_mutex \in Owners /\ owner \in Owners /\ missed \subseteq Threads
    /\ provider_data \in BOOLEAN /\ told \in BOOLEAN /\ sessions \in 0 .. MaxSessions

\* A thread that is in the connection is the only one that may use it, as long as
\* it is there, whoever sets "thread-owner" in the meantime.
UserIsOwner == \A t \in Threads : rmutex.by = t /\ at[t] # "locked" => MayUse(t)

\* A call that returns leaves nothing locked, whatever it found and however long it
\* waited; in particular closing what another thread has just closed.
NothingLeftLocked ==
    \A t \in Threads : todo[t] = << >> => rmutex.by # t /\ object_mutex # t

\* When no thread is in the connection, the last signal told what it is, open or
\* closed, and so do the sessions on the server: one or none, unless two threads
\* have opened it together.
OpennessAgrees ==
    rmutex.by = NoThread =>
       /\ told = provider_data
       /\ raced \/ sessions = (IF provider_data THEN 1 ELSE 0)

\* A thread with object_mutex needs the mutex of one that needs object_mutex.
NeedsMutex(t)  == at[t] \in {"trying", "setting"}
NeedsObject(t) == at[t] = "start" /\ (IsFor(t, "owner") \/ IsFor(t, "meta store"))
Inverted == \E t, u \in Threads :
               /\ object_mutex = t /\ NeedsMutex(t)
               /\ rmutex.by = u /\ u # t /\ NeedsObject(u)

\* "Any other thread blocked (after having called gda_connection_lock()) gets the
\* opportunity to lock the connection": when it may use it from some time on, and
\* neither missed the broadcast nor is there a deadlock of the two mutexes.
LockIsObtained ==
    \A t \in Threads :
       <>[](MayUse(t) /\ t \notin missed /\ ~Inverted) => []<>~IsFor(t, "lock")
=============================================================================
