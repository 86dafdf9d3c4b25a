----------------------------- MODULE MMContainer -----------------------------
(***************************************************************************)
(* What an MM container promises the allocator (spec 2, 5 and 6), whatever *)
(* its eviction policy.  It holds a set of items.  add inserts an item     *)
(* that is not present; remove and replace act on one that is.  At most    *)
(* one thread at a time holds an eviction iterator.  While it is held, no  *)
(* other call changes the container, and the holder removes only items     *)
(* that are present.  An access (recordAccess, from its start to its       *)
(* return) never changes which items are held, and neither do saveState   *)
(* and restore.                                                            *)
(***************************************************************************)
EXTENDS Naturals

CONSTANTS Entries, Threads, NoThread

VARIABLES
    members,    \* the items in the container
    holder,     \* the thread holding the eviction iterator, or NoThread
    accessing,  \* the threads inside a recordAccess call
    epoch       \* how many times the container was saved and restored

absVars == <<members, holder, accessing, epoch>>

Init ==
    /\ members = {}
    /\ holder = NoThread
    /\ accessing = {}
    /\ epoch = 0

\* add, remove and replace: one step each, never while an iterator is held.
Insert(n) ==
    /\ holder = NoThread
    /\ n \notin members
    /\ members' = members \cup {n}
    /\ UNCHANGED <<holder, accessing, epoch>>

Delete(n) ==
    /\ holder = NoThread
    /\ n \in members
    /\ members' = members \ {n}
    /\ UNCHANGED <<holder, accessing, epoch>>

Swap(old, new) ==
    /\ holder = NoThread
    /\ old \in members
    /\ new \notin members
    /\ members' = (members \ {old}) \cup {new}
    /\ UNCHANGED <<holder, accessing, epoch>>

\* The eviction iterator: taken, used to evict present items, released.
Acquire(t) ==
    /\ holder = NoThread
    /\ holder' = t
    /\ UNCHANGED <<members, accessing, epoch>>

Evict(t, n) ==
    /\ holder = t
    /\ n \in members
    /\ members' = members \ {n}
    /\ UNCHANGED <<holder, accessing, epoch>>

Release(t) ==
    /\ holder = t
    /\ holder' = NoThread
    /\ UNCHANGED <<members, accessing, epoch>>

\* An access starts and returns without changing the membership.
BeginAccess(t) ==
    /\ t \notin accessing
    /\ accessing' = accessing \cup {t}
    /\ UNCHANGED <<members, holder, epoch>>

EndAccess(t) ==
    /\ t \in accessing
    /\ accessing' = accessing \ {t}
    /\ UNCHANGED <<members, holder, epoch>>

\* saveState and restore, with no call in flight: the same items.
Restore ==
    /\ holder = NoThread
    /\ accessing = {}
    /\ epoch' = epoch + 1
    /\ UNCHANGED <<members, holder, accessing>>

Next ==
    \/ Restore
    \/ \E n \in Entries : Insert(n) \/ Delete(n)
    \/ \E old, new \in Entries : Swap(old, new)
    \/ \E t \in Threads :
          \/ Acquire(t) \/ Release(t) \/ BeginAccess(t) \/ EndAccess(t)
          \/ \E n \in Entries : Evict(t, n)

Spec == Init /\ [][Next]_absVars

=============================================================================
