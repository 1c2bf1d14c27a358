------------------------- MODULE UserDefaultsManager -------------------------
(***************************************************************************)
(* The three keys the app keeps in UserDefaults.standard and every way in  *)
(* which UserDefaultManager reads and writes them.                         *)
(*                                                                         *)
(* A write changes the process's own view at once (defaults); it reaches   *)
(* the disk later, in order (queued, disk).  A process that dies loses the *)
(* writes still queued, so a relaunch sees the effect of a PREFIX of the   *)
(* writes a handler made.  Each queue entry is the content of the store    *)
(* after one more write.                                                   *)
(***************************************************************************)
EXTENDS Naturals, Sequences

CONSTANTS
    Users,      \* Firebase uids
    States,     \* abbreviations of the states StateGetter knows
    Nil,        \* Swift's nil
    MaxQueued   \* bound: writes that may wait for the disk at one time

ASSUME NilAssumption == Nil \notin Users \cup States
ASSUME MaxQueuedAssumption == MaxQueued \in Nat

VARIABLES
    defaults,   \* the store as the running process sees it
    queued,     \* its later contents, write by write, not yet on disk
    disk        \* the store as the next launch will find it

Maybe(S) == S \cup {Nil}

\* "userStateDict" maps a uid to an abbreviation; Nil stands for a missing entry.
Defaults == [isLoggedIn    : BOOLEAN,
             userId        : Maybe(Users),
             userStateDict : [Users -> Maybe(States)]]

FreshDefaults == [isLoggedIn    |-> FALSE,
                  userId        |-> Nil,
                  userStateDict |-> [u \in Users |-> Nil]]

-----------------------------------------------------------------------------
(* Readers *)

UserIsSignedIn(d) == d.isLoggedIn

\* The choice stored for the current uid.  The look-up in StateGetter().states
\* finds it, since only abbreviations of that list are ever stored.
StoredState(d) ==
    IF d.userId = Nil THEN Nil ELSE d.userStateDict[d.userId]

-----------------------------------------------------------------------------
(* Writers: each gives the successive contents of the store, write by write *)

SetUserId(d, uid) == <<[d EXCEPT !.userId = uid]>>

SetisLoggedInTo(d, bool) == <<[d EXCEPT !.isLoggedIn = bool]>>

ClearUserDefaults_FlagOnly(d) == <<[d EXCEPT !.isLoggedIn = FALSE]>>

ClearUserDefaults_EmptyUserId(d) ==
    <<[d EXCEPT !.isLoggedIn = FALSE],
      [d EXCEPT !.isLoggedIn = FALSE, !.userId = ""]>>

\* The flag first, then the uid.
ClearUserDefaults(d) ==
    <<[d EXCEPT !.isLoggedIn = FALSE],
      [d EXCEPT !.isLoggedIn = FALSE, !.userId = Nil]>>

SetStoredState_AnyUser(d, abbreviation) ==
    IF d.userId = Nil
    THEN <<>>
    ELSE <<[d EXCEPT !.userStateDict = [u \in Users |-> abbreviation]]>>

\* The whole dictionary is replaced by [uid: abbreviation]: what another user of
\* the device had chosen is forgotten.  Without a uid nothing is written.
SetStoredState(d, abbreviation) ==
    IF d.userId = Nil
    THEN <<>>
    ELSE <<[d EXCEPT !.userStateDict =
                [u \in Users |-> IF u = d.userId THEN abbreviation ELSE Nil]]>>

\* The content after a handler's writes.
After(d, writes) == IF writes = <<>> THEN d ELSE writes[Len(writes)]

-----------------------------------------------------------------------------
(* The store as a process *)

StoreInit ==
    /\ defaults = FreshDefaults
    /\ queued = <<>>
    /\ disk = FreshDefaults

\* A handler performs its writes.
Persist(writes) ==
    /\ Len(queued) + Len(writes) <= MaxQueued
    /\ defaults' = After(defaults, writes)
    /\ queued' = queued \o writes
    /\ disk' = disk

\* The system's preferences daemon stores the oldest queued write.
FlushStore ==
    /\ queued # <<>>
    /\ disk' = Head(queued)
    /\ queued' = Tail(queued)
    /\ defaults' = defaults

\* The process dies: what was not on disk is lost, and the next process starts
\* from the disk.
DropStore ==
    /\ defaults' = disk
    /\ queued' = <<>>
    /\ disk' = disk

StoreTypeOK ==
    /\ defaults \in Defaults
    /\ queued \in Seq(Defaults)
    /\ disk \in Defaults

\* A store that says somebody is signed in also says who.
NamesItsUser(d) == UserIsSignedIn(d) => d.userId # Nil
=============================================================================
