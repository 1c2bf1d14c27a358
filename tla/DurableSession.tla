---------------------------- MODULE DurableSession ---------------------------
(***************************************************************************)
(* What the app promises of a session, without its keys and its services.  *)
(* At most one user is signed in.  A change of session is atomic also for  *)
(* whoever looks at the disk: writing it back passes through the old and   *)
(* the new session and through nothing else, and a process that dies       *)
(* leaves the session of one of the moments since the last write-back.     *)
(***************************************************************************)
EXTENDS Naturals, Sequences

CONSTANTS
    SessionUsers,
    MaxWrites       \* bound: writes of one change

VARIABLES
    current,    \* <<>>, or <<u>> while u is signed in
    unsaved,    \* the sessions that are on their way to the disk
    saved       \* the session the next process will find

Sessions == {<<>>} \cup {<<u>> : u \in SessionUsers}

SessionInit == current = <<>> /\ unsaved = <<>> /\ saved = <<>>

\* Some writes that still leave the old session, then some that leave the new.
Change(new) ==
    /\ current' = new
    /\ \E before, after \in 0 .. MaxWrites :
          /\ before > 0 => after > 0
          /\ after = 0 => new = current
          /\ unsaved' = unsaved \o [i \in 1 .. before |-> current]
                                \o [i \in 1 .. after |-> new]
    /\ saved' = saved

Save ==
    /\ unsaved # <<>>
    /\ saved' = Head(unsaved)
    /\ unsaved' = Tail(unsaved)
    /\ current' = current

Crash == current' = saved /\ unsaved' = <<>> /\ saved' = saved

SessionNext == (\E new \in Sessions : Change(new)) \/ Save \/ Crash

SessionSpec == SessionInit /\ [][SessionNext]_<<current, unsaved, saved>>
=============================================================================
