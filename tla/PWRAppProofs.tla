----------------------------- MODULE PWRAppProofs ----------------------------
(***************************************************************************)
(* Theorems about PWRApp, for any users, states, requests and bounds.      *)
(*                                                                         *)
(* LoggedInHasUser is inductive once it covers every content the store may *)
(* still have on disk: the disk, each queued write, and the process's own  *)
(* view.  The lemmas about the writers say that each gives only such       *)
(* contents (SafeWrites); PersistKeeps, FlushKeeps and DropKeeps carry     *)
(* that over to the store.                                                 *)
(***************************************************************************)
EXTENDS PWRApp, SequenceTheorems, TLAPS

\* Every content a handler's writes go through is well typed and names its user.
SafeWrites(writes) ==
    /\ writes \in Seq(Defaults)
    /\ \A i \in 1 .. Len(writes) : NamesItsUser(writes[i])

StoreInv == StoreTypeOK /\ LoggedInHasUser

-----------------------------------------------------------------------------
(* The writers *)

\* One handler's writes may follow another's.
LEMMA SafeWritesConcat ==
    ASSUME NEW v, NEW w, SafeWrites(v), SafeWrites(w)
    PROVE  SafeWrites(v \o w)
  BY DEF SafeWrites

\* setUserId and then setisLoggedInTo(true), as loginFirebaseWith's completion
\* block calls them, name the user at every point, whatever was stored before.
LEMMA SignInWritesSafe ==
    ASSUME NEW d \in Defaults, NEW u \in Users
    PROVE  SafeWrites(SignInWrites(d, u))
<1> DEFINE named  == [d EXCEPT !.userId = u]
           raised == [named EXCEPT !.isLoggedIn = TRUE]
<1>1. SignInWrites(d, u) = <<named>> \o <<raised>>
  BY DEF SignInWrites, SetUserId, SetisLoggedInTo
<1>2. named \in Defaults /\ named.userId = u
  BY DEF Defaults, Maybe
<1>3. raised \in Defaults /\ raised.userId = u
  BY <1>2 DEF Defaults
<1>4. u # Nil
  BY NilAssumption
<1> HIDE DEF named, raised
<1>5. NamesItsUser(named) /\ NamesItsUser(raised)
  BY <1>2, <1>3, <1>4 DEF NamesItsUser
<1>6. SafeWrites(<<named>>) /\ SafeWrites(<<raised>>)
  BY <1>2, <1>3, <1>5 DEF SafeWrites
<1> QED
  BY <1>1, <1>6, SafeWritesConcat

\* clearUserDefaults lowers the flag first, so neither write leaves a flag
\* without a uid.
LEMMA ClearSafe ==
    ASSUME NEW d \in Defaults
    PROVE  /\ SafeWrites(ClearUserDefaults(d))
           /\ ClearUserDefaults(d) # <<>>
           /\ After(d, ClearUserDefaults(d)) \in Defaults
           /\ ~After(d, ClearUserDefaults(d)).isLoggedIn
           /\ After(d, ClearUserDefaults(d)).userId = Nil
<1> DEFINE lowered == [d EXCEPT !.isLoggedIn = FALSE]
           cleared == [d EXCEPT !.isLoggedIn = FALSE, !.userId = Nil]
<1>1. ClearUserDefaults(d) = <<lowered, cleared>>
  BY DEF ClearUserDefaults
<1>2. lowered \in Defaults /\ ~lowered.isLoggedIn
  BY DEF Defaults
<1>3. cleared \in Defaults /\ ~cleared.isLoggedIn /\ cleared.userId = Nil
  BY DEF Defaults, Maybe
<1> HIDE DEF lowered, cleared
<1>4. NamesItsUser(lowered) /\ NamesItsUser(cleared)
  BY <1>2, <1>3 DEF NamesItsUser, UserIsSignedIn
<1> QED
  BY <1>1, <1>2, <1>3, <1>4 DEF SafeWrites, After

\* setStoredState touches neither the flag nor the uid.
LEMMA SetStoredStateSafe ==
    ASSUME NEW d \in Defaults, NamesItsUser(d), NEW s \in States
    PROVE  SafeWrites(SetStoredState(d, s))
<1>1. CASE d.userId = Nil
  BY <1>1 DEF SetStoredState, SafeWrites
<1>2. CASE d.userId # Nil
  <2> DEFINE dict == [u \in Users |-> IF u = d.userId THEN s ELSE Nil]
             kept == [d EXCEPT !.userStateDict = dict]
  <2>1. SetStoredState(d, s) = <<kept>>
    BY <1>2 DEF SetStoredState
  <2>2. dict \in [Users -> Maybe(States)]
    BY DEF Maybe
  <2> HIDE DEF dict
  <2>3. kept \in Defaults /\ kept.userId = d.userId
    BY <2>2 DEF Defaults
  <2> HIDE DEF kept
  <2>4. NamesItsUser(kept)
    BY <1>2, <2>3 DEF NamesItsUser
  <2> QED
    BY <2>1, <2>3, <2>4 DEF SafeWrites
<1> QED
  BY <1>1, <1>2


\* Both ways to log out leave nobody signed in, whether or not signOut throws.
LEMMA LogOutsSafe ==
    ASSUME NEW d \in Defaults, NEW signedOut \in BOOLEAN,
           NEW w \in {LoginButtonDidLogOut(d, signedOut), SettingsLogOut(d, signedOut)}
    PROVE  /\ SafeWrites(w)
           /\ ~After(d, w).isLoggedIn
           /\ After(d, w).userId = Nil
<1> DEFINE cleared == ClearUserDefaults(d)
           again   == ClearUserDefaults(After(d, cleared))
<1>1. /\ SafeWrites(cleared)
      /\ cleared # <<>>
      /\ After(d, cleared) \in Defaults
      /\ ~After(d, cleared).isLoggedIn
      /\ After(d, cleared).userId = Nil
  BY ClearSafe
<1>2. /\ SafeWrites(again)
      /\ again # <<>>
      /\ ~After(After(d, cleared), again).isLoggedIn
      /\ After(After(d, cleared), again).userId = Nil
  BY <1>1, ClearSafe
<1>3. w \in {cleared \o again, cleared \o <<>>, <<>> \o cleared}
  BY DEF LoginButtonDidLogOut, SettingsLogOut, LogoutOfFireBase, After
<1> HIDE DEF cleared, again
<1>4. cleared \o <<>> = cleared /\ <<>> \o cleared = cleared
  BY <1>1 DEF SafeWrites
<1>5. SafeWrites(cleared \o again)
  BY <1>1, <1>2, SafeWritesConcat
<1>6. After(d, cleared \o again) = After(After(d, cleared), again)
  BY <1>1, <1>2 DEF SafeWrites, After
<1> QED
  BY <1>1, <1>2, <1>3, <1>4, <1>5, <1>6

-----------------------------------------------------------------------------
(* The store *)

\* Writes that are safe leave a store that is safe, in memory and on its way to
\* disk.
LEMMA PersistKeeps ==
    ASSUME StoreInv, NEW w, SafeWrites(w), Persist(w)
    PROVE  StoreInv'
<1>1. defaults' \in Defaults /\ NamesItsUser(defaults')
  BY DEF StoreInv, StoreTypeOK, LoggedInHasUser, SafeWrites, Persist, After
<1>2. SafeWrites(queued')
  BY SafeWritesConcat DEF StoreInv, StoreTypeOK, LoggedInHasUser, SafeWrites, Persist
<1>3. disk' = disk
  BY DEF Persist
<1> QED
  BY <1>1, <1>2, <1>3
  DEF StoreInv, StoreTypeOK, LoggedInHasUser, SafeWrites, NamesItsUser, UserIsSignedIn

\* Any queued write may be the next content of the disk.
LEMMA FlushKeeps ==
    ASSUME StoreInv, FlushStore
    PROVE  StoreInv'
<1>1. disk' \in Defaults /\ NamesItsUser(disk')
  BY DEF StoreInv, StoreTypeOK, LoggedInHasUser, FlushStore
<1>2. SafeWrites(queued')
  BY DEF StoreInv, StoreTypeOK, LoggedInHasUser, FlushStore, SafeWrites
<1>3. defaults' = defaults
  BY DEF FlushStore
<1> QED
  BY <1>1, <1>2, <1>3
  DEF StoreInv, StoreTypeOK, LoggedInHasUser, SafeWrites, NamesItsUser, UserIsSignedIn

\* A process that dies leaves what is on disk.
LEMMA DropKeeps ==
    ASSUME StoreInv, DropStore
    PROVE  StoreInv'
  BY DEF StoreInv, StoreTypeOK, LoggedInHasUser, DropStore, NamesItsUser, UserIsSignedIn

\* A step that changes nothing keeps the invariant.
LEMMA UnchangedKeeps ==
    ASSUME StoreInv, UNCHANGED store
    PROVE  StoreInv'
  BY DEF StoreInv, StoreTypeOK, LoggedInHasUser, store, NamesItsUser, UserIsSignedIn

-----------------------------------------------------------------------------
(* The rest of the state *)

RestTypeOK ==
    /\ AuthTypeOK
    /\ proc \in {"running", "killed"} \cup Traps
    /\ screens \in Seq(Screen)
    /\ overlapped \in BOOLEAN
    /\ tainted \in BOOLEAN
    /\ chosen \in [Users -> Maybe(States)]

Inv == StoreInv /\ RestTypeOK

\* The invariant is the type invariant and LoggedInHasUser.
LEMMA InvParts == Inv <=> TypeOK /\ LoggedInHasUser
  BY DEF Inv, StoreInv, RestTypeOK, TypeOK

\* What a screen copies from the store is a state or nothing.
LEMMA StoredStateType ==
    ASSUME NEW d \in Defaults
    PROVE  StoredState(d) \in Maybe(States)
  BY DEF StoredState, Defaults, Maybe

\* The stack of screens stays one under a push,
LEMMA PushType ==
    ASSUME screens \in Seq(Screen), NEW k \in ScreenKinds, NEW s \in Maybe(States),
           Push(NewScreen(k, s))
    PROVE  screens' \in Seq(Screen)
<1>1. NewScreen(k, s) \in Screen
  BY DEF NewScreen, Screen
<1> QED
  BY <1>1 DEF Push

\* under a pop,
LEMMA PopType ==
    ASSUME screens \in Seq(Screen), screens # <<>>, Pop
    PROVE  screens' \in Seq(Screen)
  BY DEF Pop

\* and when Home is put on what lies below it.
LEMMA ShowHomeType ==
    ASSUME NEW below \in Seq(Screen), NEW d \in Defaults, ShowHome(below, d)
    PROVE  screens' \in Seq(Screen)
<1>1. NewScreen("Home", StoredState(d)) \in Screen
  BY StoredStateType DEF NewScreen, Screen, ScreenKinds
<1> QED
  BY <1>1 DEF ShowHome

\* A process that ends, for whatever reason, leaves a well-typed state.
LEMMA DieKeeps ==
    ASSUME Inv, NEW reason \in {"killed"} \cup Traps, Die(reason)
    PROVE  Inv'
<1>1. StoreInv'
  BY DropKeeps DEF Inv, Die
<1>2. inFlight' \in [Requests -> Maybe(SignIn)]
  BY DEF Die, Maybe
<1>3. mainQueue' \in Seq(Task) /\ screens' \in Seq(Screen)
  BY DEF Die
<1>4. (tainted \/ queued # <<>>) \in BOOLEAN
  OBVIOUS
<1>5. tainted' \in BOOLEAN /\ overlapped' \in BOOLEAN
  BY <1>4, Zenon DEF Die
<1> QED
  BY <1>1, <1>2, <1>3, <1>5 DEF Inv, RestTypeOK, AuthTypeOK, Die

-----------------------------------------------------------------------------
(* Steps *)

\* Launches.
LEMMA LaunchKeeps ==
    ASSUME Inv, LaunchHome \/ LaunchHomeTraps \/ LaunchLogin
    PROVE  Inv'
<1>1. CASE LaunchHome
  <2>1. StoreInv'
    BY <1>1, UnchangedKeeps DEF Inv, LaunchHome
  <2>2. <<>> \in Seq(Screen) /\ defaults \in Defaults /\ ShowHome(<<>>, defaults)
    BY <1>1 DEF Inv, StoreInv, StoreTypeOK, LaunchHome
  <2>3. screens' \in Seq(Screen)
    BY <2>2, ShowHomeType
  <2> QED
    BY <1>1, <2>1, <2>3
    DEF Inv, RestTypeOK, AuthTypeOK, LaunchHome, keychain, pending, history
<1>2. CASE LaunchHomeTraps
  BY <1>2, DieKeeps DEF LaunchHomeTraps, Traps
<1>3. CASE LaunchLogin
  <2>1. StoreInv'
    BY <1>3, UnchangedKeeps DEF Inv, LaunchLogin
  <2>2. screens' \in Seq(Screen)
    BY <1>3 DEF LaunchLogin, NewScreen, Screen, ScreenKinds, Maybe
  <2> QED
    BY <1>3, <2>1, <2>2
    DEF Inv, RestTypeOK, AuthTypeOK, LaunchLogin, keychain, pending, history
<1> QED
  BY <1>1, <1>2, <1>3

\* Steps that only open or close a screen.
LEMMA NavigationKeeps ==
    ASSUME Inv,
           \/ TapLogIn \/ LoginCancelled \/ TapLogOut \/ CancelLogOut
           \/ OpenSenator \/ OpenSettings \/ Back \/ ChangeState
    PROVE  Inv'
<1>1. UNCHANGED <<store, keychain, pending, history, proc>>
  BY DEF TapLogIn, LoginCancelled, TapLogOut, CancelLogOut, OpenSenator, OpenSettings,
         Back, ChangeState
<1>2. StoreInv'
  BY <1>1, UnchangedKeeps DEF Inv
<1>3. screens \in Seq(Screen) /\ defaults \in Defaults
  BY DEF Inv, RestTypeOK, StoreInv, StoreTypeOK
<1>4. Nil \in Maybe(States) /\ StoredState(defaults) \in Maybe(States)
  BY <1>3, StoredStateType DEF Maybe
<1>5. screens' \in Seq(Screen)
  <2>1. CASE TapLogIn
    BY <2>1, <1>3, <1>4, PushType DEF TapLogIn, ScreenKinds
  <2>2. CASE TapLogOut
    BY <2>2, <1>3, <1>4, PushType DEF TapLogOut, ScreenKinds
  <2>3. CASE OpenSettings
    BY <2>3, <1>3, <1>4, PushType DEF OpenSettings, ScreenKinds
  <2>4. CASE ChangeState
    BY <2>4, <1>3, <1>4, PushType DEF ChangeState, ScreenKinds
  <2>5. CASE LoginCancelled \/ CancelLogOut \/ Back
    BY <2>5, <1>3, PopType DEF LoginCancelled, CancelLogOut, Back, DialogEnds, OnTop
  <2>6. CASE OpenSenator
    <3>1. Top \in Screen
      <4>1. screens # <<>>
        BY <2>6 DEF OpenSenator, OnTop
      <4>2. Len(screens) \in 1 .. Len(screens)
        BY <4>1, <1>3
      <4> QED
        BY <4>2, <1>3 DEF Top
    <3>2. Top.state \in Maybe(States)
      BY <3>1 DEF Screen
    <3> QED
      BY <2>6, <3>2, <1>3, PushType DEF OpenSenator, ScreenKinds
  <2> QED
    BY <2>1, <2>2, <2>3, <2>4, <2>5, <2>6
<1> QED
  BY <1>1, <1>2, <1>5 DEF Inv, RestTypeOK, AuthTypeOK, keychain, pending, history

\* Steps that end the process.
LEMMA TrapsKeep ==
    ASSUME Inv,
           \/ LoginFails \/ SegueGoHomeTraps \/ SelectStateTraps
           \/ OpenSettingsTraps \/ Kill
    PROVE  Inv'
<1>1. PICK reason \in {"killed"} \cup Traps : Die(reason)
  BY DEF LoginFails, SegueGoHomeTraps, SelectStateTraps, OpenSettingsTraps, Kill, Traps
<1> QED
  BY <1>1, DieKeeps

\* Facebook's dialog hands its token to Firebase.
LEMMA LoginCompletesKeeps ==
    ASSUME Inv, NEW u \in Users, LoginCompletes(u)
    PROVE  Inv'
<1>1. StoreInv'
  BY UnchangedKeeps DEF Inv, LoginCompletes
<1>2. screens \in Seq(Screen) /\ screens # <<>>
  BY DEF Inv, RestTypeOK, LoginCompletes, DialogEnds, OnTop
<1>3. screens' \in Seq(Screen)
  BY <1>2, PopType DEF LoginCompletes
<1>4. Len(screens) - 1 \in Nat
  BY <1>2
<1>5. [user |-> u, vc |-> Len(screens) - 1] \in Maybe(SignIn)
  BY <1>4 DEF Maybe, SignIn
<1>6. inFlight' \in [Requests -> Maybe(SignIn)]
  BY <1>5 DEF Inv, RestTypeOK, AuthTypeOK, LoginCompletes, LoginFirebaseWith
<1> QED
  BY <1>1, <1>3, <1>6 DEF Inv, RestTypeOK, AuthTypeOK, LoginCompletes, Maybe, history

\* What is noted of a log-out has its type.
LEMMA NoteLogOutType ==
    ASSUME overlapped \in BOOLEAN, tainted \in BOOLEAN, NoteLogOut
    PROVE  overlapped' \in BOOLEAN /\ tainted' \in BOOLEAN
<1>1. SignInOutstanding \in BOOLEAN
  BY DEF SignInOutstanding
<1> QED
  BY <1>1, Zenon DEF NoteLogOut

\* Both ways of logging out.
LEMMA LogOutKeeps ==
    ASSUME Inv, NEW signedOut \in BOOLEAN,
           ConfirmLogOut(signedOut) \/ LogOutUser(signedOut)
    PROVE  Inv'
<1>1. screens \in Seq(Screen) /\ screens # <<>> /\ Nil \in Maybe(States)
  BY DEF Inv, RestTypeOK, ConfirmLogOut, LogOutUser, OnTop, Maybe
<1>2. defaults \in Defaults
  BY DEF Inv, StoreInv, StoreTypeOK
<1>3. overlapped' \in BOOLEAN /\ tainted' \in BOOLEAN
  BY NoteLogOutType DEF Inv, RestTypeOK, ConfirmLogOut, LogOutUser
<1>4. AuthTypeOK'
  BY DEF Inv, RestTypeOK, AuthTypeOK, ConfirmLogOut, LogOutUser, FirebaseSignOut,
         pending, Maybe
<1>5. CASE ConfirmLogOut(signedOut)
  <2>1. SafeWrites(LoginButtonDidLogOut(defaults, signedOut))
    BY <1>2, LogOutsSafe
  <2>2. StoreInv'
    BY <1>5, <2>1, PersistKeeps DEF Inv, ConfirmLogOut
  <2>3. screens' \in Seq(Screen)
    BY <1>1, <1>5, PopType DEF ConfirmLogOut
  <2> QED
    BY <1>3, <1>4, <1>5, <2>2, <2>3 DEF Inv, RestTypeOK, ConfirmLogOut, NoteLogOut
<1>6. CASE LogOutUser(signedOut)
  <2>1. SafeWrites(SettingsLogOut(defaults, signedOut))
    BY <1>2, LogOutsSafe
  <2>2. StoreInv'
    BY <1>6, <2>1, PersistKeeps DEF Inv, LogOutUser
  <2>3. screens' \in Seq(Screen)
    BY <1>1, <1>6, PushType DEF LogOutUser, ScreenKinds
  <2> QED
    BY <1>3, <1>4, <1>6, <2>2, <2>3 DEF Inv, RestTypeOK, LogOutUser, NoteLogOut
<1> QED
  BY <1>5, <1>6

\* Firebase's answer becomes a block on the main queue.
LEMMA AnswerKeeps ==
    ASSUME Inv, NEW r \in Requests, SignsIn(r) \/ Rejects(r)
    PROVE  Inv'
<1>1. StoreInv'
  BY UnchangedKeeps DEF Inv, SignsIn, Rejects
<1>2. inFlight[r] \in SignIn
  BY DEF Inv, RestTypeOK, AuthTypeOK, SignsIn, Rejects, FirebaseSignsIn,
         FirebaseRejects, Maybe
<1>3. inFlight[r].user \in Users /\ inFlight[r].vc \in Nat
  BY <1>2 DEF SignIn
<1>4. PICK t \in Task : mainQueue' = Append(mainQueue, t)
  <2>1. \A k \in {"signedIn", "signInFailed"} :
           [kind |-> k, user |-> inFlight[r].user, vc |-> inFlight[r].vc] \in Task
    BY <1>3 DEF Task, Completion
  <2> QED
    BY <2>1 DEF SignsIn, Rejects, FirebaseSignsIn, FirebaseRejects
<1>5. mainQueue' \in Seq(Task)
  BY <1>4 DEF Inv, RestTypeOK, AuthTypeOK
<1>6. inFlight' \in [Requests -> Maybe(SignIn)] /\ firebaseUser' \in Maybe(Users)
  BY <1>3 DEF Inv, RestTypeOK, AuthTypeOK, SignsIn, Rejects, FirebaseSignsIn,
              FirebaseRejects, Maybe
<1> QED
  BY <1>1, <1>5, <1>6 DEF Inv, RestTypeOK, AuthTypeOK, SignsIn, Rejects, history

\* The completion block stores the session and dispatches a segue.
LEMMA SignInCallbackKeeps ==
    ASSUME Inv, SignInCallback
    PROVE  Inv'
<1> DEFINE task == Head(mainQueue)
           writes == SignInWrites(defaults, task.user)
<1>1. mainQueue \in Seq(Task) /\ mainQueue # <<>> /\ defaults \in Defaults
  BY DEF Inv, RestTypeOK, AuthTypeOK, StoreInv, StoreTypeOK, SignInCallback
<1>2. task \in Task /\ task.kind = "signedIn"
  BY <1>1 DEF SignInCallback
<1>3. task.user \in Users /\ task.vc \in Nat
  BY <1>2 DEF Task, Completion, Segue
<1>4. StoreInv'
  <2>1. SafeWrites(writes)
    BY <1>1, <1>3, SignInWritesSafe
  <2> QED
    BY <2>1, PersistKeeps DEF Inv, SignInCallback
<1>5. PICK t \in Task : mainQueue' = Append(Tail(mainQueue), t)
  <2>1. [kind |-> SegueAfterLogin(After(defaults, writes)),
         user |-> Nil, vc |-> task.vc] \in Task
    BY <1>3 DEF Task, Segue, SegueAfterLogin
  <2> QED
    BY <2>1 DEF SignInCallback, Dispatch
<1>6. mainQueue' \in Seq(Task)
  BY <1>1, <1>5
<1> QED
  BY <1>4, <1>6 DEF Inv, RestTypeOK, AuthTypeOK, SignInCallback, keychain, history

\* The other blocks of the main queue.
LEMMA MainQueueKeeps ==
    ASSUME Inv, MainQueueStep
    PROVE  Inv'
<1>1. CASE SignInCallback
  BY <1>1, SignInCallbackKeeps
<1>2. CASE SegueGoHomeTraps
  BY <1>2, TrapsKeep
<1>3. CASE SignInFailedCallback \/ SegueGoHome \/ SegueChooseState \/ SegueIgnored
  <2>1. /\ mainQueue # <<>>
        /\ mainQueue' = Tail(mainQueue)
        /\ UNCHANGED <<store, keychain, inFlight, history, proc>>
    BY <1>3 DEF SignInFailedCallback, SegueGoHome, SegueChooseState, SegueIgnored, SegueIs
  <2>2. StoreInv'
    BY <2>1, UnchangedKeeps DEF Inv
  <2>3. mainQueue' \in Seq(Task)
    BY <2>1 DEF Inv, RestTypeOK, AuthTypeOK
  <2>4. screens \in Seq(Screen) /\ defaults \in Defaults /\ Nil \in Maybe(States)
    BY DEF Inv, RestTypeOK, StoreInv, StoreTypeOK, Maybe
  <2>5. screens' \in Seq(Screen)
    <3>1. CASE SegueGoHome
      BY <3>1, <2>4, ShowHomeType DEF SegueGoHome
    <3>2. CASE SegueChooseState
      BY <3>2, <2>4, PushType DEF SegueChooseState, ScreenKinds
    <3>3. CASE SignInFailedCallback \/ SegueIgnored
      BY <3>3, <2>4 DEF SignInFailedCallback, SegueIgnored
    <3> QED
      BY <1>3, <3>1, <3>2, <3>3
  <2> QED
    BY <2>1, <2>2, <2>3, <2>5 DEF Inv, RestTypeOK, AuthTypeOK, keychain, history
<1> QED
  BY <1>1, <1>2, <1>3 DEF MainQueueStep

\* A choice in the picker is stored for the current uid, and Home shows it.
LEMMA SelectStateKeeps ==
    ASSUME Inv, NEW s \in States, SelectState(s)
    PROVE  Inv'
<1> DEFINE writes == SetStoredState(defaults, s)
<1>1. screens \in Seq(Screen) /\ defaults \in Defaults /\ NamesItsUser(defaults)
  BY DEF Inv, RestTypeOK, StoreInv, StoreTypeOK, LoggedInHasUser
<1>2. SafeWrites(writes)
  BY <1>1, SetStoredStateSafe
<1>3. StoreInv'
  BY <1>2, PersistKeeps DEF Inv, SelectState
<1>4. After(defaults, writes) \in Defaults
  BY <1>1, <1>2 DEF SafeWrites, After
<1>5. screens' \in Seq(Screen)
  BY <1>1, <1>4, ShowHomeType DEF SelectState
<1>6. chosen' \in [Users -> Maybe(States)]
  BY DEF Inv, RestTypeOK, SelectState, Maybe
<1> QED
  BY <1>3, <1>5, <1>6
  DEF Inv, RestTypeOK, AuthTypeOK, SelectState, keychain, pending

-----------------------------------------------------------------------------
(* The theorems *)

\* A device on which the app never ran.
LEMMA InitInv == Init => Inv
<1> SUFFICES ASSUME Init PROVE Inv
  OBVIOUS
<1>1. FreshDefaults \in Defaults /\ ~FreshDefaults.isLoggedIn
  BY DEF FreshDefaults, Defaults, Maybe
<1>2. StoreInv
  BY <1>1 DEF Init, StoreInit, StoreInv, StoreTypeOK, LoggedInHasUser, NamesItsUser,
              UserIsSignedIn
<1>3. AuthTypeOK
  BY DEF Init, AuthInit, AuthTypeOK, Maybe
<1>4. screens \in Seq(Screen) /\ chosen \in [Users -> Maybe(States)]
  BY DEF Init, Maybe
<1> QED
  BY <1>2, <1>3, <1>4 DEF Init, Inv, RestTypeOK

\* All steps of the app together.
LEMMA NextInv == Inv /\ [Next]_vars => Inv'
<1> SUFFICES ASSUME Inv, [Next]_vars PROVE Inv'
  OBVIOUS
<1>1. CASE LaunchHome \/ LaunchHomeTraps \/ LaunchLogin
  BY <1>1, LaunchKeeps
<1>2. CASE \/ TapLogIn \/ LoginCancelled \/ TapLogOut \/ CancelLogOut
           \/ OpenSenator \/ OpenSettings \/ Back \/ ChangeState
  BY <1>2, NavigationKeeps
<1>3. CASE LoginFails \/ SelectStateTraps \/ OpenSettingsTraps \/ Kill
  BY <1>3, TrapsKeep
<1>4. CASE \E u \in Users : LoginCompletes(u)
  BY <1>4, LoginCompletesKeeps
<1>5. CASE \E signedOut \in BOOLEAN : ConfirmLogOut(signedOut) \/ LogOutUser(signedOut)
  BY <1>5, LogOutKeeps
<1>6. CASE \E r \in Requests : SignsIn(r) \/ Rejects(r)
  BY <1>6, AnswerKeeps
<1>7. CASE MainQueueStep
  BY <1>7, MainQueueKeeps
<1>8. CASE \E s \in States : SelectState(s)
  BY <1>8, SelectStateKeeps
<1>9. CASE Flush
  <2>1. StoreInv'
    BY <1>9, FlushKeeps DEF Inv, Flush
  <2> QED
    BY <1>9, <2>1 DEF Inv, RestTypeOK, AuthTypeOK, Flush, keychain, pending, history
<1>10. CASE UNCHANGED vars
  <2>1. StoreInv'
    BY <1>10, UnchangedKeeps DEF Inv, vars, store
  <2> QED
    BY <1>10, <2>1 DEF Inv, RestTypeOK, AuthTypeOK, vars
<1> QED
  BY <1>1, <1>2, <1>3, <1>4, <1>5, <1>6, <1>7, <1>8, <1>9, <1>10 DEF Next

\* The invariant holds in every reachable state.
LEMMA InvHolds == Spec => []Inv
  BY InitInv, NextInv, PTL DEF Spec

\* Every reachable state of the app is well typed: in particular every screen
\* holds a state or nothing, and every block on the main queue that signs
\* somebody in names a user.
THEOREM TypeCorrect == Spec => []TypeOK
<1>1. Inv => TypeOK
  BY InvParts
<1> QED
  BY <1>1, InvHolds, PTL

\* Whenever the process dies, and whatever prefix of its writes reached the disk,
\* the next launch (AppDelegate) finds a uid beside a raised isLoggedIn flag.
THEOREM LoggedInNamesUser == Spec => []LoggedInHasUser
<1>1. Inv => LoggedInHasUser
  BY InvParts
<1> QED
  BY <1>1, InvHolds, PTL

\* Losing the Facebook token always ends the app's own session in the same step,
\* on both log-out paths and even when Firebase's signOut throws.
THEOREM LogOutAlwaysEndsSession == Spec => LogOutEndsSession
<1> DEFINE Lost  == fbToken # Nil /\ fbToken' = Nil
           Ended == ~UserIsSignedIn(defaults') /\ defaults'.userId = Nil
<1>1. ASSUME Inv, [Next]_vars, Lost PROVE Ended
  <2>1. defaults \in Defaults
    BY <1>1 DEF Inv, StoreInv, StoreTypeOK
  <2>2. PICK signedOut \in BOOLEAN : ConfirmLogOut(signedOut) \/ LogOutUser(signedOut)
    BY <1>1, NilAssumption
    DEF Next, vars, LaunchHome, LaunchHomeTraps, LaunchLogin, TapLogIn, LoginCancelled,
        LoginFails, TapLogOut, CancelLogOut, LoginCompletes, SignsIn, Rejects,
        MainQueueStep, SignInCallback, SignInFailedCallback, SegueGoHome,
        SegueGoHomeTraps, SegueChooseState, SegueIgnored, SelectState,
        SelectStateTraps, OpenSenator, OpenSettings, OpenSettingsTraps, Back,
        ChangeState, Flush, Kill, Die, keychain
  <2>3. PICK w \in {LoginButtonDidLogOut(defaults, signedOut),
                    SettingsLogOut(defaults, signedOut)} : Persist(w)
    BY <2>2 DEF ConfirmLogOut, LogOutUser
  <2>4. ~After(defaults, w).isLoggedIn /\ After(defaults, w).userId = Nil
    BY <2>1, LogOutsSafe
  <2>5. defaults' = After(defaults, w)
    BY <2>3 DEF Persist
  <2> QED
    BY <2>4, <2>5 DEF UserIsSignedIn
<1>2. Inv /\ [Next]_vars => [Lost => Ended]_vars
  BY <1>1
<1> QED
  BY <1>2, InvHolds, PTL DEF Spec, LogOutEndsSession

-----------------------------------------------------------------------------
(* The app implements DurableSession *)

\* The sessions that a sequence of contents stands for.
SessionsOf(writes) == [i \in 1 .. Len(writes) |-> SessionOf(writes[i])]

\* A handler's writes, in a store with content d, keep the old session up to some
\* point and have the new one from there on.
Switches(d, writes) ==
    \E before, after \in 0 .. 4 :
        /\ before > 0 => after > 0
        /\ after = 0 => SessionOf(After(d, writes)) = SessionOf(d)
        /\ SessionsOf(writes) = [i \in 1 .. before |-> SessionOf(d)]
                                    \o [i \in 1 .. after |-> SessionOf(After(d, writes))]

\* A content that names its user stands for a session.
LEMMA SessionOfType ==
    ASSUME NEW d \in Defaults, NamesItsUser(d)
    PROVE  SessionOf(d) \in Abstract!Sessions
  BY DEF Abstract!Sessions, SessionOf, NamesItsUser, UserIsSignedIn, Defaults, Maybe

\* Contents one after another stand for sessions one after another.
LEMMA SessionsOfConcat ==
    ASSUME NEW v \in Seq(Defaults), NEW w \in Seq(Defaults)
    PROVE  SessionsOf(v \o w) = SessionsOf(v) \o SessionsOf(w)
  BY DEF SessionsOf

\* A handler whose writes switch the session makes a Change.
LEMMA PersistChanges ==
    ASSUME StoreInv, NEW w, SafeWrites(w), Switches(defaults, w), Persist(w)
    PROVE  Abstract!SessionNext
<1> DEFINE new == SessionOf(After(defaults, w))
           old == SessionOf(defaults)
<1>1. defaults' = After(defaults, w) /\ queued' = queued \o w /\ disk' = disk
  BY DEF Persist
<1>2. defaults' \in Defaults /\ NamesItsUser(defaults')
  BY <1>1 DEF StoreInv, StoreTypeOK, LoggedInHasUser, SafeWrites, After
<1>3. new \in Abstract!Sessions
  BY <1>1, <1>2, SessionOfType
<1>4. SessionsOf(queued') = SessionsOf(queued) \o SessionsOf(w)
  BY <1>1, SessionsOfConcat DEF StoreInv, StoreTypeOK, SafeWrites
<1>5. PICK before, after \in 0 .. 4 :
          /\ before > 0 => after > 0
          /\ after = 0 => new = old
          /\ SessionsOf(w) = [i \in 1 .. before |-> old] \o [i \in 1 .. after |-> new]
  BY DEF Switches
<1>6. SessionsOf(queued') = SessionsOf(queued) \o [i \in 1 .. before |-> old]
                                               \o [i \in 1 .. after |-> new]
  <2> DEFINE p == [i \in 1 .. before |-> old]
             q == [i \in 1 .. after |-> new]
             s == SessionsOf(queued)
             All == {old, new} \cup {s[i] : i \in 1 .. Len(queued)}
  <2>1. p \in Seq(All) /\ q \in Seq(All)
    OBVIOUS
  <2>2. s \in Seq(All)
    BY DEF SessionsOf, StoreInv, StoreTypeOK
  <2> HIDE DEF p, q, s, All
  <2>3. s \o (p \o q) = (s \o p) \o q
    BY <2>1, <2>2, ConcatAssociative
  <2> QED
    BY <1>4, <1>5, <2>3 DEF p, q, s
<1>7. Abstract!Change(new)
  BY <1>1, <1>5, <1>6 DEF Abstract!Change, SessionsOf
<1> QED
  BY <1>3, <1>7 DEF Abstract!SessionNext

\* The uid arrives before the flag: with the flag down the first write leaves
\* nobody signed in, with the flag up it already signs the new user in.
LEMMA SignInSwitches ==
    ASSUME NEW d \in Defaults, NEW u \in Users
    PROVE  Switches(d, SignInWrites(d, u))
<1> DEFINE named  == [d EXCEPT !.userId = u]
           raised == [named EXCEPT !.isLoggedIn = TRUE]
           w      == SignInWrites(d, u)
<1>0. w = <<named>> \o <<raised>>
  BY DEF SignInWrites, SetUserId, SetisLoggedInTo
<1>2. SessionOf(raised) = <<u>>
  BY DEF SessionOf, UserIsSignedIn, Defaults
<1>3. d.isLoggedIn => SessionOf(named) = <<u>>
  BY DEF SessionOf, UserIsSignedIn, Defaults
<1>4. ~d.isLoggedIn => SessionOf(named) = <<>> /\ SessionOf(d) = <<>>
  BY DEF SessionOf, UserIsSignedIn, Defaults
<1> HIDE DEF named, raised, w
<1>1. Len(w) = 2 /\ w[1] = named /\ w[2] = raised
  BY <1>0
<1>8. After(d, w) = raised
  BY <1>1 DEF After
<1>5. SessionsOf(w) = <<SessionOf(named), SessionOf(raised)>>
  BY <1>1 DEF SessionsOf
<1>6. CASE d.isLoggedIn
  <2>1. SessionsOf(w) = [i \in 1 .. 0 |-> SessionOf(d)] \o [i \in 1 .. 2 |-> SessionOf(After(d, w))]
    BY <1>2, <1>3, <1>5, <1>6, <1>8
  <2> QED
    BY <2>1 DEF Switches, w
<1>7. CASE ~d.isLoggedIn
  <2>1. SessionsOf(w) = [i \in 1 .. 1 |-> SessionOf(d)] \o [i \in 1 .. 1 |-> SessionOf(After(d, w))]
    BY <1>2, <1>4, <1>5, <1>7, <1>8
  <2> QED
    BY <2>1 DEF Switches, w
<1> QED
  BY <1>6, <1>7

\* Writes that all stand for the session they end in.
LEMMA UniformSwitches ==
    ASSUME NEW d, NEW w \in Seq(Defaults), Len(w) \in 0 .. 4,
           Len(w) = 0 => SessionOf(After(d, w)) = SessionOf(d),
           \A i \in 1 .. Len(w) : SessionOf(w[i]) = SessionOf(After(d, w))
    PROVE  Switches(d, w)
<1>1. SessionsOf(w) = [i \in 1 .. 0 |-> SessionOf(d)]
                          \o [i \in 1 .. Len(w) |-> SessionOf(After(d, w))]
  BY DEF SessionsOf
<1>2. 0 \in 0 .. 4 /\ (0 > 0 => Len(w) > 0)
  OBVIOUS
<1> QED
  BY <1>1, <1>2 DEF Switches

\* clearUserDefaults signs out with its first write, and a second call changes
\* nothing more.
LEMMA ClearIsSignedOut ==
    ASSUME NEW d \in Defaults
    PROVE  /\ Len(ClearUserDefaults(d)) = 2
           /\ \A i \in 1 .. 2 : SessionOf(ClearUserDefaults(d)[i]) = <<>>
<1> DEFINE lowered == [d EXCEPT !.isLoggedIn = FALSE]
           cleared == [d EXCEPT !.isLoggedIn = FALSE, !.userId = Nil]
<1>1. ClearUserDefaults(d) = <<lowered, cleared>>
  BY DEF ClearUserDefaults
<1>2. SessionOf(lowered) = <<>> /\ SessionOf(cleared) = <<>>
  BY DEF SessionOf, UserIsSignedIn, Defaults
<1> HIDE DEF lowered, cleared
<1> QED
  BY <1>1, <1>2

\* Both ways of logging out sign out with their first write, however often they clear.
LEMMA LogOutsSwitch ==
    ASSUME NEW d \in Defaults, NEW signedOut \in BOOLEAN,
           NEW w \in {LoginButtonDidLogOut(d, signedOut), SettingsLogOut(d, signedOut)}
    PROVE  Switches(d, w)
<1> DEFINE cleared == ClearUserDefaults(d)
           again   == ClearUserDefaults(After(d, cleared))
<1>1. /\ cleared \in Seq(Defaults) /\ After(d, cleared) \in Defaults
      /\ Len(cleared) = 2 /\ \A i \in 1 .. 2 : SessionOf(cleared[i]) = <<>>
  BY ClearSafe, ClearIsSignedOut DEF SafeWrites
<1>2. /\ again \in Seq(Defaults)
      /\ Len(again) = 2 /\ \A i \in 1 .. 2 : SessionOf(again[i]) = <<>>
  BY <1>1, ClearSafe, ClearIsSignedOut DEF SafeWrites
<1>3. w \in {cleared \o again, cleared \o <<>>, <<>> \o cleared}
  BY DEF LoginButtonDidLogOut, SettingsLogOut, LogoutOfFireBase, After
<1> HIDE DEF cleared, again
<1>4. cleared \o <<>> = cleared /\ <<>> \o cleared = cleared
  BY <1>1
<1>5. w \in Seq(Defaults) /\ Len(w) \in {2, 4} /\ \A i \in 1 .. Len(w) : SessionOf(w[i]) = <<>>
  <2>1. CASE w = cleared
    BY <1>1, <2>1
  <2>2. CASE w = cleared \o again
    <3>1. /\ w \in Seq(Defaults) /\ Len(w) = 2 + 2
          /\ \A i \in 1 .. 2 + 2 : w[i] = IF i <= 2 THEN cleared[i] ELSE again[i - 2]
      <4> DEFINE D == Defaults
      <4>1. cleared \in Seq(D) /\ again \in Seq(D) /\ Len(cleared) = 2 /\ Len(again) = 2
        BY <1>1, <1>2
      <4> HIDE DEF D
      <4>2. /\ cleared \o again \in Seq(D)
            /\ Len(cleared \o again) = Len(cleared) + Len(again)
            /\ \A i \in 1 .. Len(cleared) + Len(again) :
                  (cleared \o again)[i] = IF i <= Len(cleared) THEN cleared[i]
                                         ELSE again[i - Len(cleared)]
        BY <4>1, ConcatProperties
      <4> QED
        BY <2>2, <4>1, <4>2, Zenon DEF D
    <3>2. \A i \in 1 .. 4 : i \in 1 .. 2 \/ (~(i <= 2) /\ i - 2 \in 1 .. 2)
      OBVIOUS
    <3> QED
      BY <1>1, <1>2, <3>1, <3>2
  <2> QED
    BY <1>3, <1>4, <2>1, <2>2
<1>6. SessionOf(After(d, w)) = <<>>
  BY <1>5 DEF After
<1>7. Len(w) # 0 /\ Len(w) \in 0 .. 4
  <2>1. CASE Len(w) = 2
    BY <2>1
  <2>2. CASE Len(w) = 4
    BY <2>2
  <2> QED
    BY <1>5, <2>1, <2>2
<1> QED
  BY <1>5, <1>6, <1>7, UniformSwitches

\* setStoredState leaves the session alone.
LEMMA SetStoredStateSwitches ==
    ASSUME NEW d \in Defaults, NamesItsUser(d), NEW s \in States
    PROVE  Switches(d, SetStoredState(d, s))
<1> DEFINE w == SetStoredState(d, s)
<1>1. w \in Seq(Defaults)
  BY SetStoredStateSafe DEF SafeWrites
<1>2. Len(w) \in 0 .. 1 /\ SessionOf(After(d, w)) = SessionOf(d)
  BY DEF SetStoredState, After, SessionOf, UserIsSignedIn, Defaults
<1>3. \A i \in 1 .. Len(w) : SessionOf(w[i]) = SessionOf(After(d, w))
  BY <1>1, <1>2 DEF After
<1> HIDE DEF w
<1>4. Switches(d, w)
  BY <1>1, <1>2, <1>3, UniformSwitches
<1> QED
  BY <1>4 DEF w

sessionVars == <<SessionOf(defaults), SessionsOf(queued), SessionOf(disk)>>

\* Every step of the app is a step of DurableSession, or none.
LEMMA StepImplements ==
    ASSUME Inv, [Next]_vars
    PROVE  [Abstract!SessionNext]_sessionVars
<1>1. defaults \in Defaults /\ NamesItsUser(defaults) /\ queued \in Seq(Defaults)
  BY DEF Inv, StoreInv, StoreTypeOK, LoggedInHasUser
<1>2. CASE UNCHANGED store
  BY <1>2 DEF store, sessionVars, SessionsOf
<1>3. CASE DropStore
  <2>1. SessionsOf(queued') = <<>>
    BY <1>3 DEF DropStore, SessionsOf
  <2>2. Abstract!Crash
    BY <1>3, <2>1 DEF DropStore, Abstract!Crash, SessionsOf
  <2> QED
    BY <2>2 DEF Abstract!SessionNext
<1>4. CASE FlushStore
  <2>1. SessionsOf(queued) # <<>> /\ SessionOf(disk') = Head(SessionsOf(queued))
        /\ SessionsOf(queued') = Tail(SessionsOf(queued))
    BY <1>1, <1>4 DEF FlushStore, SessionsOf
  <2>2. Abstract!Save
    BY <1>4, <2>1 DEF FlushStore, Abstract!Save, SessionsOf
  <2> QED
    BY <2>2 DEF Abstract!SessionNext
<1>5. CASE \E w : SafeWrites(w) /\ Switches(defaults, w) /\ Persist(w)
  BY <1>5, PersistChanges DEF Inv
<1>6. \/ UNCHANGED store \/ DropStore \/ FlushStore
      \/ \E w : SafeWrites(w) /\ Switches(defaults, w) /\ Persist(w)
  <2>1. CASE SignInCallback
    <3> DEFINE w == SignInWrites(defaults, Head(mainQueue).user)
    <3>1. Head(mainQueue).user \in Users
      <4>1. Head(mainQueue) \in Task /\ Head(mainQueue).kind = "signedIn"
        BY <2>1 DEF Inv, RestTypeOK, AuthTypeOK, SignInCallback
      <4> QED
        BY <4>1 DEF Task, Completion, Segue
    <3>2. SafeWrites(w) /\ Switches(defaults, w)
      BY <1>1, <3>1, SignInWritesSafe, SignInSwitches
    <3>3. Persist(w)
      BY <2>1 DEF SignInCallback
    <3> QED
      BY <3>2, <3>3
  <2>2. ASSUME NEW signedOut \in BOOLEAN, ConfirmLogOut(signedOut) \/ LogOutUser(signedOut)
        PROVE  \E w : SafeWrites(w) /\ Switches(defaults, w) /\ Persist(w)
    <3>1. PICK w \in {LoginButtonDidLogOut(defaults, signedOut),
                      SettingsLogOut(defaults, signedOut)} : Persist(w)
      BY <2>2 DEF ConfirmLogOut, LogOutUser
    <3>2. SafeWrites(w) /\ Switches(defaults, w)
      BY <1>1, LogOutsSafe, LogOutsSwitch
    <3> QED
      BY <3>1, <3>2
  <2>3. ASSUME NEW s \in States, SelectState(s)
        PROVE  \E w : SafeWrites(w) /\ Switches(defaults, w) /\ Persist(w)
    <3> DEFINE w == SetStoredState(defaults, s)
    <3>1. SafeWrites(w) /\ Switches(defaults, w)
      BY <1>1, SetStoredStateSafe, SetStoredStateSwitches
    <3>2. Persist(w)
      BY <2>3 DEF SelectState
    <3> QED
      BY <3>1, <3>2
  <2>4. CASE Flush
    BY <2>4 DEF Flush
  <2>5. CASE \/ LaunchHomeTraps \/ LoginFails \/ SegueGoHomeTraps \/ SelectStateTraps
             \/ OpenSettingsTraps \/ Kill
    BY <2>5 DEF LaunchHomeTraps, LoginFails, SegueGoHomeTraps, SelectStateTraps,
                OpenSettingsTraps, Kill, Die
  <2>6. CASE \/ LaunchHome \/ LaunchLogin \/ TapLogIn \/ LoginCancelled \/ TapLogOut
             \/ CancelLogOut \/ OpenSenator \/ OpenSettings \/ Back \/ ChangeState
             \/ SignInFailedCallback \/ SegueGoHome \/ SegueChooseState \/ SegueIgnored
             \/ (\E u \in Users : LoginCompletes(u))
             \/ (\E r \in Requests : SignsIn(r) \/ Rejects(r))
    BY <2>6 DEF LaunchHome, LaunchLogin, TapLogIn, LoginCancelled, TapLogOut, CancelLogOut,
                OpenSenator, OpenSettings, Back, ChangeState, SignInFailedCallback,
                SegueGoHome, SegueChooseState, SegueIgnored, LoginCompletes, SignsIn, Rejects
  <2>7. CASE UNCHANGED vars
    BY <2>7 DEF vars, store
  <2> QED
    BY <2>1, <2>2, <2>3, <2>4, <2>5, <2>6, <2>7 DEF Next, MainQueueStep
<1> QED
  BY <1>2, <1>3, <1>4, <1>5, <1>6

\* Whatever is killed when, the sessions that launches find are the ones before or
\* after some sign-in or log-out: the two-key writes of FirebaseAuthManager and
\* UserDefaultManager act as one change.
THEOREM SessionChangesAreAtomic == Spec => SessionIsAtomic
<1>1. Init => Abstract!SessionInit
  BY DEF Init, StoreInit, FreshDefaults, SessionOf, UserIsSignedIn, Abstract!SessionInit
<1>2. Inv /\ [Next]_vars
        => [Abstract!SessionNext]_<<SessionOf(defaults),
                                    [i \in 1 .. Len(queued) |-> SessionOf(queued[i])],
                                    SessionOf(disk)>>
  BY StepImplements DEF sessionVars, SessionsOf
<1> QED
  BY <1>1, <1>2, InvHolds, PTL DEF Spec, SessionIsAtomic, Abstract!SessionSpec

-----------------------------------------------------------------------------
(***************************************************************************)
(* What the user sees, and what the three records of a session say: the    *)
(* proofs that need to know which screens can lie on which.  NavInv is     *)
(* about the stack of screens and the sign-in under way, RecordInv about   *)
(* UserDefaults, Facebook's token and Firebase's user; both only promise   *)
(* something until a log-out overtakes a sign-in, as the properties do.    *)
(***************************************************************************)


\* The screen that a pop uncovers.
Below == screens[Len(screens) - 1]

Viewing == {"Home", "Settings", "Senator"}
Segues == {"goHome", "chooseState"}

\* No log-out of this process has overtaken a sign-in.
Calm == Running /\ ~overlapped

\* A pop uncovers Login from Facebook's dialogs and, from Settings and a senator's
\* page, the Home they were opened from.
PopsAreHarmless ==
    /\ OnTop({"FBLogin", "FBLogOut"}) => Len(screens) > 1 /\ Below.kind = "Login"
    /\ OnTop({"FBLogin"}) => fbToken = Nil
    /\ OnTop({"Settings", "Senator"}) =>
          /\ Len(screens) > 1
          /\ Below.kind = "Home"
          /\ Below.state = StoredState(defaults)

\* The screens behind the sign-in are seen by a signed-in user, and the ones that
\* show a state show the stored one.
ScreensFollowStore ==
    /\ OnTop(Viewing \cup Pickers) => UserIsSignedIn(defaults)
    /\ OnTop(Viewing) => /\ StoredState(defaults) # Nil
                         /\ Top.state = StoredState(defaults)

\* A sign-in keeps its user on Login and is the only one.
OneSignIn ==
    /\ SignInOutstanding => fbToken # Nil /\ OnTop({"Login", "FBLogOut"})
    /\ Len(mainQueue) <= 1
    /\ mainQueue # <<>> => \A r \in Requests : inFlight[r] = Nil
    /\ \A r, q \in Requests : inFlight[r] # Nil /\ inFlight[q] # Nil => r = q

\* What the callback saw when it chose the segue is still so.
SegueIsDue ==
    mainQueue # <<>> =>
        /\ Head(mainQueue).kind \in Segues => UserIsSignedIn(defaults)
        /\ Head(mainQueue).kind = "goHome" => StoredState(defaults) # Nil

NavInv ==
    /\ ~Running => ~SignInOutstanding /\ ~overlapped
    /\ Calm => PopsAreHarmless /\ ScreensFollowStore /\ OneSignIn /\ SegueIsDue

\* The process reads what will be on disk once the queue is written back.
QueueEndsInDefaults == defaults = After(disk, queued)

\* UserDefaults, Facebook and Firebase agree, now and once the sign-in that is
\* under way is over.
RecordsAgree ==
    /\ UserIsSignedIn(defaults) => defaults.userId = fbToken /\ firebaseUser = fbToken
    /\ \A r \in Requests : inFlight[r] # Nil => inFlight[r].user = fbToken
    /\ mainQueue # <<>> =>
          /\ Head(mainQueue).kind \notin Segues => Head(mainQueue).user = fbToken
          /\ Head(mainQueue).kind = "signedIn" => firebaseUser = fbToken

\* What is stored for a user is that user's last choice.
ChoicesAreOwn ==
    \A u \in Users : defaults.userStateDict[u] \in {Nil, chosen[u]}

RecordInv ==
    /\ overlapped => tainted
    /\ QueueEndsInDefaults
    /\ ~tainted => RecordsAgree /\ ChoicesAreOwn

AppInv == Inv /\ NavInv /\ RecordInv

-----------------------------------------------------------------------------
(* The stack *)

\* A push puts its screen on top of the one that was there.
LEMMA PushTop ==
    ASSUME screens \in Seq(Screen), NEW x, Push(x)
    PROVE  /\ Len(screens') = Len(screens) + 1
           /\ screens' # <<>>
           /\ Top' = x
           /\ screens # <<>> => Below' = Top
<1>1. Len(screens) \in Nat
  BY LenProperties
<1>2. Len(screens') = Len(screens) + 1 /\ screens'[Len(screens) + 1] = x
  BY DEF Push
<1>3. screens # <<>> => screens'[Len(screens)] = screens[Len(screens)]
  BY <1>1 DEF Push
<1>4. screens' # <<>>
  BY <1>1, <1>2
<1>5. Len(screens') - 1 = Len(screens)
  BY <1>1, <1>2
<1> QED
  BY <1>2, <1>3, <1>4, <1>5 DEF Top, Below

\* A pop uncovers the screen below.
LEMMA PopTop ==
    ASSUME screens \in Seq(Screen), Len(screens) > 1, Pop
    PROVE  Top' = Below /\ screens' # <<>>
<1>1. Len(screens) \in Nat
  BY LenProperties
<1>2. Len(screens') = Len(screens) - 1 /\ screens'[Len(screens) - 1] = screens[Len(screens) - 1]
  BY <1>1 DEF Pop
<1>3. screens' # <<>>
  BY <1>1, <1>2
<1> QED
  BY <1>2, <1>3 DEF Top, Below

\* A screen that opened with the store content d has its senators.
LEMMA HomeLoadsState ==
    ASSUME NEW d \in Defaults, HomeLoads(d)
    PROVE  StoredState(d) # Nil
  BY DEF HomeLoads, SenatorsOf, HomeRows

\* Home finds the senators of a stored state.
LEMMA StateHomeLoads ==
    ASSUME NEW d \in Defaults, StoredState(d) # Nil
    PROVE  HomeLoads(d)
<1>1. StoredState(d) \in States
  BY StoredStateType DEF Maybe
<1> QED
  BY <1>1, SenatorCountAssumption DEF HomeLoads, SenatorsOf, HomeRows

-----------------------------------------------------------------------------
(* Steps that only open or close a screen *)

\* Opening and closing screens keeps NavInv.
LEMMA NavigationNav ==
    ASSUME Inv, NavInv,
           \/ TapLogIn \/ LoginCancelled \/ TapLogOut \/ CancelLogOut
           \/ OpenSenator \/ OpenSettings \/ Back \/ ChangeState
    PROVE  NavInv'
<1>1. UNCHANGED <<defaults, fbToken, inFlight, mainQueue, overlapped, proc>>
  BY DEF TapLogIn, LoginCancelled, TapLogOut, CancelLogOut, OpenSenator, OpenSettings,
         Back, ChangeState, store, keychain, pending, history
<1>2. Running /\ screens # <<>> /\ screens \in Seq(Screen)
  BY DEF TapLogIn, LoginCancelled, TapLogOut, CancelLogOut, OpenSenator, OpenSettings,
         Back, ChangeState, DialogEnds, OnTop, Inv, RestTypeOK
<1>3. Running' /\ (Calm' <=> Calm) /\ (SignInOutstanding' <=> SignInOutstanding)
  BY <1>1, <1>2 DEF Running, Calm, SignInOutstanding
<1>4. ASSUME NEW k, NEW s, Push(NewScreen(k, s))
      PROVE  screens' # <<>> /\ Top'.kind = k /\ Top'.state = s /\ Below' = Top /\ Len(screens') > 1
  <2>1. Top' = NewScreen(k, s) /\ Below' = Top /\ Len(screens') = Len(screens) + 1
    BY <1>2, <1>4, PushTop
  <2>2. Len(screens) \in Nat \ {0}
    BY <1>2, EmptySeq
  <2> QED
    BY <2>1, <2>2 DEF NewScreen
<1>5. ASSUME Calm
      PROVE  PopsAreHarmless' /\ ScreensFollowStore' /\ OneSignIn'
  <2>1. PopsAreHarmless /\ ScreensFollowStore /\ OneSignIn
    BY <1>5 DEF NavInv
  <2>2. CASE TapLogIn
    <3>1. screens' # <<>> /\ Top'.kind = "FBLogin" /\ Below' = Top /\ Len(screens') > 1
      BY <2>2, <1>4 DEF TapLogIn
    <3>2. fbToken = Nil /\ Top.kind = "Login" /\ ~SignInOutstanding
      BY <2>1, <2>2 DEF TapLogIn, OnTop, Top, OneSignIn
    <3> QED
      BY <1>1, <1>3, <2>1, <3>1, <3>2
      DEF PopsAreHarmless, ScreensFollowStore, OneSignIn, OnTop, Top, Viewing, Pickers
  <2>3. CASE TapLogOut
    <3>1. screens' # <<>> /\ Top'.kind = "FBLogOut" /\ Below' = Top /\ Len(screens') > 1
      BY <2>3, <1>4 DEF TapLogOut
    <3>2. fbToken # Nil /\ Top.kind = "Login"
      BY <2>3 DEF TapLogOut, OnTop, Top
    <3> QED
      BY <1>1, <1>3, <2>1, <3>1, <3>2
      DEF PopsAreHarmless, ScreensFollowStore, OneSignIn, OnTop, Top, Viewing, Pickers
  <2>4. CASE OpenSenator
    <3>1. /\ screens' # <<>> /\ Top'.kind = "Senator" /\ Top'.state = Top.state
          /\ Below' = Top /\ Len(screens') > 1
      BY <2>4, <1>4 DEF OpenSenator
    <3>2. Top.kind = "Home" /\ ~SignInOutstanding
      BY <2>1, <2>4 DEF OpenSenator, OnTop, Top, OneSignIn
    <3> QED
      BY <1>1, <1>2, <1>3, <2>1, <3>1, <3>2
      DEF PopsAreHarmless, ScreensFollowStore, OneSignIn, OnTop, Top, Viewing, Pickers
  <2>5. CASE OpenSettings
    <3>1. /\ screens' # <<>> /\ Top'.kind = "Settings" /\ Top'.state = StoredState(defaults)
          /\ Below' = Top /\ Len(screens') > 1
      BY <2>5, <1>4 DEF OpenSettings
    <3>2. Top.kind = "Home" /\ ~SignInOutstanding
      BY <2>1, <2>5 DEF OpenSettings, OnTop, Top, OneSignIn
    <3> QED
      BY <1>1, <1>2, <1>3, <2>1, <3>1, <3>2
      DEF PopsAreHarmless, ScreensFollowStore, OneSignIn, OnTop, Top, Viewing, Pickers
  <2>6. CASE ChangeState
    <3>1. screens' # <<>> /\ Top'.kind = "SettingsPicker"
      BY <2>6, <1>4 DEF ChangeState
    <3>2. Top.kind = "Settings" /\ ~SignInOutstanding
      BY <2>1, <2>6 DEF ChangeState, OnTop, Top, OneSignIn
    <3> QED
      BY <1>1, <1>2, <1>3, <2>1, <3>1, <3>2
      DEF PopsAreHarmless, ScreensFollowStore, OneSignIn, OnTop, Top, Viewing, Pickers
  <2>7. CASE LoginCancelled \/ CancelLogOut
    <3>1. Len(screens) > 1 /\ Below.kind = "Login" /\ Pop
      BY <2>1, <2>7 DEF LoginCancelled, CancelLogOut, DialogEnds, PopsAreHarmless, OnTop
    <3>2. screens' # <<>> /\ Top'.kind = "Login"
      BY <1>2, <3>1, PopTop
    <3> QED
      BY <1>1, <1>2, <1>3, <2>1, <3>2
      DEF PopsAreHarmless, ScreensFollowStore, OneSignIn, OnTop, Top, Viewing, Pickers
  <2>8. CASE Back
    <3>1. /\ Len(screens) > 1 /\ Below.kind = "Home" /\ Pop
          /\ Below.state = StoredState(defaults) /\ ~SignInOutstanding
      BY <2>1, <2>8 DEF Back, PopsAreHarmless, OneSignIn, OnTop
    <3>2. screens' # <<>> /\ Top'.kind = "Home" /\ Top'.state = StoredState(defaults)
      BY <1>2, <3>1, PopTop
    <3>3. UserIsSignedIn(defaults) /\ StoredState(defaults) # Nil
      BY <2>1, <2>8 DEF Back, ScreensFollowStore, OnTop, Viewing
    <3> QED
      BY <1>1, <1>2, <1>3, <2>1, <3>1, <3>2, <3>3
      DEF PopsAreHarmless, ScreensFollowStore, OneSignIn, OnTop, Top, Viewing, Pickers
  <2> QED
    BY <2>2, <2>3, <2>4, <2>5, <2>6, <2>7, <2>8
<1> QED
  BY <1>1, <1>3, <1>5 DEF NavInv, SegueIsDue

\* So does a step that touches neither screens nor sign-ins.
LEMMA UnchangedNav ==
    ASSUME NavInv, UNCHANGED <<defaults, fbToken, inFlight, mainQueue, overlapped, proc, screens>>
    PROVE  NavInv'
  BY DEF NavInv, Calm, Running, SignInOutstanding, PopsAreHarmless, ScreensFollowStore,
         OneSignIn, SegueIsDue, OnTop, Top, Below

-----------------------------------------------------------------------------
(* Steps that begin or end a process *)

\* With the process die its requests, its queue and what went wrong in it.
LEMMA DieNav ==
    ASSUME NEW reason \in {"killed"} \cup Traps, Die(reason)
    PROVE  NavInv' /\ ~Running'
<1>1. ~Running' /\ ~overlapped' /\ mainQueue' = <<>> /\ \A r \in Requests : inFlight'[r] = Nil
  BY DEF Die, Running, Traps
<1> QED
  BY <1>1 DEF NavInv, Calm, SignInOutstanding

\* A process starts on Home or on Login, with nothing under way.
LEMMA LaunchNav ==
    ASSUME Inv, NavInv, LaunchHome \/ LaunchLogin
    PROVE  NavInv'
<1>1. ~SignInOutstanding /\ ~overlapped
  BY DEF NavInv, LaunchHome, LaunchLogin
<1>2. UNCHANGED <<defaults, fbToken, inFlight, mainQueue, overlapped>> /\ Running'
  BY DEF LaunchHome, LaunchLogin, store, keychain, pending, history, Running
<1>3. ~SignInOutstanding' /\ mainQueue' = <<>> /\ \A r \in Requests : inFlight'[r] = Nil
  BY <1>1, <1>2 DEF SignInOutstanding
<1>4. OneSignIn' /\ SegueIsDue'
  BY <1>3 DEF OneSignIn, SegueIsDue
<1>5. PopsAreHarmless' /\ ScreensFollowStore'
  <2>1. CASE LaunchHome
    <3>1. UserIsSignedIn(defaults) /\ StoredState(defaults) # Nil
      BY <2>1, HomeLoadsState DEF LaunchHome, Inv, StoreInv, StoreTypeOK
    <3>2. screens' = <<NewScreen("Home", StoredState(defaults))>>
      BY <2>1 DEF LaunchHome, ShowHome
    <3>3. screens' # <<>> /\ Top'.kind = "Home" /\ Top'.state = StoredState(defaults)
      BY <3>2 DEF Top, NewScreen
    <3> QED
      BY <1>2, <3>1, <3>3
      DEF PopsAreHarmless, ScreensFollowStore, OnTop, Top, Viewing, Pickers
  <2>2. CASE LaunchLogin
    <3>1. screens' # <<>> /\ Top'.kind = "Login"
      BY <2>2 DEF LaunchLogin, Top, NewScreen
    <3> QED
      BY <3>1 DEF PopsAreHarmless, ScreensFollowStore, OnTop, Top, Viewing, Pickers
  <2> QED
    BY <2>1, <2>2
<1> QED
  BY <1>2, <1>4, <1>5 DEF NavInv

-----------------------------------------------------------------------------
(* Steps of a sign-in *)

\* The login screen is left alone: nothing is required of what it covers.
LEMMA LoginOnTop ==
    ASSUME screens' # <<>>, Top'.kind = "Login"
    PROVE  PopsAreHarmless' /\ ScreensFollowStore' /\ (Running' => OnTop({"Login", "FBLogOut"})')
  BY DEF PopsAreHarmless, ScreensFollowStore, OnTop, Top, Viewing, Pickers

\* Facebook's token starts the one sign-in there is.
LEMMA LoginCompletesNav ==
    ASSUME Inv, NavInv, NEW u \in Users, LoginCompletes(u)
    PROVE  NavInv'
<1>1. Running /\ screens \in Seq(Screen) /\ OnTop({"FBLogin"}) /\ Pop /\ mainQueue = <<>>
  BY DEF Inv, RestTypeOK, LoginCompletes, DialogEnds, OnTop
<1>2. UNCHANGED <<defaults, mainQueue, overlapped, proc>> /\ fbToken' = u /\ u # Nil
  BY NilAssumption DEF LoginCompletes, store, history
<1>3. Running' /\ (Calm' <=> Calm)
  BY <1>1, <1>2 DEF Running, Calm
<1>4. ASSUME Calm
      PROVE  PopsAreHarmless' /\ ScreensFollowStore' /\ OneSignIn' /\ SegueIsDue'
  <2>1. Len(screens) > 1 /\ Below.kind = "Login" /\ ~SignInOutstanding
    BY <1>1, <1>4 DEF NavInv, PopsAreHarmless, OneSignIn, OnTop
  <2>2. screens' # <<>> /\ Top'.kind = "Login"
    BY <1>1, <2>1, PopTop
  <2>3. PICK r \in Requests : inFlight' = [inFlight EXCEPT ![r] = [user |-> u, vc |-> Len(screens) - 1]]
    BY DEF LoginCompletes, LoginFirebaseWith
  <2>4. \A q \in Requests : inFlight'[q] # Nil => q = r
    BY <2>1, <2>3 DEF SignInOutstanding, Inv, RestTypeOK, AuthTypeOK
  <2>5. PopsAreHarmless' /\ ScreensFollowStore' /\ OnTop({"Login", "FBLogOut"})'
    BY <1>3, <2>2, LoginOnTop
  <2>6. mainQueue' = <<>>
    BY <1>1, <1>2
  <2> QED
    BY <1>2, <2>4, <2>5, <2>6 DEF OneSignIn, SegueIsDue
<1> QED
  BY <1>3, <1>4 DEF NavInv

\* A log-out that overtakes no sign-in leaves the user on a quiet Login.
LEMMA LogOutNav ==
    ASSUME Inv, NavInv, NEW signedOut \in BOOLEAN,
           ConfirmLogOut(signedOut) \/ LogOutUser(signedOut)
    PROVE  NavInv'
<1>1. Running /\ screens \in Seq(Screen)
  BY DEF Inv, RestTypeOK, ConfirmLogOut, LogOutUser, OnTop
<1>2. UNCHANGED <<inFlight, mainQueue, proc>> /\ overlapped' = (overlapped \/ SignInOutstanding)
  BY DEF ConfirmLogOut, LogOutUser, pending, NoteLogOut
<1>3. Running' /\ (Calm' => Calm /\ ~SignInOutstanding)
  BY <1>1, <1>2 DEF Running, Calm
<1>4. ASSUME Calm, ~SignInOutstanding
      PROVE  PopsAreHarmless' /\ ScreensFollowStore' /\ OneSignIn' /\ SegueIsDue'
  <2>1. screens' # <<>> /\ Top'.kind = "Login"
    <3>1. CASE ConfirmLogOut(signedOut)
      <4>1. Len(screens) > 1 /\ Below.kind = "Login" /\ Pop
        BY <1>4, <3>1 DEF NavInv, PopsAreHarmless, ConfirmLogOut, OnTop
      <4> QED
        BY <1>1, <4>1, PopTop
    <3>2. CASE LogOutUser(signedOut)
      <4>1. screens' # <<>> /\ Top' = NewScreen("Login", Nil)
        BY <1>1, <3>2, PushTop DEF LogOutUser
      <4> QED
        BY <4>1 DEF NewScreen
    <3> QED
      BY <3>1, <3>2
  <2>2. ~SignInOutstanding' /\ mainQueue' = <<>> /\ \A r \in Requests : inFlight'[r] = Nil
    BY <1>2, <1>4 DEF SignInOutstanding
  <2>3. OneSignIn' /\ SegueIsDue'
    BY <2>2 DEF OneSignIn, SegueIsDue
  <2> QED
    BY <2>1, <2>3, LoginOnTop
<1> QED
  BY <1>3, <1>4 DEF NavInv

\* Firebase's answer takes the place of its request.
LEMMA AnswerNav ==
    ASSUME Inv, NavInv, NEW r \in Requests, SignsIn(r) \/ Rejects(r)
    PROVE  NavInv'
<1>1. /\ Running /\ inFlight[r] # Nil
      /\ UNCHANGED <<defaults, fbToken, overlapped, proc, screens>>
      /\ inFlight' = [inFlight EXCEPT ![r] = Nil]
  BY DEF SignsIn, Rejects, FirebaseSignsIn, FirebaseRejects, store, history
<1>2. PICK t : mainQueue' = Append(mainQueue, t) /\ t.kind \notin Segues
  BY DEF SignsIn, Rejects, FirebaseSignsIn, FirebaseRejects, Segues
<1>3. Running' /\ (Calm' <=> Calm)
  BY <1>1 DEF Running, Calm
<1>4. ASSUME Calm
      PROVE  PopsAreHarmless' /\ ScreensFollowStore' /\ OneSignIn' /\ SegueIsDue'
  <2>1. PopsAreHarmless /\ ScreensFollowStore /\ OneSignIn
    BY <1>4 DEF NavInv
  <2>2. mainQueue = <<>> /\ SignInOutstanding
    BY <1>1, <2>1 DEF OneSignIn, SignInOutstanding
  <2>3. mainQueue' = <<t>>
    BY <1>2, <2>2
  <2>4. Len(mainQueue') = 1 /\ Head(mainQueue').kind \notin Segues
    BY <1>2, <2>3
  <2>5. \A q \in Requests : inFlight'[q] = Nil
    BY <1>1, <2>1 DEF OneSignIn, Inv, RestTypeOK, AuthTypeOK
  <2>6. OneSignIn'
    BY <1>1, <2>1, <2>2, <2>4, <2>5 DEF OneSignIn, OnTop, Running
  <2>7. SegueIsDue'
    BY <2>4 DEF SegueIsDue, Segues
  <2>8. PopsAreHarmless' /\ ScreensFollowStore'
    BY <1>1, <2>1 DEF PopsAreHarmless, ScreensFollowStore, OnTop, Running, Top, Below
  <2> QED
    BY <2>6, <2>7, <2>8
<1> QED
  BY <1>3, <1>4 DEF NavInv

\* What a successful sign-in leaves in the store.
LEMMA AfterSignIn ==
    ASSUME NEW d \in Defaults, NEW u \in Users
    PROVE  /\ UserIsSignedIn(After(d, SignInWrites(d, u)))
           /\ After(d, SignInWrites(d, u)).userId = u
           /\ After(d, SignInWrites(d, u)).userStateDict = d.userStateDict
<1> DEFINE named  == [d EXCEPT !.userId = u]
           raised == [named EXCEPT !.isLoggedIn = TRUE]
<1>1. SignInWrites(d, u) = <<named>> \o <<raised>>
  BY DEF SignInWrites, SetUserId, SetisLoggedInTo
<1>2. raised.isLoggedIn /\ raised.userId = u /\ raised.userStateDict = d.userStateDict
  BY DEF Defaults
<1> HIDE DEF named, raised
<1>3. After(d, SignInWrites(d, u)) = raised
  BY <1>1 DEF After
<1> QED
  BY <1>2, <1>3 DEF UserIsSignedIn

\* What a choice in the picker leaves in the store of a user it knows.
LEMMA AfterSetStoredState ==
    ASSUME NEW d \in Defaults, d.userId # Nil, NEW s \in States
    PROVE  LET e == After(d, SetStoredState(d, s)) IN
           /\ e.isLoggedIn = d.isLoggedIn
           /\ e.userId = d.userId
           /\ e.userStateDict = [u \in Users |-> IF u = d.userId THEN s ELSE Nil]
           /\ StoredState(e) = s
<1> DEFINE dict == [u \in Users |-> IF u = d.userId THEN s ELSE Nil]
           kept == [d EXCEPT !.userStateDict = dict]
<1>1. SetStoredState(d, s) = <<kept>>
  BY DEF SetStoredState
<1>2. dict[d.userId] = s
  BY DEF Defaults, Maybe
<1> HIDE DEF dict
<1>3. kept.isLoggedIn = d.isLoggedIn /\ kept.userId = d.userId /\ kept.userStateDict = dict
  BY DEF Defaults
<1> HIDE DEF kept
<1>4. After(d, SetStoredState(d, s)) = kept
  BY <1>1 DEF After
<1>5. StoredState(kept) = s
  BY <1>2, <1>3 DEF StoredState
<1> QED
  BY <1>3, <1>4, <1>5 DEF dict

\* The main queue holds one block when it holds any: taking it leaves none.
LEMMA QueueOfOne ==
    ASSUME NEW S, NEW q \in Seq(S), q # <<>>, Len(q) <= 1
    PROVE  Tail(q) = <<>>
<1>0. Len(q) \in Nat /\ Len(q) # 0
  BY EmptySeq
<1>1. Len(q) = 1
  BY <1>0
<1>2. Len(Tail(q)) = 0 /\ Tail(q) \in Seq(S)
  BY <1>1, HeadTailProperties
<1> QED
  BY <1>2, EmptySeq

\* The completion block finds its user still before the Login screen, and the
\* segue that it dispatches is the one for what it just stored.
LEMMA SignInCallbackNav ==
    ASSUME Inv, NavInv, SignInCallback
    PROVE  NavInv'
<1> DEFINE task == Head(mainQueue)
           writes == SignInWrites(defaults, task.user)
           segue == [kind |-> SegueAfterLogin(After(defaults, writes)),
                     user |-> Nil, vc |-> task.vc]
<1>1. Running /\ mainQueue \in Seq(Task) /\ mainQueue # <<>> /\ defaults \in Defaults
  BY DEF Inv, RestTypeOK, AuthTypeOK, StoreInv, StoreTypeOK, SignInCallback
<1>2. task.user \in Users
  <2>1. task \in Task /\ task.kind = "signedIn"
    BY <1>1 DEF SignInCallback
  <2> QED
    BY <2>1 DEF Task, Completion, Segue
<1>3. /\ UNCHANGED <<fbToken, inFlight, overlapped, proc, screens>>
      /\ defaults' = After(defaults, writes)
      /\ mainQueue' = Append(Tail(mainQueue), segue)
  BY DEF SignInCallback, Persist, Dispatch, keychain, history
<1>4. UserIsSignedIn(defaults')
  BY <1>1, <1>2, <1>3, AfterSignIn
<1>5. Running' /\ (Calm' <=> Calm)
  BY <1>1, <1>3 DEF Running, Calm
<1>6. segue.kind = SegueAfterLogin(defaults')
  BY <1>3
<1> HIDE DEF segue, writes
<1>7. ASSUME Calm
      PROVE  PopsAreHarmless' /\ ScreensFollowStore' /\ OneSignIn' /\ SegueIsDue'
  <2>1. PopsAreHarmless /\ ScreensFollowStore /\ OneSignIn
    BY <1>7 DEF NavInv
  <2>2. SignInOutstanding /\ OnTop({"Login", "FBLogOut"}) /\ Tail(mainQueue) = <<>>
    BY <1>1, <2>1, QueueOfOne DEF OneSignIn, SignInOutstanding
  <2>3. mainQueue' = Append(<<>>, segue)
    BY <1>3, <2>2
  <2>4. Len(mainQueue') = 1 /\ Head(mainQueue') = segue
    BY <2>3
  <2>5. OneSignIn'
    BY <1>1, <1>3, <2>1, <2>2, <2>4 DEF OneSignIn, OnTop, Running
  <2>6. SegueIsDue'
    BY <1>4, <1>6, <2>4 DEF SegueIsDue, SegueAfterLogin
  <2>7. PopsAreHarmless' /\ ScreensFollowStore'
    BY <1>3, <2>1, <2>2
    DEF PopsAreHarmless, ScreensFollowStore, OnTop, Running, Top, Below, Viewing, Pickers
  <2> QED
    BY <2>5, <2>6, <2>7
<1> QED
  BY <1>5, <1>7 DEF NavInv

\* The other blocks of the main queue.
LEMMA MainQueueNav ==
    ASSUME Inv, NavInv,
           SignInFailedCallback \/ SegueGoHome \/ SegueChooseState \/ SegueIgnored
    PROVE  NavInv'
<1>1. /\ Running /\ mainQueue # <<>> /\ mainQueue' = Tail(mainQueue)
      /\ UNCHANGED <<defaults, fbToken, inFlight, overlapped, proc>>
  BY DEF SignInFailedCallback, SegueGoHome, SegueChooseState, SegueIgnored, SegueIs,
         store, keychain, history
<1>2. screens \in Seq(Screen) /\ mainQueue \in Seq(Task) /\ defaults \in Defaults
  BY DEF Inv, RestTypeOK, AuthTypeOK, StoreInv, StoreTypeOK
<1>3. Running' /\ (Calm' <=> Calm)
  BY <1>1 DEF Running, Calm
<1>4. ASSUME Calm
      PROVE  PopsAreHarmless' /\ ScreensFollowStore' /\ OneSignIn' /\ SegueIsDue'
  <2>1. PopsAreHarmless /\ ScreensFollowStore /\ OneSignIn /\ SegueIsDue
    BY <1>4 DEF NavInv
  <2>2. mainQueue' = <<>> /\ \A r \in Requests : inFlight'[r] = Nil
    BY <1>1, <1>2, <2>1, QueueOfOne DEF OneSignIn
  <2>3. OneSignIn' /\ SegueIsDue'
    BY <2>2 DEF OneSignIn, SegueIsDue, SignInOutstanding
  <2>4. CASE SegueGoHome
    <3>1. UserIsSignedIn(defaults) /\ StoredState(defaults) # Nil
      BY <1>1, <2>1, <2>4 DEF SegueGoHome, SegueIs, SegueIsDue, Segues
    <3>2. screens' # <<>> /\ Top' = NewScreen("Home", StoredState(defaults))
      BY <1>2, <2>4, PushTop DEF SegueGoHome, ShowHome, Push
    <3> QED
      BY <1>1, <2>3, <3>1, <3>2
      DEF PopsAreHarmless, ScreensFollowStore, OnTop, Top, NewScreen, Viewing, Pickers
  <2>5. CASE SegueChooseState
    <3>1. UserIsSignedIn(defaults)
      BY <1>1, <2>1, <2>5 DEF SegueChooseState, SegueIs, SegueIsDue, Segues
    <3>2. screens' # <<>> /\ Top' = NewScreen("LoginPicker", Nil)
      BY <1>2, <2>5, PushTop DEF SegueChooseState
    <3> QED
      BY <1>1, <2>3, <3>1, <3>2
      DEF PopsAreHarmless, ScreensFollowStore, OnTop, Top, NewScreen, Viewing, Pickers
  <2>6. CASE SignInFailedCallback \/ SegueIgnored
    <3>1. screens' = screens
      BY <2>6 DEF SignInFailedCallback, SegueIgnored
    <3> QED
      BY <1>1, <2>1, <2>3, <3>1
      DEF PopsAreHarmless, ScreensFollowStore, OnTop, Running, Top, Below
  <2> QED
    BY <2>4, <2>5, <2>6
<1> QED
  BY <1>3, <1>4 DEF NavInv

-----------------------------------------------------------------------------
(* A choice in the picker *)

\* A picker is seen by a signed-in user, who has a uid: the choice is stored and
\* the new Home shows it.
LEMMA SelectStateNav ==
    ASSUME Inv, NavInv, NEW s \in States, SelectState(s)
    PROVE  NavInv'
<1> DEFINE d == After(defaults, SetStoredState(defaults, s))
<1>1. screens \in Seq(Screen) /\ defaults \in Defaults /\ NamesItsUser(defaults)
  BY DEF Inv, RestTypeOK, StoreInv, StoreTypeOK, LoggedInHasUser
<1>2. /\ UNCHANGED <<fbToken, inFlight, mainQueue, overlapped, proc>> /\ OnTop(Pickers)
      /\ defaults' = d /\ Push(NewScreen("Home", StoredState(d)))
  BY DEF SelectState, Persist, ShowHome, Push, keychain, pending
<1> HIDE DEF d
<1>3. Running /\ Running' /\ (Calm' <=> Calm)
  BY <1>2 DEF Running, Calm, OnTop
<1>4. ASSUME Calm
      PROVE  PopsAreHarmless' /\ ScreensFollowStore' /\ OneSignIn' /\ SegueIsDue'
  <2>1. ScreensFollowStore /\ OneSignIn
    BY <1>4 DEF NavInv
  <2>2. UserIsSignedIn(defaults) /\ ~SignInOutstanding
    BY <1>2, <2>1 DEF ScreensFollowStore, OneSignIn, OnTop, Pickers
  <2>3. defaults.userId # Nil
    BY <1>1, <2>2 DEF NamesItsUser
  <2>4. UserIsSignedIn(defaults') /\ StoredState(d) = s /\ s # Nil
    BY <1>1, <1>2, <2>2, <2>3, AfterSetStoredState, NilAssumption DEF UserIsSignedIn, d
  <2>5. screens' # <<>> /\ Top' = NewScreen("Home", s)
    BY <1>1, <1>2, <2>4, PushTop
  <2>6. mainQueue' = <<>> /\ \A r \in Requests : inFlight'[r] = Nil
    BY <1>2, <2>2 DEF SignInOutstanding
  <2>7. OneSignIn' /\ SegueIsDue'
    BY <2>6 DEF OneSignIn, SegueIsDue, SignInOutstanding
  <2>8. PopsAreHarmless' /\ ScreensFollowStore'
    BY <1>2, <2>4, <2>5
    DEF PopsAreHarmless, ScreensFollowStore, OnTop, Top, NewScreen, Viewing, Pickers
  <2> QED
    BY <2>7, <2>8
<1> QED
  BY <1>3, <1>4 DEF NavInv

-----------------------------------------------------------------------------

\* All steps of the app together.
LEMMA NextNav == Inv /\ NavInv /\ [Next]_vars => NavInv'
<1> SUFFICES ASSUME Inv, NavInv, [Next]_vars PROVE NavInv'
  OBVIOUS
<1>1. CASE LaunchHome \/ LaunchLogin
  BY <1>1, LaunchNav
<1>2. CASE \/ TapLogIn \/ LoginCancelled \/ TapLogOut \/ CancelLogOut
           \/ OpenSenator \/ OpenSettings \/ Back \/ ChangeState
  BY <1>2, NavigationNav
<1>3. CASE \/ LaunchHomeTraps \/ LoginFails \/ SegueGoHomeTraps \/ SelectStateTraps
           \/ OpenSettingsTraps \/ Kill
  <2>1. PICK reason \in {"killed"} \cup Traps : Die(reason)
    BY <1>3 DEF LaunchHomeTraps, LoginFails, SegueGoHomeTraps, SelectStateTraps,
                OpenSettingsTraps, Kill, Traps
  <2> QED
    BY <2>1, DieNav
<1>4. CASE \E u \in Users : LoginCompletes(u)
  BY <1>4, LoginCompletesNav
<1>5. CASE \E signedOut \in BOOLEAN : ConfirmLogOut(signedOut) \/ LogOutUser(signedOut)
  BY <1>5, LogOutNav
<1>6. CASE \E r \in Requests : SignsIn(r) \/ Rejects(r)
  BY <1>6, AnswerNav
<1>7. CASE SignInCallback
  BY <1>7, SignInCallbackNav
<1>8. CASE SignInFailedCallback \/ SegueGoHome \/ SegueChooseState \/ SegueIgnored
  BY <1>8, MainQueueNav
<1>9. CASE \E s \in States : SelectState(s)
  BY <1>9, SelectStateNav
<1>10. CASE Flush \/ UNCHANGED vars
  <2>1. UNCHANGED <<defaults, fbToken, inFlight, mainQueue, overlapped, proc, screens>>
    BY <1>10 DEF Flush, FlushStore, vars, keychain, pending, history
  <2> QED
    BY <2>1, UnchangedNav
<1> QED
  BY <1>1, <1>2, <1>3, <1>4, <1>5, <1>6, <1>7, <1>8, <1>9, <1>10 DEF Next, MainQueueStep

-----------------------------------------------------------------------------
(* The queue of writes *)

\* A handler's writes go to the end of the queue.
LEMMA PersistEnds ==
    ASSUME StoreInv, QueueEndsInDefaults, NEW w \in Seq(Defaults), Persist(w)
    PROVE  QueueEndsInDefaults'
<1>1. /\ defaults' = After(defaults, w) /\ queued' = queued \o w /\ disk' = disk
      /\ queued \in Seq(Defaults)
  BY DEF Persist, StoreInv, StoreTypeOK
<1>2. CASE w = <<>>
  <2>1. queued' = queued /\ defaults' = defaults
    BY <1>1, <1>2 DEF After
  <2> QED
    BY <1>1, <2>1 DEF QueueEndsInDefaults
<1>3. CASE w # <<>>
  <2>1. Len(w) \in Nat \ {0} /\ Len(queued) \in Nat
    BY <1>1, <1>3, EmptySeq
  <2>2. /\ Len(queued') = Len(queued) + Len(w)
        /\ queued'[Len(queued) + Len(w)] = w[Len(w)]
    BY <1>1, <2>1
  <2>3. queued' # <<>>
    BY <2>1, <2>2
  <2>4. defaults' = w[Len(w)]
    BY <1>1, <1>3 DEF After
  <2> QED
    BY <2>2, <2>3, <2>4 DEF QueueEndsInDefaults, After
<1> QED
  BY <1>2, <1>3

\* The first write of the queue goes to disk.
LEMMA FlushEnds ==
    ASSUME StoreInv, QueueEndsInDefaults, FlushStore
    PROVE  QueueEndsInDefaults'
<1>1. /\ queued \in Seq(Defaults) /\ queued # <<>>
      /\ disk' = Head(queued) /\ queued' = Tail(queued) /\ defaults' = defaults
  BY DEF FlushStore, StoreInv, StoreTypeOK
<1>2. defaults = queued[Len(queued)]
  BY <1>1 DEF QueueEndsInDefaults, After
<1>3. Len(queued) \in Nat \ {0}
  BY <1>1, EmptySeq
<1>4. CASE Len(queued) = 1
  <2>1. queued' = <<>>
    BY <1>1, <1>4, QueueOfOne
  <2>2. disk' = queued[1]
    BY <1>1
  <2> QED
    BY <1>1, <1>2, <1>4, <2>1, <2>2 DEF QueueEndsInDefaults, After
<1>5. CASE Len(queued) > 1
  <2>1. Len(queued') = Len(queued) - 1 /\ queued'[Len(queued) - 1] = queued[Len(queued)]
    BY <1>1, <1>3, <1>5
  <2>2. queued' # <<>>
    BY <1>3, <1>5, <2>1
  <2> QED
    BY <1>1, <1>2, <2>1, <2>2 DEF QueueEndsInDefaults, After
<1>6. \A n \in Nat \ {0} : n = 1 \/ n > 1
  OBVIOUS
<1> QED
  BY <1>3, <1>4, <1>5, <1>6

\* Neither way to log out touches the choices.
LEMMA LogOutsKeepChoices ==
    ASSUME NEW d \in Defaults, NEW signedOut \in BOOLEAN,
           NEW w \in {LoginButtonDidLogOut(d, signedOut), SettingsLogOut(d, signedOut)}
    PROVE  After(d, w).userStateDict = d.userStateDict
<1>1. ASSUME NEW e \in Defaults
      PROVE  /\ ClearUserDefaults(e) \in Seq(Defaults) /\ ClearUserDefaults(e) # <<>>
             /\ After(e, ClearUserDefaults(e)) \in Defaults
             /\ After(e, ClearUserDefaults(e)).userStateDict = e.userStateDict
  <2>1. After(e, ClearUserDefaults(e)) = [e EXCEPT !.isLoggedIn = FALSE, !.userId = Nil]
    BY DEF After, ClearUserDefaults
  <2> QED
    BY <2>1, ClearSafe DEF SafeWrites, Defaults
<1> DEFINE cleared == ClearUserDefaults(d)
           again   == ClearUserDefaults(After(d, cleared))
<1>2. /\ cleared \in Seq(Defaults) /\ cleared # <<>> /\ After(d, cleared) \in Defaults
      /\ After(d, cleared).userStateDict = d.userStateDict
  BY <1>1
<1>3. /\ again \in Seq(Defaults) /\ again # <<>>
      /\ After(After(d, cleared), again).userStateDict = d.userStateDict
  BY <1>1, <1>2
<1>4. w \in {cleared \o again, cleared \o <<>>, <<>> \o cleared}
  BY DEF LoginButtonDidLogOut, SettingsLogOut, LogoutOfFireBase, After
<1> HIDE DEF cleared, again
<1>5. cleared \o <<>> = cleared /\ <<>> \o cleared = cleared
  BY <1>2
<1>6. After(d, cleared \o again) = After(After(d, cleared), again)
  BY <1>2, <1>3 DEF After
<1> QED
  BY <1>2, <1>3, <1>4, <1>5, <1>6

-----------------------------------------------------------------------------
(* The records *)

\* A step that changes no record keeps RecordInv.
LEMMA UnchangedRecord ==
    ASSUME RecordInv, QueueEndsInDefaults',
           UNCHANGED <<defaults, fbToken, firebaseUser, inFlight, mainQueue,
                       overlapped, tainted, chosen>>
    PROVE  RecordInv'
  BY DEF RecordInv, RecordsAgree, ChoicesAreOwn

\* A process that lost no write leaves the records as they were.
LEMMA DieRecord ==
    ASSUME Inv, RecordInv, NEW reason, Die(reason)
    PROVE  RecordInv'
<1>1. /\ overlapped' = FALSE /\ tainted' = (tainted \/ queued # <<>>)
      /\ mainQueue' = <<>> /\ (\A r \in Requests : inFlight'[r] = Nil)
      /\ defaults' = disk /\ queued' = <<>> /\ disk' = disk
      /\ UNCHANGED <<fbToken, firebaseUser, chosen>>
  BY DEF Die, DropStore
<1>2. QueueEndsInDefaults'
  BY <1>1 DEF QueueEndsInDefaults, After
<1>3. ASSUME ~tainted' PROVE RecordsAgree' /\ ChoicesAreOwn'
  <2>1. ~tainted /\ queued = <<>>
    BY <1>1, <1>3
  <2>2. defaults' = defaults
    BY <1>1, <2>1 DEF RecordInv, QueueEndsInDefaults, After
  <2> QED
    BY <1>1, <2>1, <2>2 DEF RecordInv, RecordsAgree, ChoicesAreOwn
<1> QED
  BY <1>1, <1>2, <1>3 DEF RecordInv

\* The dialog was there because nobody was signed in with Facebook, and so nobody
\* was in the app.
LEMMA LoginCompletesRecord ==
    ASSUME Inv, NavInv, RecordInv, NEW u \in Users, LoginCompletes(u)
    PROVE  RecordInv'
<1>1. /\ UNCHANGED <<defaults, queued, disk, firebaseUser, mainQueue, overlapped, tainted, chosen>>
      /\ fbToken' = u /\ Running /\ OnTop({"FBLogin"}) /\ mainQueue = <<>>
  BY DEF LoginCompletes, DialogEnds, OnTop, store, history
<1>2. QueueEndsInDefaults'
  BY <1>1 DEF RecordInv, QueueEndsInDefaults, After
<1>3. ASSUME ~tainted PROVE RecordsAgree' /\ ChoicesAreOwn'
  <2>1. Calm /\ RecordsAgree /\ ChoicesAreOwn
    BY <1>1, <1>3 DEF RecordInv, Calm
  <2>2. fbToken = Nil /\ ~SignInOutstanding
    BY <1>1, <2>1 DEF NavInv, PopsAreHarmless, OneSignIn, OnTop
  <2>3. ~UserIsSignedIn(defaults)
    BY <2>1, <2>2 DEF RecordsAgree, Inv, StoreInv, LoggedInHasUser, NamesItsUser
  <2>4. PICK r \in Requests : inFlight' = [inFlight EXCEPT ![r] = [user |-> u, vc |-> Len(screens) - 1]]
    BY DEF LoginCompletes, LoginFirebaseWith
  <2>5. \A q \in Requests : inFlight'[q] # Nil => inFlight'[q].user = u
    BY <2>2, <2>4 DEF SignInOutstanding, Inv, RestTypeOK, AuthTypeOK
  <2> QED
    BY <1>1, <2>1, <2>3, <2>5 DEF RecordsAgree, ChoicesAreOwn
<1> QED
  BY <1>1, <1>2, <1>3 DEF RecordInv

\* A log-out that overtakes no sign-in ends all three records.
LEMMA LogOutRecord ==
    ASSUME Inv, RecordInv, NEW signedOut \in BOOLEAN,
           ConfirmLogOut(signedOut) \/ LogOutUser(signedOut)
    PROVE  RecordInv'
<1>1. /\ overlapped' = (overlapped \/ SignInOutstanding)
      /\ tainted' = (tainted \/ SignInOutstanding)
      /\ UNCHANGED <<inFlight, mainQueue, chosen>>
  BY DEF ConfirmLogOut, LogOutUser, pending, NoteLogOut
<1>2. defaults \in Defaults
  BY DEF Inv, StoreInv, StoreTypeOK
<1>3. PICK w \in {LoginButtonDidLogOut(defaults, signedOut),
                  SettingsLogOut(defaults, signedOut)} : Persist(w)
  BY DEF ConfirmLogOut, LogOutUser
<1>4. /\ defaults' = After(defaults, w) /\ w \in Seq(Defaults)
      /\ ~UserIsSignedIn(defaults')
      /\ defaults'.userStateDict = defaults.userStateDict
  BY <1>2, <1>3, LogOutsSafe, LogOutsKeepChoices DEF Persist, SafeWrites, UserIsSignedIn
<1>5. QueueEndsInDefaults'
  BY <1>3, <1>4, PersistEnds DEF Inv, RecordInv
<1>6. ASSUME ~tainted' PROVE RecordsAgree' /\ ChoicesAreOwn'
  <2>1. ~tainted /\ ~SignInOutstanding
    BY <1>1, <1>6
  <2>2. mainQueue' = <<>> /\ \A r \in Requests : inFlight'[r] = Nil
    BY <1>1, <2>1 DEF SignInOutstanding
  <2> QED
    BY <1>1, <1>4, <2>1, <2>2 DEF RecordInv, RecordsAgree, ChoicesAreOwn
<1>7. overlapped' => tainted'
  BY <1>1 DEF RecordInv
<1> QED
  BY <1>5, <1>6, <1>7 DEF RecordInv

\* Firebase's answer is about the user of the token.
LEMMA AnswerRecord ==
    ASSUME Inv, NavInv, RecordInv, NEW r \in Requests, SignsIn(r) \/ Rejects(r)
    PROVE  RecordInv'
<1>1. /\ UNCHANGED <<defaults, queued, disk, fbToken, overlapped, tainted, chosen>>
      /\ Running /\ inFlight[r] # Nil
      /\ inFlight' = [inFlight EXCEPT ![r] = Nil]
  BY DEF SignsIn, Rejects, FirebaseSignsIn, FirebaseRejects, store, history
<1>2. QueueEndsInDefaults'
  BY <1>1 DEF RecordInv, QueueEndsInDefaults, After
<1>3. ASSUME ~tainted PROVE RecordsAgree' /\ ChoicesAreOwn'
  <2>1. Calm /\ RecordsAgree /\ ChoicesAreOwn
    BY <1>1, <1>3 DEF RecordInv, Calm
  <2>2. mainQueue = <<>> /\ inFlight[r].user = fbToken
    BY <1>1, <2>1 DEF NavInv, OneSignIn, RecordsAgree
  <2>3. \A q \in Requests : inFlight'[q] = Nil
    BY <1>1, <2>1 DEF NavInv, OneSignIn, Inv, RestTypeOK, AuthTypeOK
  <2>4. PICK t : /\ mainQueue' = Append(<<>>, t) /\ t.user = fbToken
                 /\ t.kind \notin Segues
                 /\ t.kind = "signedIn" => firebaseUser' = fbToken
    BY <2>2 DEF SignsIn, Rejects, FirebaseSignsIn, FirebaseRejects, Segues
  <2>5. Head(mainQueue') = t
    BY <2>4
  <2>6. firebaseUser' \in {firebaseUser, fbToken}
    BY <2>2 DEF SignsIn, Rejects, FirebaseSignsIn, FirebaseRejects
  <2> QED
    BY <1>1, <2>1, <2>3, <2>4, <2>5, <2>6 DEF RecordsAgree, ChoicesAreOwn
<1> QED
  BY <1>1, <1>2, <1>3 DEF RecordInv

\* The completion block stores the user whose token and Firebase account it is.
LEMMA SignInCallbackRecord ==
    ASSUME Inv, NavInv, RecordInv, SignInCallback
    PROVE  RecordInv'
<1> DEFINE task == Head(mainQueue)
           writes == SignInWrites(defaults, task.user)
           segue == [kind |-> SegueAfterLogin(After(defaults, writes)),
                     user |-> Nil, vc |-> task.vc]
<1>1. Running /\ mainQueue \in Seq(Task) /\ mainQueue # <<>> /\ defaults \in Defaults
  BY DEF Inv, RestTypeOK, AuthTypeOK, StoreInv, StoreTypeOK, SignInCallback
<1>2. task.user \in Users /\ task.kind = "signedIn"
  <2>1. task \in Task /\ task.kind = "signedIn"
    BY <1>1 DEF SignInCallback
  <2> QED
    BY <2>1 DEF Task, Completion, Segue
<1>3. /\ UNCHANGED <<fbToken, firebaseUser, inFlight, overlapped, tainted, chosen>>
      /\ defaults' = After(defaults, writes) /\ Persist(writes)
      /\ mainQueue' = Append(Tail(mainQueue), segue)
  BY DEF SignInCallback, Persist, Dispatch, keychain, history
<1>4. writes \in Seq(Defaults)
  BY <1>1, <1>2, SignInWritesSafe DEF SafeWrites
<1>5. /\ UserIsSignedIn(defaults') /\ defaults'.userId = task.user
      /\ defaults'.userStateDict = defaults.userStateDict
  BY <1>1, <1>2, <1>3, AfterSignIn
<1>6. QueueEndsInDefaults'
  BY <1>3, <1>4, PersistEnds DEF Inv, RecordInv
<1>7. segue.kind \in Segues
  BY DEF SegueAfterLogin, Segues
<1> HIDE DEF segue, writes
<1>8. ASSUME ~tainted PROVE RecordsAgree' /\ ChoicesAreOwn'
  <2>1. Calm /\ RecordsAgree /\ ChoicesAreOwn
    BY <1>1, <1>8 DEF RecordInv, Calm
  <2>2. task.user = fbToken /\ firebaseUser = fbToken
    BY <1>1, <1>2, <2>1 DEF RecordsAgree, Segues
  <2>3. Tail(mainQueue) = <<>> /\ \A q \in Requests : inFlight[q] = Nil
    BY <1>1, <2>1, QueueOfOne DEF NavInv, OneSignIn
  <2>4. mainQueue' = Append(<<>>, segue)
    BY <1>3, <2>3
  <2>5. Head(mainQueue') = segue
    BY <2>4
  <2> QED
    BY <1>3, <1>5, <1>7, <2>1, <2>2, <2>3, <2>5 DEF RecordsAgree, ChoicesAreOwn, Segues
<1> QED
  BY <1>3, <1>6, <1>8 DEF RecordInv

\* Segues and failed sign-ins leave the records as they are.
LEMMA MainQueueRecord ==
    ASSUME Inv, NavInv, RecordInv,
           SignInFailedCallback \/ SegueGoHome \/ SegueChooseState \/ SegueIgnored
    PROVE  RecordInv'
<1>1. /\ Running /\ mainQueue # <<>> /\ mainQueue' = Tail(mainQueue) /\ mainQueue \in Seq(Task)
      /\ UNCHANGED <<defaults, queued, disk, fbToken, firebaseUser, inFlight,
                     overlapped, tainted, chosen>>
  BY DEF SignInFailedCallback, SegueGoHome, SegueChooseState, SegueIgnored, SegueIs,
         store, keychain, history, Inv, RestTypeOK, AuthTypeOK
<1>2. QueueEndsInDefaults'
  BY <1>1 DEF RecordInv, QueueEndsInDefaults, After
<1>3. ASSUME ~tainted PROVE RecordsAgree' /\ ChoicesAreOwn'
  <2>1. Calm /\ RecordsAgree /\ ChoicesAreOwn
    BY <1>1, <1>3 DEF RecordInv, Calm
  <2>2. mainQueue' = <<>>
    BY <1>1, <2>1, QueueOfOne DEF NavInv, OneSignIn
  <2> QED
    BY <1>1, <2>1, <2>2 DEF RecordsAgree, ChoicesAreOwn
<1> QED
  BY <1>1, <1>2, <1>3 DEF RecordInv

\* A choice is stored for the user who made it, and forgets all others.
LEMMA SelectStateRecord ==
    ASSUME Inv, NavInv, RecordInv, NEW s \in States, SelectState(s)
    PROVE  RecordInv'
<1> DEFINE writes == SetStoredState(defaults, s)
<1>1. /\ UNCHANGED <<fbToken, firebaseUser, inFlight, mainQueue, overlapped, tainted>>
      /\ Running /\ OnTop(Pickers) /\ Persist(writes) /\ defaults' = After(defaults, writes)
      /\ chosen' = IF fbToken = Nil THEN chosen ELSE [chosen EXCEPT ![fbToken] = s]
  BY DEF SelectState, Persist, OnTop, keychain, pending
<1>2. defaults \in Defaults /\ NamesItsUser(defaults) /\ chosen \in [Users -> Maybe(States)]
  BY DEF Inv, RestTypeOK, StoreInv, StoreTypeOK, LoggedInHasUser
<1>3. writes \in Seq(Defaults)
  BY <1>2, SetStoredStateSafe DEF SafeWrites
<1> HIDE DEF writes
<1>4. QueueEndsInDefaults'
  BY <1>1, <1>3, PersistEnds DEF Inv, RecordInv
<1>5. ASSUME ~tainted PROVE RecordsAgree' /\ ChoicesAreOwn'
  <2>1. Calm /\ RecordsAgree /\ ChoicesAreOwn
    BY <1>1, <1>5 DEF RecordInv, Calm
  <2>2. UserIsSignedIn(defaults)
    BY <1>1, <2>1 DEF NavInv, ScreensFollowStore, OnTop, Pickers
  <2>3. defaults.userId = fbToken /\ fbToken # Nil
    BY <1>2, <2>1, <2>2 DEF RecordsAgree, NamesItsUser
  <2>4. /\ defaults'.userId = fbToken
        /\ defaults'.userStateDict = [u \in Users |-> IF u = fbToken THEN s ELSE Nil]
    BY <1>1, <1>2, <2>3, AfterSetStoredState DEF writes
  <2>5. ChoicesAreOwn'
    BY <1>1, <1>2, <2>3, <2>4 DEF ChoicesAreOwn
  <2>6. RecordsAgree'
    BY <1>1, <2>1, <2>2, <2>3, <2>4 DEF RecordsAgree
  <2> QED
    BY <2>5, <2>6
<1> QED
  BY <1>1, <1>4, <1>5 DEF RecordInv

\* All steps of the app together.
LEMMA NextRecord == Inv /\ NavInv /\ RecordInv /\ [Next]_vars => RecordInv'
<1> SUFFICES ASSUME Inv, NavInv, RecordInv, [Next]_vars PROVE RecordInv'
  OBVIOUS
<1>1. CASE \/ LaunchHome \/ LaunchLogin \/ TapLogIn \/ LoginCancelled \/ TapLogOut
           \/ CancelLogOut \/ OpenSenator \/ OpenSettings \/ Back \/ ChangeState
           \/ UNCHANGED vars
  <2>1. UNCHANGED <<store, keychain, pending, history>>
    BY <1>1 DEF LaunchHome, LaunchLogin, TapLogIn, LoginCancelled, TapLogOut,
                CancelLogOut, OpenSenator, OpenSettings, Back, ChangeState, vars,
                store, keychain, pending, history
  <2>2. QueueEndsInDefaults'
    BY <2>1 DEF RecordInv, QueueEndsInDefaults, After, store
  <2> QED
    BY <2>1, <2>2, UnchangedRecord DEF store, keychain, pending, history
<1>2. CASE Flush
  <2>1. QueueEndsInDefaults'
    BY <1>2, FlushEnds DEF Flush, Inv, RecordInv
  <2> QED
    BY <1>2, <2>1, UnchangedRecord DEF Flush, FlushStore, keychain, pending, history
<1>3. CASE \/ LaunchHomeTraps \/ LoginFails \/ SegueGoHomeTraps \/ SelectStateTraps
           \/ OpenSettingsTraps \/ Kill
  <2>1. PICK reason : Die(reason)
    BY <1>3 DEF LaunchHomeTraps, LoginFails, SegueGoHomeTraps, SelectStateTraps,
                OpenSettingsTraps, Kill
  <2> QED
    BY <2>1, DieRecord
<1>4. CASE \E u \in Users : LoginCompletes(u)
  BY <1>4, LoginCompletesRecord
<1>5. CASE \E signedOut \in BOOLEAN : ConfirmLogOut(signedOut) \/ LogOutUser(signedOut)
  BY <1>5, LogOutRecord
<1>6. CASE \E r \in Requests : SignsIn(r) \/ Rejects(r)
  BY <1>6, AnswerRecord
<1>7. CASE SignInCallback
  BY <1>7, SignInCallbackRecord
<1>8. CASE SignInFailedCallback \/ SegueGoHome \/ SegueChooseState \/ SegueIgnored
  BY <1>8, MainQueueRecord
<1>9. CASE \E s \in States : SelectState(s)
  BY <1>9, SelectStateRecord
<1> QED
  BY <1>1, <1>2, <1>3, <1>4, <1>5, <1>6, <1>7, <1>8, <1>9 DEF Next, MainQueueStep

-----------------------------------------------------------------------------
(* The theorems *)

\* A device on which the app never ran.
LEMMA InitApp == Init => NavInv /\ RecordInv
<1> SUFFICES ASSUME Init PROVE NavInv /\ RecordInv
  OBVIOUS
<1>1. /\ ~Running /\ ~overlapped /\ mainQueue = <<>> /\ \A r \in Requests : inFlight[r] = Nil
      /\ ~UserIsSignedIn(defaults) /\ queued = <<>> /\ defaults = disk
      /\ \A u \in Users : defaults.userStateDict[u] = Nil
  BY DEF Init, StoreInit, AuthInit, FreshDefaults, Running, UserIsSignedIn
<1>2. NavInv
  BY <1>1 DEF NavInv, Calm, SignInOutstanding
<1>3. RecordInv
  BY <1>1 DEF RecordInv, QueueEndsInDefaults, After, RecordsAgree, ChoicesAreOwn
<1> QED
  BY <1>2, <1>3

\* The three invariants hold together, each step needing all of them.
LEMMA AppInvHolds == Spec => []AppInv
<1>1. Init => AppInv
  BY InitInv, InitApp DEF AppInv
<1>2. AppInv /\ [Next]_vars => AppInv'
  BY NextInv, NextNav, NextRecord DEF AppInv
<1> QED
  BY <1>1, <1>2, PTL DEF Spec

\* The copy of the stored state that the user looks at -- on Home, in Settings or on
\* a senator's page -- agrees with the store, for any number of users, states and
\* screens, as long as no log-out overtook a sign-in.
THEOREM VisibleStateStaysStored == Spec => []VisibleStateIsStored
<1>1. AppInv => VisibleStateIsStored
  BY DEF AppInv, NavInv, Calm, ScreensFollowStore, VisibleStateIsStored, OnTop, Viewing
<1> QED
  BY <1>1, AppInvHolds, PTL

\* UserDefaults, the Facebook SDK and Firebase name the same user whenever the app
\* is signed in, unless a log-out overtook a sign-in or a dying process lost writes.
THEOREM RecordsOfSessionAgree == Spec => []SessionMatchesProviders
<1>1. AppInv => SessionMatchesProviders
  BY DEF AppInv, RecordInv, RecordsAgree, SessionMatchesProviders
<1> QED
  BY <1>1, AppInvHolds, PTL

\* Home shows the last choice of the user who is signed in with Facebook, whoever
\* else used the device in between.
THEOREM HomeAlwaysShowsOwnChoice == Spec => []HomeShowsOwnChoice
<1>1. ASSUME AppInv, OnTop({"Home"}), ~tainted
      PROVE  Top.state = chosen[fbToken]
  <2>1. Calm /\ RecordsAgree /\ ChoicesAreOwn /\ defaults \in Defaults /\ NamesItsUser(defaults)
    BY <1>1 DEF AppInv, RecordInv, Calm, OnTop, Inv, StoreInv, StoreTypeOK, LoggedInHasUser
  <2>2. /\ UserIsSignedIn(defaults) /\ StoredState(defaults) # Nil
        /\ Top.state = StoredState(defaults)
    BY <1>1, <2>1 DEF AppInv, NavInv, ScreensFollowStore, OnTop, Viewing
  <2>3. defaults.userId = fbToken /\ fbToken \in Users
    BY <2>1, <2>2 DEF RecordsAgree, NamesItsUser, Defaults, Maybe
  <2>4. StoredState(defaults) = defaults.userStateDict[fbToken]
    BY <2>2, <2>3 DEF StoredState
  <2> QED
    BY <2>1, <2>2, <2>3, <2>4 DEF ChoicesAreOwn
<1>2. AppInv => HomeShowsOwnChoice
  BY <1>1 DEF HomeShowsOwnChoice
<1> QED
  BY <1>2, AppInvHolds, PTL

\* As long as no log-out overtook a sign-in, no tap and no dispatched segue opens a
\* screen that unwraps nil or indexes past the senators.
THEOREM NavigationCannotTrap == Spec => NavigationNeverTraps
<1> DEFINE Survives == Running /\ ~overlapped => proc' \in {"running", "killed", "loginResult"}
<1>1. ASSUME AppInv, [Next]_vars, Calm
      PROVE  proc' \in {"running", "killed", "loginResult"}
  <2>1. /\ ScreensFollowStore /\ SegueIsDue
        /\ defaults \in Defaults /\ NamesItsUser(defaults)
    BY <1>1 DEF AppInv, NavInv, Inv, StoreInv, StoreTypeOK, LoggedInHasUser
  <2>2. ~OpenSettingsTraps
    BY <2>1 DEF OpenSettingsTraps, ScreensFollowStore, OnTop, Viewing
  <2>3. ~SelectStateTraps
    BY <2>1 DEF SelectStateTraps, ScreensFollowStore, OnTop, Pickers, NamesItsUser
  <2>4. ~SegueGoHomeTraps
    BY <2>1, StateHomeLoads DEF SegueGoHomeTraps, SegueIs, SegueIsDue
  <2>5. ~LaunchHomeTraps /\ ~LaunchHome /\ ~LaunchLogin
    BY <1>1 DEF LaunchHomeTraps, LaunchHome, LaunchLogin, Calm
  <2>6. CASE Kill \/ LoginFails
    BY <2>6 DEF Kill, LoginFails, Die
  <2>7. CASE proc' = proc
    BY <1>1, <2>7 DEF Calm, Running
  <2> QED
    BY <1>1, <2>2, <2>3, <2>4, <2>5, <2>6, <2>7
    DEF Next, vars, TapLogIn, LoginCancelled, TapLogOut, CancelLogOut, LoginCompletes,
        ConfirmLogOut, LogOutUser, SignsIn, Rejects, MainQueueStep, SignInCallback,
        SignInFailedCallback, SegueGoHome, SegueChooseState, SegueIgnored, SelectState,
        OpenSenator, OpenSettings, Back, ChangeState, Flush
<1>2. AppInv /\ [Next]_vars => [Survives]_vars
  BY <1>1 DEF Calm
<1> QED
  BY <1>2, AppInvHolds, PTL DEF Spec, NavigationNeverTraps
=============================================================================
