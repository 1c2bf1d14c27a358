------------------------------- MODULE PWRApp --------------------------------
(***************************************************************************)
(* The app: AppDelegate, and the view controllers that share the session   *)
(* and the stored state -- Login, StateCollection (the state picker), Home *)
(* and Settings -- over AuthSession and UserDefaultsManager.               *)
(*                                                                         *)
(* screens is what is presented, bottom to top.  Segues between storyboard *)
(* scenes present modally and nothing unwinds them, so apart from leaving  *)
(* Settings by the back button the stack only grows while the process      *)
(* lives.  UIKit ignores a segue performed by a controller that is not on  *)
(* top.  A Swift trap (nil unwrapped, index out of range) ends the process *)
(* with the reason in proc.                                                *)
(***************************************************************************)
EXTENDS AuthSession

CONSTANTS
    SenatorCount,   \* how many senators senators.xml lists for each state
    MaxDepth        \* bound: presented screens from which a tap may open another

ASSUME SenatorCountAssumption ==
    /\ SenatorCount \in [States -> Nat]
    /\ \A s \in States : SenatorCount[s] >= 2
ASSUME MaxDepthAssumption == MaxDepth \in Nat

VARIABLES
    proc,           \* "running", or why the last process ended
    screens,        \* the presented screens, with the state each one holds
    \* History, read by the properties only:
    overlapped,     \* in this process, a log-out met an outstanding sign-in
    tainted,        \* ever overlapped, or a dead process lost queued writes
    chosen          \* what each Facebook user last tapped in the picker

vars == <<defaults, queued, disk, fbToken, firebaseUser, inFlight, mainQueue,
          proc, screens, overlapped, tainted, chosen>>

Traps == {"homeRows",       \* senators[indexPath.row] past the end, in Home
          "settingsTitle",  \* usersState.title of nil, in Settings
          "pickerBanner",   \* stateBannerView of a HomeViewController() never loaded
          "loginResult"}    \* result.isCancelled of nil, in the button's delegate

\* FBLogin and FBLogOut are the Facebook SDK's web dialog and action sheet.
ScreenKinds == {"Login", "FBLogin", "FBLogOut",
                "LoginPicker", "SettingsPicker", "Home", "Settings", "Senator"}
Screen == [kind : ScreenKinds, state : Maybe(States)]

NewScreen(kind, state) == [kind |-> kind, state |-> state]

Running == proc = "running"
OnTop(kinds) == Running /\ screens # <<>> /\ screens[Len(screens)].kind \in kinds
Top == screens[Len(screens)]
Push(screen) == screens' = Append(screens, screen)
Pop == screens' = SubSeq(screens, 1, Len(screens) - 1)
CanOpen == Len(screens) < MaxDepth

TypeOK ==
    /\ StoreTypeOK
    /\ AuthTypeOK
    /\ proc \in {"running", "killed"} \cup Traps
    /\ screens \in Seq(Screen)
    /\ overlapped \in BOOLEAN
    /\ tainted \in BOOLEAN
    /\ chosen \in [Users -> Maybe(States)]

\* A fresh installation that has not been launched yet.
Init ==
    /\ StoreInit
    /\ AuthInit
    /\ proc = "killed"
    /\ screens = <<>>
    /\ overlapped = FALSE
    /\ tainted = FALSE
    /\ chosen = [u \in Users |-> Nil]

history == <<overlapped, tainted, chosen>>
keychain == <<fbToken, firebaseUser>>
pending == <<inFlight, mainQueue>>
store == <<defaults, queued, disk>>

-----------------------------------------------------------------------------
(* The end of a process *)

Die(reason) ==
    /\ proc' = reason
    /\ screens' = <<>>
    /\ inFlight' = [r \in Requests |-> Nil]
    /\ mainQueue' = <<>>
    /\ DropStore
    /\ overlapped' = FALSE
    /\ tainted' = (tainted \/ queued # <<>>)
    /\ UNCHANGED <<fbToken, firebaseUser, chosen>>

\* The user swipes the app away, or the system ends it.
Kill == Running /\ Die("killed")

-----------------------------------------------------------------------------
(* Loading the screens that read the stored state *)

SenatorsOf(state) == IF state = Nil THEN 0 ELSE SenatorCount[state]

\* numberOfRowsInSection of the senator table
HomeRows == 2

ShowHome_Unwinds(below, d) ==
    LET homes == {i \in DOMAIN below : below[i].kind = "Home"}
        last  == CHOOSE i \in homes : \A j \in homes : j <= i
    IN  screens' = IF homes = {} THEN Append(below, NewScreen("Home", StoredState(d)))
                   ELSE SubSeq(below, 1, last)

\* Home presented over "below" with the store content d: viewDidLoad takes the
\* stored state's senators, or none, and the table then asks for every row.
HomeLoads(d) == SenatorsOf(StoredState(d)) >= HomeRows
ShowHome(below, d) == screens' = Append(below, NewScreen("Home", StoredState(d)))

-----------------------------------------------------------------------------
(* AppDelegate *)

LaunchHome ==
    /\ ~Running
    /\ UserIsSignedIn(defaults)
    /\ HomeLoads(defaults)
    /\ ShowHome(<<>>, defaults)
    /\ proc' = "running"
    /\ UNCHANGED <<store, keychain, pending, history>>

LaunchHomeTraps ==
    /\ ~Running
    /\ UserIsSignedIn(defaults)
    /\ ~HomeLoads(defaults)
    /\ Die("homeRows")

LaunchLogin ==
    /\ ~Running
    /\ ~UserIsSignedIn(defaults)
    /\ screens' = <<NewScreen("Login", Nil)>>
    /\ proc' = "running"
    /\ UNCHANGED <<store, keychain, pending, history>>

-----------------------------------------------------------------------------
(* The Facebook button on the Login screen *)

\* The web dialog takes many turns of the run loop, and each one empties the
\* main queue: no block still waits when the dialog calls its delegate.
DialogEnds ==
    /\ OnTop({"FBLogin"})
    /\ mainQueue = <<>>

TapLogIn ==
    /\ OnTop({"Login"})
    /\ fbToken = Nil
    /\ CanOpen
    /\ Push(NewScreen("FBLogin", Nil))
    /\ UNCHANGED <<store, keychain, pending, history, proc>>

\* didCompleteWith a result that carries a token
LoginCompletes(u) ==
    /\ DialogEnds
    /\ fbToken' = u
    /\ Pop
    /\ LoginFirebaseWith(u, Len(screens) - 1)
    /\ UNCHANGED <<store, firebaseUser, mainQueue, history, proc>>

\* didCompleteWith a cancelled result, or one without a token
LoginCancelled ==
    /\ DialogEnds
    /\ Pop
    /\ UNCHANGED <<store, keychain, pending, history, proc>>

\* didCompleteWith an error: the SDK passes no result
LoginFails ==
    /\ DialogEnds
    /\ Die("loginResult")

\* Log-outs are where an outstanding sign-in is overtaken.
NoteLogOut ==
    /\ overlapped' = (overlapped \/ SignInOutstanding)
    /\ tainted' = (tainted \/ SignInOutstanding)
    /\ UNCHANGED chosen

\* With a token the button logs out, after asking on an action sheet.
TapLogOut ==
    /\ OnTop({"Login"})
    /\ fbToken # Nil
    /\ CanOpen
    /\ Push(NewScreen("FBLogOut", Nil))
    /\ UNCHANGED <<store, keychain, pending, history, proc>>

CancelLogOut ==
    /\ OnTop({"FBLogOut"})
    /\ Pop
    /\ UNCHANGED <<store, keychain, pending, history, proc>>

ConfirmLogOut(signedOut) ==
    /\ OnTop({"FBLogOut"})
    /\ Pop
    /\ fbToken' = Nil
    /\ FirebaseSignOut(signedOut)
    /\ Persist(LoginButtonDidLogOut(defaults, signedOut))
    /\ NoteLogOut
    /\ UNCHANGED <<pending, proc>>

-----------------------------------------------------------------------------
(* The main thread's queue *)

SegueAfterLogin_AlwaysHome(d) == "goHome"

\* LoginViewController.userLoggedIn
SegueAfterLogin(d) == IF StoredState(d) # Nil THEN "goHome" ELSE "chooseState"

Dispatch_Dropped(queue, block) == queue

\* DispatchQueue.main.async
Dispatch(queue, block) == Append(queue, block)

\* Completion block with a user: store the session, then tell the
\* LoginViewController, which dispatches a segue.  FIRAuth.h has the error nil
\* when there is a user, so that the closure finds none.
SignInCallback ==
    LET task == Head(mainQueue)
        writes == SignInWrites(defaults, task.user)
    IN  /\ Running
        /\ mainQueue # <<>>
        /\ task.kind = "signedIn"
        /\ Persist(writes)
        /\ mainQueue' = Dispatch(Tail(mainQueue),
                                 [kind |-> SegueAfterLogin(After(defaults, writes)),
                                  user |-> Nil,
                                  vc   |-> task.vc])
        /\ UNCHANGED <<keychain, inFlight, screens, history, proc>>

\* Completion block without a user: it returns before the closure is called.
SignInFailedCallback ==
    /\ Running
    /\ mainQueue # <<>>
    /\ Head(mainQueue).kind = "signInFailed"
    /\ mainQueue' = Tail(mainQueue)
    /\ UNCHANGED <<store, keychain, inFlight, screens, history, proc>>

\* The dispatched segue runs, and its LoginViewController is on top.
SegueIs(kind) ==
    /\ Running
    /\ mainQueue # <<>>
    /\ Head(mainQueue).kind = kind
    /\ Head(mainQueue).vc = Len(screens)

SegueGoHome ==
    /\ SegueIs("goHome")
    /\ HomeLoads(defaults)
    /\ ShowHome(screens, defaults)
    /\ mainQueue' = Tail(mainQueue)
    /\ UNCHANGED <<store, keychain, inFlight, history, proc>>

SegueGoHomeTraps ==
    /\ SegueIs("goHome")
    /\ ~HomeLoads(defaults)
    /\ Die("homeRows")

SegueChooseState ==
    /\ SegueIs("chooseState")
    /\ Push(NewScreen("LoginPicker", Nil))
    /\ mainQueue' = Tail(mainQueue)
    /\ UNCHANGED <<store, keychain, inFlight, history, proc>>

\* The segue's LoginViewController is covered: UIKit refuses to present.
SegueIgnored ==
    /\ Running
    /\ mainQueue # <<>>
    /\ Head(mainQueue).kind \in {"goHome", "chooseState"}
    /\ Head(mainQueue).vc # Len(screens)
    /\ mainQueue' = Tail(mainQueue)
    /\ UNCHANGED <<store, keychain, inFlight, screens, history, proc>>

MainQueueStep ==
    \/ SignInCallback
    \/ SignInFailedCallback
    \/ SegueGoHome
    \/ SegueGoHomeTraps
    \/ SegueChooseState
    \/ SegueIgnored

-----------------------------------------------------------------------------
(* The state picker *)

Pickers == {"LoginPicker", "SettingsPicker"}

\* A cell is tapped: store the choice, tell the delegate, and only then show Home,
\* which loads with what was stored.
SelectState(s) ==
    LET writes == SetStoredState(defaults, s)
        d      == After(defaults, writes)
    IN  /\ OnTop(Pickers)
        /\ CanOpen
        /\ HomeLoads(d)
        /\ Persist(writes)
        /\ ShowHome(screens, d)
        /\ chosen' = IF fbToken = Nil THEN chosen ELSE [chosen EXCEPT ![fbToken] = s]
        /\ UNCHANGED <<keychain, pending, overlapped, tainted, proc>>

\* Nothing was stored, for want of a uid.  The delegate that Login sets is a
\* HomeViewController() without a view, and its banner is nil; Settings sets no
\* delegate, and the Home that follows has no rows to show.
SelectStateTraps ==
    /\ OnTop(Pickers)
    /\ CanOpen
    /\ StoredState(defaults) = Nil
    /\ defaults.userId = Nil
    /\ Die(IF Top.kind = "LoginPicker" THEN "pickerBanner" ELSE "homeRows")

-----------------------------------------------------------------------------
(* What Home pushes on its navigation stack: a senator's page, and Settings *)

\* A senator's page takes Home's own state along.  (The other two buttons of a
\* senator's row only print.)
OpenSenator ==
    /\ OnTop({"Home"})
    /\ CanOpen
    /\ Push(NewScreen("Senator", Top.state))
    /\ UNCHANGED <<store, keychain, pending, history, proc>>

OpenSettings ==
    /\ OnTop({"Home"})
    /\ CanOpen
    /\ StoredState(defaults) # Nil
    /\ Push(NewScreen("Settings", StoredState(defaults)))
    /\ UNCHANGED <<store, keychain, pending, history, proc>>

OpenSettingsTraps ==
    /\ OnTop({"Home"})
    /\ CanOpen
    /\ StoredState(defaults) = Nil
    /\ Die("settingsTitle")

Back ==
    /\ OnTop({"Settings", "Senator"})
    /\ Pop
    /\ UNCHANGED <<store, keychain, pending, history, proc>>

ChangeState ==
    /\ OnTop({"Settings"})
    /\ CanOpen
    /\ Push(NewScreen("SettingsPicker", Nil))
    /\ UNCHANGED <<store, keychain, pending, history, proc>>

LogOutUser(signedOut) ==
    /\ OnTop({"Settings"})
    /\ CanOpen
    /\ fbToken' = Nil
    /\ FirebaseSignOut(signedOut)
    /\ Persist(SettingsLogOut(defaults, signedOut))
    /\ Push(NewScreen("Login", Nil))
    /\ NoteLogOut
    /\ UNCHANGED <<pending, proc>>

-----------------------------------------------------------------------------

Flush ==
    /\ Running
    /\ FlushStore
    /\ UNCHANGED <<keychain, pending, history, proc, screens>>

SignsIn(r) ==
    /\ Running
    /\ FirebaseSignsIn(r)
    /\ UNCHANGED <<store, fbToken, history, proc, screens>>

Rejects(r) ==
    /\ Running
    /\ FirebaseRejects(r)
    /\ UNCHANGED <<store, fbToken, history, proc, screens>>

Next ==
    \/ LaunchHome \/ LaunchHomeTraps \/ LaunchLogin
    \/ TapLogIn \/ LoginCancelled \/ LoginFails \/ TapLogOut \/ CancelLogOut
    \/ \E u \in Users : LoginCompletes(u)
    \/ \E signedOut \in BOOLEAN : ConfirmLogOut(signedOut) \/ LogOutUser(signedOut)
    \/ \E r \in Requests : SignsIn(r) \/ Rejects(r)
    \/ MainQueueStep
    \/ \E s \in States : SelectState(s)
    \/ SelectStateTraps
    \/ OpenSenator \/ OpenSettings \/ OpenSettingsTraps \/ Back \/ ChangeState
    \/ Flush
    \/ Kill

Spec == Init /\ [][Next]_vars

\* The main thread works through its queue, the Firebase SDK completes each
\* request it accepted (with an error when the network does not answer), and
\* the preferences daemon writes back.  Nothing is assumed of the user, nor of
\* when the system ends the process.
Fairness ==
    /\ WF_vars(MainQueueStep)
    /\ \A r \in Requests : WF_vars(SignsIn(r) \/ Rejects(r))
    /\ WF_vars(Flush)

FairSpec == Spec /\ Fairness

-----------------------------------------------------------------------------
(* Safety *)

\* Whatever prefix of its writes a handler gets to disk before the process dies,
\* the store never says that somebody is signed in without saying who: sign-in
\* writes the uid before the flag (loginFirebaseWith), log-out lowers the flag
\* before it removes the uid (clearUserDefaults).
LoggedInHasUser ==
    /\ NamesItsUser(defaults)
    /\ NamesItsUser(disk)
    /\ \A i \in 1 .. Len(queued) : NamesItsUser(queued[i])

\* Whoever loses the Facebook token is signed out of the app in the same step,
\* from the Login screen's button (loginButtonDidLogOut) as from Settings
\* (prepare(for:)), and even when Firebase's signOut throws.
LogOutEndsSession ==
    [][(fbToken # Nil /\ fbToken' = Nil)
           => /\ ~UserIsSignedIn(defaults')
              /\ defaults'.userId = Nil]_vars

\* While no log-out has overtaken a sign-in of the same process, no screen the
\* user or a dispatched segue opens runs into nil or past the senators: only a
\* failing Facebook dialog ends the process from within.
NavigationNeverTraps ==
    [][Running /\ ~overlapped => proc' \in {"running", "killed", "loginResult"}]_vars

\* Home and Settings copy the stored state when they load, a senator's page copies
\* Home's, and none refreshes it.  The copy the user looks at still agrees with
\* the store, whatever was picked, left by the back button or signed in meanwhile.
VisibleStateIsStored ==
    OnTop({"Home", "Settings", "Senator"}) /\ ~overlapped
        => Top.state = StoredState(defaults)

\* Home shows the state that the user who is signed in with Facebook picked
\* last, also when another user of the device picked in between: a choice is
\* either that user's own or has to be made again.
HomeShowsOwnChoice ==
    OnTop({"Home"}) /\ ~tainted => Top.state = chosen[fbToken]

\* The three records of who is signed in -- UserDefaults, the Facebook token,
\* Firebase's current user -- agree whenever the app thinks somebody is.
SessionMatchesProviders ==
    Running /\ ~tainted /\ UserIsSignedIn(defaults)
        => defaults.userId = fbToken /\ defaults.userId = firebaseUser

\* The session a content of the store stands for.
SessionOf(d) == IF UserIsSignedIn(d) THEN <<d.userId>> ELSE <<>>

Abstract == INSTANCE DurableSession
    WITH SessionUsers <- Users,
         MaxWrites    <- 4,
         current      <- SessionOf(defaults),
         unsaved      <- [i \in 1 .. Len(queued) |-> SessionOf(queued[i])],
         saved        <- SessionOf(disk)

\* The app implements DurableSession: though each handler writes two keys, one
\* after the other and some twice, no relaunch finds a session that is neither
\* the one before nor the one after the handler.
SessionIsAtomic == Abstract!SessionSpec

-----------------------------------------------------------------------------
(* Liveness *)

\* A sign-in that Firebase accepted takes its user on from the Login screen, to
\* Home or to the picker, unless the process ends or the user turns to the
\* log-out button first.
SignInReachesApp ==
    (OnTop({"Login"}) /\ mainQueue # <<>> /\ Head(mainQueue).kind = "signedIn")
        ~> (~Running \/ overlapped \/ OnTop({"Home", "LoginPicker", "FBLogOut"}))

-----------------------------------------------------------------------------
(* What the code's own words say, and the code does not do *)

\* HomeViewController has a text for a user without a state ("You have not
\* chosen a state"); such a user is to see it, and not an index past the end of
\* the senators.
HomeCopesWithoutState == proc # "homeRows"

\* SettingsViewController declares usersState implicitly unwrapped: it asserts
\* that a state is stored whenever Settings opens.
SettingsHasState == proc # "settingsTitle"

\* The Facebook SDK calls didCompleteWith with an error when the dialog fails;
\* the delegate is to survive it.
FailedLoginIsHandled == proc # "loginResult"

\* The picker's delegate protocol exists to pass the selected state on to the
\* objects that conform to it, HomeViewController among them: after a choice, no
\* Home is to be left with another state.
PickerTellsHomes ==
    OnTop({"Home"}) /\ Len(screens) > 1 /\ screens[Len(screens) - 1].kind \in Pickers
        => \A i \in DOMAIN screens : screens[i].kind = "Home" => screens[i].state = Top.state
=============================================================================
