----------------------------- MODULE AuthSession -----------------------------
(***************************************************************************)
(* Signing in and out: the Facebook button's delegate                      *)
(* (FBLoginButtonDelegate), FirebaseAuthManager, and the two services they *)
(* drive.  The Facebook SDK and Firebase keep their own copy of who is     *)
(* signed in, in the keychain, beside the one in UserDefaults.             *)
(*                                                                         *)
(* A sign-in is asynchronous.  It runs on the network (inFlight) and its   *)
(* completion block is queued on the main thread (mainQueue), behind       *)
(* whatever is queued there already, and ahead of the segues that the app  *)
(* dispatches itself.  Taps are handled between any two queued blocks.     *)
(***************************************************************************)
EXTENDS UserDefaultsManager

CONSTANTS
    Requests,   \* bound: sign-ins that may be on the network at one time
    MaxTasks    \* bound: completion blocks that join no longer main queue

ASSUME MaxTasksAssumption == MaxTasks \in Nat

VARIABLES
    fbToken,          \* user of FBSDKAccessToken.current, Nil when there is none
    firebaseUser,     \* Auth.auth().currentUser
    inFlight,         \* the sign-in each request carries, Nil when unused
    mainQueue         \* blocks waiting for the main thread

\* A sign-in belongs to the LoginViewController that started it, which is
\* identified by its position among the presented screens.
SignIn == [user : Users, vc : Nat]

\* Completion blocks of signIn(with:), and the segues LoginViewController
\* dispatches with DispatchQueue.main.async.
Completion == [kind : {"signedIn", "signInFailed"}, user : Users, vc : Nat]
Segue == [kind : {"goHome", "chooseState"}, user : {Nil}, vc : Nat]
Task == Completion \cup Segue

AuthInit ==
    /\ fbToken = Nil
    /\ firebaseUser = Nil
    /\ inFlight = [r \in Requests |-> Nil]
    /\ mainQueue = <<>>

AuthTypeOK ==
    /\ fbToken \in Maybe(Users)
    /\ firebaseUser \in Maybe(Users)
    /\ inFlight \in [Requests -> Maybe(SignIn)]
    /\ mainQueue \in Seq(Task)

\* A sign-in has begun and its outcome has not been acted upon.
SignInOutstanding ==
    \/ \E r \in Requests : inFlight[r] # Nil
    \/ mainQueue # <<>>

-----------------------------------------------------------------------------
(* FirebaseAuthManager *)

\* loginFirebaseWith: the credential goes out on an unused request.
LoginFirebaseWith(u, vc) ==
    \E r \in Requests :
        /\ inFlight[r] = Nil
        /\ inFlight' = [inFlight EXCEPT ![r] = [user |-> u, vc |-> vc]]

SignInWrites_FlagFirst(d, uid) ==
    SetisLoggedInTo(d, TRUE) \o SetUserId([d EXCEPT !.isLoggedIn = TRUE], uid)

SignInWrites_ClearsFirst(d, uid) ==
    SetisLoggedInTo(d, FALSE) \o SetUserId([d EXCEPT !.isLoggedIn = FALSE], uid)
        \o SetisLoggedInTo([d EXCEPT !.userId = uid], TRUE)

\* What the completion block of a successful sign-in stores.
SignInWrites(d, uid) ==
    SetUserId(d, uid) \o SetisLoggedInTo([d EXCEPT !.userId = uid], TRUE)

\* logoutOfFireBase: the store is cleared only when signOut does not throw.
LogoutOfFireBase(d, signedOut) ==
    IF signedOut THEN ClearUserDefaults(d) ELSE <<>>

\* Firebase's side of signOut.  It fails on a keychain error, which it can meet
\* only when there is a user to remove.
FirebaseSignOut(signedOut) ==
    /\ ~signedOut => firebaseUser # Nil
    /\ firebaseUser' = IF signedOut THEN Nil ELSE firebaseUser

\* Firebase accepts the credential: the user is in the keychain before the
\* completion block runs.
FirebaseSignsIn(r) ==
    /\ inFlight[r] # Nil
    /\ Len(mainQueue) < MaxTasks
    /\ firebaseUser' = inFlight[r].user
    /\ mainQueue' = Append(mainQueue, [kind |-> "signedIn",
                                       user |-> inFlight[r].user,
                                       vc   |-> inFlight[r].vc])
    /\ inFlight' = [inFlight EXCEPT ![r] = Nil]

\* Firebase or the network refuses: the completion block has no user.
FirebaseRejects(r) ==
    /\ inFlight[r] # Nil
    /\ Len(mainQueue) < MaxTasks
    /\ mainQueue' = Append(mainQueue, [kind |-> "signInFailed",
                                       user |-> inFlight[r].user,
                                       vc   |-> inFlight[r].vc])
    /\ inFlight' = [inFlight EXCEPT ![r] = Nil]
    /\ UNCHANGED firebaseUser

-----------------------------------------------------------------------------
(* The two ways to log out, as the writes they make *)

\* FBLoginButtonDelegate.loginButtonDidLogOut: clear, then Firebase.
LoginButtonDidLogOut(d, signedOut) ==
    LET cleared == ClearUserDefaults(d)
    IN  cleared \o LogoutOfFireBase(After(d, cleared), signedOut)

SettingsLogOut_FirebaseOnly(d, signedOut) == LogoutOfFireBase(d, signedOut)

\* SettingsViewController.prepare(for:): Firebase, then clear.
SettingsLogOut(d, signedOut) ==
    LET left == LogoutOfFireBase(d, signedOut)
    IN  left \o ClearUserDefaults(After(d, left))
=============================================================================
