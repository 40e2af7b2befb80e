------------------------------ MODULE Session ------------------------------
(***************************************************************************)
(* Who is signed in, which screen is shown, and which accounts have a      *)
(* record under /users: AuthService, LoginVC, LoginEmailVC, the launch     *)
(* code of AppDelegate, and ProfileVC's logout, on several devices that    *)
(* share one Firebase project.                                             *)
(*                                                                         *)
(* A uid and an email stand for each other (Firebase Auth keeps one        *)
(* account per email).  Every Auth request is answered asynchronously: the *)
(* answer first sets Auth.auth().currentUser, and the app's closure runs   *)
(* later on the main queue, so the user can act in between.                *)
(***************************************************************************)
EXTENDS Naturals

CONSTANTS Devices,     \* phones running the app
          Emails,      \* what identifies an account
          Passwords,   \* passwords a user may type
          Slots,       \* bound: Auth calls one device has under way
          NoUser,      \* Auth.auth().currentUser is nil
          NoAccount,   \* no account for this email
          NoPassword   \* an account made through Google, or a text field without a password

ASSUME SentinelAssumption ==
    /\ NoUser \notin Emails
    /\ NoAccount \notin Passwords
    /\ NoPassword \notin Passwords
    /\ NoAccount # NoPassword

VARIABLES
    accounts,     \* server: email -> password, NoPassword or NoAccount
    records,      \* server: emails that have a node under /users
    screen,       \* device -> the topmost view controller, "off" when not running
    currentUser,  \* device -> Auth.auth().currentUser, kept in the keychain
    fields,       \* device -> the text fields of the LoginEmailVC on screen
    calls,        \* device -> slot -> an Auth call and the closure waiting for it
    puts,         \* device -> /users writes not yet taken by the server
    appearing,    \* device -> LoginVC.viewDidAppear is still to run
    cut,          \* history: emails whose registration was cut short
    late          \* history: device -> the session was opened by a call whose screen had gone

vars == <<accounts, records, screen, currentUser, fields, calls, puts,
          appearing, cut, late>>

Creds   == [email : Emails, password : Passwords]
Unfilled == [email |-> NoUser, password |-> NoPassword]  \* some text field is empty
Google(e) == [email |-> e, password |-> NoPassword]

Screens == {"off", "tabs", "sheet", "login", "email"}

EmailStages  == {"login", "loginOk", "loginErr", "register", "registerOk", "relogin"}
GoogleStages == {"google", "googleOk", "dismiss"}
Waiting      == {"login", "register", "relogin", "google"}

\* `here`: the view controller that made the call is still on screen.  Once it
\* has gone its text fields keep the contents they had, `typed`.
Call == [stage : EmailStages \union GoogleStages \union {"idle"},
         cred  : Creds \union {Unfilled} \union {Google(e) : e \in Emails},
         here  : BOOLEAN,
         typed : Creds \union {Unfilled}]

\* The call moves on to `stage`, asking the server for `cred`.
Ask(call, stage, cred) == [stage |-> stage, cred |-> cred,
                           here |-> call.here, typed |-> call.typed]
Move(call, stage) == Ask(call, stage, call.cred)

\* The call loses its view controller, whose fields held `cred`.
Orphaned(call, cred) == [stage |-> call.stage, cred |-> call.cred,
                         here |-> FALSE, typed |-> cred]

Idle == [stage |-> "idle", cred |-> Unfilled, here |-> FALSE, typed |-> Unfilled]

TypeOK ==
    /\ accounts \in [Emails -> Passwords \union {NoPassword, NoAccount}]
    /\ records \subseteq Emails
    /\ screen \in [Devices -> Screens]
    /\ currentUser \in [Devices -> Emails \union {NoUser}]
    /\ fields \in [Devices -> Creds \union {Unfilled}]
    /\ calls \in [Devices -> [Slots -> Call]]
    /\ puts \in [Devices -> SUBSET Emails]
    /\ appearing \in [Devices -> BOOLEAN]
    /\ cut \subseteq Emails
    /\ late \in [Devices -> BOOLEAN]

Init ==
    /\ accounts = [e \in Emails |-> NoAccount]
    /\ records = {}
    /\ screen = [d \in Devices |-> "off"]
    /\ currentUser = [d \in Devices |-> NoUser]
    /\ fields = [d \in Devices |-> Unfilled]
    /\ calls = [d \in Devices |-> [c \in Slots |-> Idle]]
    /\ puts = [d \in Devices |-> {}]
    /\ appearing = [d \in Devices |-> FALSE]
    /\ cut = {}
    /\ late = [d \in Devices |-> FALSE]

-----------------------------------------------------------------------------
(* Screens.  dismiss() on a view controller that is not presented any more *)
(* does nothing; on one that presents another it dismisses that other one. *)

\* The calls of d once the view controllers that made those at `stages` are gone.
Leave(cs, d, stages) ==
    [c \in Slots |->
        IF cs[c].stage \in stages /\ cs[c].here
        THEN Orphaned(cs[c], fields[d])
        ELSE cs[c]]

\* LoginEmailVC goes away with its text fields; the LoginVC under it is about to appear.
DismissEmail(d, cs) ==
    /\ fields' = [fields EXCEPT ![d] = Unfilled]
    /\ screen' = [screen EXCEPT ![d] = "login"]
    /\ appearing' = [appearing EXCEPT ![d] = TRUE]
    /\ calls' = [calls EXCEPT ![d] = Leave(cs, d, EmailStages)]
    /\ UNCHANGED late

\* LoginVC goes away and the tab bar under it is left.
DismissLogin(d, cs) ==
    /\ screen' = [screen EXCEPT ![d] = "tabs"]
    /\ appearing' = [appearing EXCEPT ![d] = FALSE]
    /\ calls' = [calls EXCEPT ![d] = Leave(cs, d, GoogleStages)]
    /\ late' = [late EXCEPT ![d] = FALSE]
    /\ UNCHANGED fields

\* Nothing is dismissed.
Stay(d, cs) ==
    /\ calls' = [calls EXCEPT ![d] = cs]
    /\ UNCHANGED <<screen, fields, appearing, late>>

\* LoginVC is presented: its viewDidAppear is to run.
PresentLogin(d) ==
    /\ screen' = [screen EXCEPT ![d] = "login"]
    /\ appearing' = [appearing EXCEPT ![d] = TRUE]

\* AppDelegate.didFinishLaunching: LoginVC unless the keychain holds a session.
Launch(d) ==
    /\ screen[d] = "off"
    /\ IF currentUser[d] = NoUser
       THEN PresentLogin(d)
       ELSE screen' = [screen EXCEPT ![d] = "tabs"] /\ UNCHANGED appearing
    /\ UNCHANGED <<accounts, records, currentUser, fields, calls, puts, cut, late>>

\* The emails for which a closure or a write of d is the only thing that will make a record.
Owed(d) == puts[d] \union
           {calls[d][c].cred.email : c \in {s \in Slots :
                calls[d][s].stage \in {"registerOk", "googleOk"}}}

\* The process dies: everything but the server and the keychain is lost.
\* Database persistence is never enabled, so writes not yet sent go with it.
Kill(d) ==
    /\ screen[d] # "off"
    /\ screen' = [screen EXCEPT ![d] = "off"]
    /\ appearing' = [appearing EXCEPT ![d] = FALSE]
    /\ fields' = [fields EXCEPT ![d] = Unfilled]
    /\ calls' = [calls EXCEPT ![d] = [c \in Slots |-> Idle]]
    /\ puts' = [puts EXCEPT ![d] = {}]
    /\ cut' = cut \union Owed(d)
    /\ late' = [late EXCEPT ![d] = FALSE]
    /\ UNCHANGED <<accounts, records, currentUser>>

-----------------------------------------------------------------------------
(* What the user does. *)

\* LoginVC.loginWithEmailPressed.  A view takes no touches while it appears.
LoginWithEmailPressed(d) ==
    /\ screen[d] = "login" /\ ~appearing[d]
    /\ screen' = [screen EXCEPT ![d] = "email"]
    /\ UNCHANGED <<accounts, records, currentUser, fields, calls, puts,
                   appearing, cut, late>>

EditFields(d, cred) ==
    /\ screen[d] = "email"
    /\ fields' = [fields EXCEPT ![d] = cred]
    /\ UNCHANGED <<accounts, records, screen, currentUser, calls, puts,
                   appearing, cut, late>>

Start(d, c, stage, cred) ==
    /\ calls[d][c] = Idle
    /\ calls' = [calls EXCEPT ![d][c] =
                   [stage |-> stage, cred |-> cred, here |-> TRUE, typed |-> Unfilled]]

\* LoginEmailVC.loginPressed: the button stays enabled while calls are under way.
LoginPressed(d, c) ==
    /\ screen[d] = "email"
    /\ fields[d] # Unfilled
    /\ Start(d, c, "login", fields[d])
    /\ UNCHANGED <<accounts, records, screen, currentUser, fields, puts,
                   appearing, cut, late>>

\* LoginEmailVC.close, from its dismiss button.
ClosePressed(d) ==
    /\ screen[d] = "email"
    /\ DismissEmail(d, calls[d])
    /\ UNCHANGED <<accounts, records, currentUser, puts, cut>>

\* LoginVC.sign(didSignInFor:): the Google screen returned a credential.
GoogleSignIn(d, c, e) ==
    /\ screen[d] = "login" /\ ~appearing[d]
    /\ Start(d, c, "google", Google(e))
    /\ UNCHANGED <<accounts, records, screen, currentUser, fields, puts,
                   appearing, cut, late>>

\* ProfileVC.logoutPressed puts up the action sheet.
LogoutPressed(d) ==
    /\ screen[d] = "tabs"
    /\ screen' = [screen EXCEPT ![d] = "sheet"]
    /\ UNCHANGED <<accounts, records, currentUser, fields, calls, puts,
                   appearing, cut, late>>

CancelLogout(d) ==
    /\ screen[d] = "sheet"
    /\ screen' = [screen EXCEPT ![d] = "tabs"]
    /\ UNCHANGED <<accounts, records, currentUser, fields, calls, puts,
                   appearing, cut, late>>

\* The sheet's "Get Me Out Of Here": sign out, present a new LoginVC.
ConfirmLogout(d) ==
    /\ screen[d] = "sheet"
    /\ currentUser' = [currentUser EXCEPT ![d] = NoUser]
    /\ PresentLogin(d)
    /\ late' = [late EXCEPT ![d] = FALSE]
    /\ UNCHANGED <<accounts, records, fields, calls, puts, cut>>

-----------------------------------------------------------------------------
(* Firebase Auth answers.  A successful answer sets currentUser before the *)
(* closure of the app is queued.                                           *)

SignedIn(d, c) ==
    /\ currentUser' = [currentUser EXCEPT ![d] = calls[d][c].cred.email]
    /\ late' = [late EXCEPT ![d] = late[d] \/ ~calls[d][c].here]

Knows(cred)       == cred # Unfilled /\ accounts[cred.email] = cred.password
Registrable(cred) == cred # Unfilled /\ accounts[cred.email] = NoAccount

\* signIn(withEmail:password:)
LoginAnswered(d, c) ==
    LET call == calls[d][c] IN
    /\ call.stage \in {"login", "relogin"}
    /\ \/ /\ Knows(call.cred)
          /\ SignedIn(d, c)
          /\ calls' = [calls EXCEPT ![d][c] = Move(@, "loginOk")]
       \/ /\ ~Knows(call.cred)
          /\ calls' = [calls EXCEPT ![d][c] =
                IF call.stage = "login" THEN Move(call, "loginErr") ELSE Idle]
          /\ UNCHANGED <<currentUser, late>>
    /\ UNCHANGED <<accounts, records, screen, fields, puts, appearing, cut>>

\* createUser(withEmail:password:), refused when the email has an account.
RegisterAnswered(d, c) ==
    LET call == calls[d][c] IN
    /\ call.stage = "register"
    /\ \/ /\ Registrable(call.cred)
          /\ accounts' = [accounts EXCEPT ![call.cred.email] = call.cred.password]
          /\ SignedIn(d, c)
          /\ calls' = [calls EXCEPT ![d][c] = Move(@, "registerOk")]
       \/ /\ ~Registrable(call.cred)
          /\ calls' = [calls EXCEPT ![d][c] = Idle]
          /\ UNCHANGED <<accounts, currentUser, late>>
    /\ UNCHANGED <<records, screen, fields, puts, appearing, cut>>

\* signInAndRetrieveData(with:) makes the account when there is none.
GoogleAccount(e) ==
    accounts' = [accounts EXCEPT ![e] = IF @ = NoAccount THEN NoPassword ELSE @]

GoogleAnswered(d, c) ==
    LET call == calls[d][c] IN
    /\ call.stage = "google"
    /\ GoogleAccount(call.cred.email)
    /\ SignedIn(d, c)
    /\ calls' = [calls EXCEPT ![d][c] = Move(@, "googleOk")]
    /\ UNCHANGED <<records, screen, fields, puts, appearing, cut>>

\* The request never reached the server: an error, like a wrong password.
RequestFails(d, c) ==
    LET call == calls[d][c] IN
    /\ call.stage \in Waiting
    /\ calls' = [calls EXCEPT ![d][c] =
          IF call.stage = "login" THEN Move(call, "loginErr") ELSE Idle]
    /\ UNCHANGED <<accounts, records, screen, currentUser, fields, puts,
                   appearing, cut, late>>

\* The server made the account but its answer was lost: an error for the app.
AnswerLost(d, c) ==
    LET call == calls[d][c] IN
    /\ \/ /\ call.stage = "register"
          /\ Registrable(call.cred)
          /\ accounts' = [accounts EXCEPT ![call.cred.email] = call.cred.password]
       \/ /\ call.stage = "google"
          /\ GoogleAccount(call.cred.email)
    /\ calls' = [calls EXCEPT ![d][c] = Idle]
    /\ cut' = cut \union {call.cred.email}
    /\ UNCHANGED <<records, screen, currentUser, fields, puts, appearing, late>>

-----------------------------------------------------------------------------
(* Closures on the main queue. *)

\* Fault: the screen stays open after a login.
LoginSucceededNoClose(d, c) ==
    /\ calls[d][c].stage = "loginOk"
    /\ Stay(d, [calls[d] EXCEPT ![c] = Idle])
    /\ UNCHANGED <<accounts, records, currentUser, puts, cut>>

\* loginUser's completion, success: self.close().
LoginSucceeded(d, c) ==
    LET done == [calls[d] EXCEPT ![c] = Idle] IN
    /\ calls[d][c].stage = "loginOk"
    /\ IF calls[d][c].here THEN DismissEmail(d, done) ELSE Stay(d, done)
    /\ UNCHANGED <<accounts, records, currentUser, puts, cut>>

\* What the text fields of the call's view controller hold now.
Typed(d, c) == IF calls[d][c].here THEN fields[d] ELSE calls[d][c].typed

\* createDBUser: a local write of the record, sent when the connection allows.
CreateDBUser(d, e) == puts' = [puts EXCEPT ![d] = @ \union {e}]

\* Fault: the record is written when the account is asked for.
LoginFailedRecordFirst(d, c) ==
    /\ calls[d][c].stage = "loginErr"
    /\ CreateDBUser(d, calls[d][c].cred.email)
    /\ calls' = [calls EXCEPT ![d][c] = Ask(@, "register", Typed(d, c))]
    /\ UNCHANGED <<accounts, records, screen, currentUser, fields, appearing, cut, late>>

\* loginUser's completion, any failure: register what the fields hold now.
LoginFailed(d, c) ==
    /\ calls[d][c].stage = "loginErr"
    /\ calls' = [calls EXCEPT ![d][c] = Ask(@, "register", Typed(d, c))]
    /\ UNCHANGED <<accounts, records, screen, currentUser, fields, puts,
                   appearing, cut, late>>

\* registerUser's completion: write the record of the account that was made,
\* then log in with what the fields hold now.
RegisterSucceeded(d, c) ==
    /\ calls[d][c].stage = "registerOk"
    /\ CreateDBUser(d, calls[d][c].cred.email)
    /\ calls' = [calls EXCEPT ![d][c] = Ask(@, "relogin", Typed(d, c))]
    /\ UNCHANGED <<accounts, records, screen, currentUser, fields, appearing, cut, late>>

\* Fault: no record is written, as in AppDelegate's own sign(didSignInFor:).
GoogleSucceededNoRecord(d, c) ==
    /\ calls[d][c].stage = "googleOk"
    /\ calls' = [calls EXCEPT ![d][c] = Move(@, "dismiss")]
    /\ UNCHANGED <<accounts, records, screen, currentUser, fields, puts, appearing, cut, late>>

\* LoginVC's Google completion: write the record, then dismiss on a later turn.
GoogleSucceeded(d, c) ==
    /\ calls[d][c].stage = "googleOk"
    /\ CreateDBUser(d, calls[d][c].cred.email)
    /\ calls' = [calls EXCEPT ![d][c] = Move(@, "dismiss")]
    /\ UNCHANGED <<accounts, records, screen, currentUser, fields, appearing, cut, late>>

\* Fault: the closure dismisses whichever LoginVC is on screen.
GoogleDismissAny(d, c) ==
    LET done == [calls[d] EXCEPT ![c] = Idle] IN
    /\ calls[d][c].stage = "dismiss"
    /\ IF screen[d] = "login" THEN DismissLogin(d, done) ELSE Stay(d, done)
    /\ UNCHANGED <<accounts, records, currentUser, puts, cut>>

\* self.dismiss of that LoginVC: the LoginEmailVC it presents, or itself.
GoogleDismiss(d, c) ==
    LET done == [calls[d] EXCEPT ![c] = Idle] IN
    /\ calls[d][c].stage = "dismiss"
    /\ \/ calls[d][c].here /\ screen[d] = "email" /\ DismissEmail(d, done)
       \/ calls[d][c].here /\ screen[d] # "email" /\ DismissLogin(d, done)
       \/ ~calls[d][c].here /\ Stay(d, done)
    /\ UNCHANGED <<accounts, records, currentUser, puts, cut>>

\* Fault: viewDidAppear does not look at the session.
LoginViewDidAppearBlind(d) ==
    /\ appearing[d]
    /\ appearing' = [appearing EXCEPT ![d] = FALSE]
    /\ UNCHANGED <<accounts, records, screen, currentUser, fields, calls, puts, cut, late>>

\* LoginVC.viewDidAppear: dismiss at once when somebody is signed in.
LoginViewDidAppear(d) ==
    /\ appearing[d]
    /\ IF currentUser[d] # NoUser
       THEN DismissLogin(d, calls[d])
       ELSE /\ appearing' = [appearing EXCEPT ![d] = FALSE]
            /\ UNCHANGED <<screen, fields, calls, late>>
    /\ UNCHANGED <<accounts, records, currentUser, puts, cut>>

\* The server takes a pending write of /users.
CommitRecord(d, e) ==
    /\ e \in puts[d]
    /\ records' = records \union {e}
    /\ puts' = [puts EXCEPT ![d] = @ \ {e}]
    /\ UNCHANGED <<accounts, screen, currentUser, fields, calls, appearing, cut, late>>

-----------------------------------------------------------------------------
UserStep(d) ==
    \/ LoginWithEmailPressed(d)
    \/ \E cred \in Creds \union {Unfilled} : EditFields(d, cred)
    \/ \E c \in Slots : LoginPressed(d, c)
    \/ ClosePressed(d)
    \/ \E c \in Slots, e \in Emails : GoogleSignIn(d, c, e)
    \/ LogoutPressed(d)
    \/ CancelLogout(d)
    \/ ConfirmLogout(d)

AnswerStep(d) ==
    \E c \in Slots :
        \/ LoginAnswered(d, c)
        \/ RegisterAnswered(d, c)
        \/ GoogleAnswered(d, c)
        \/ RequestFails(d, c)
        \/ AnswerLost(d, c)

Closure(d, c) ==
    \/ LoginSucceeded(d, c)
    \/ LoginFailed(d, c)
    \/ RegisterSucceeded(d, c)
    \/ GoogleSucceeded(d, c)
    \/ GoogleDismiss(d, c)

Next == \E d \in Devices :
    \/ Launch(d)
    \/ Kill(d)
    \/ UserStep(d)
    \/ AnswerStep(d)
    \/ \E c \in Slots : Closure(d, c)
    \/ LoginViewDidAppear(d)
    \/ \E e \in Emails : CommitRecord(d, e)

Spec == Init /\ [][Next]_vars

\* The main queue runs every closure queued on it and UIKit ends every
\* transition.  Nothing is promised of the user, the network or the server.
Fairness == \A d \in Devices :
    /\ WF_vars(LoginViewDidAppear(d))
    /\ \A c \in Slots : WF_vars(Closure(d, c))

-----------------------------------------------------------------------------
(* Properties. *)

\* The tab bar is never left uncovered for nobody: whoever can reach the feed,
\* the groups and the profile is signed in.  FeedVC, GroupsVC and ProfileVC
\* rely on it when they unwrap currentUser; what could break it is a dismissal
\* asked for by a closure that outlived the session it belongs to.
AuthGate ==
    \A d \in Devices : screen[d] \in {"tabs", "sheet"} => currentUser[d] # NoUser

\* No record without its account: a /users node, a pending write of one and a
\* signed-in user all name an account the server made, although the text
\* fields may change between the registration and the write.
RecordsHaveAccounts ==
    /\ \A e \in records : accounts[e] # NoAccount
    /\ \A d \in Devices :
        /\ \A e \in puts[d] : accounts[e] # NoAccount
        /\ currentUser[d] # NoUser => accounts[currentUser[d]] # NoAccount

\* An account without a /users record (its owner's posts never get a name,
\* DataService.getUsername) has its record on the way, or its registration was
\* cut short by a lost answer or by the death of the process: no order of
\* answers, closures, edits and dismissals loses a record by itself.
NoOrphanUnlessCut ==
    \A e \in Emails :
        accounts[e] # NoAccount /\ e \notin records
            => e \in cut \/ \E d \in Devices : e \in Owed(d)

\* A call of the Google button that is about to dismiss the LoginVC on screen.
Dismissing(d) == \E c \in Slots :
    calls[d][c].here /\ calls[d][c].stage \in {"googleOk", "dismiss"}

\* A signed-in user is left facing an idle LoginVC only when the answer came to
\* a call whose screen had been closed: close() is then a no-op and
\* viewDidAppear has already run.
StuckOnlyWhenLate ==
    \A d \in Devices :
        screen[d] = "login" /\ ~appearing[d] /\ currentUser[d] # NoUser
            => late[d] \/ Dismissing(d)

\* Once a sign-in was answered for the screen that asked, the tab bar comes up,
\* whichever of the closure, the close button and viewDidAppear runs first.
SignInReachesTabs ==
    \A d \in Devices, c \in Slots :
        (calls[d][c].here /\ calls[d][c].stage \in {"loginOk", "googleOk"})
            ~> screen[d] \in {"tabs", "off"}
=============================================================================
