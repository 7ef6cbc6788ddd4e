----------------------------- MODULE PushToken -----------------------------
(***************************************************************************)
(* The way of a push token from Firebase Messaging to the app's document   *)
(* in Firestore: PushNotificationManager, which didFinishLaunching creates *)
(* in a local constant, and Messaging, which keeps a token in memory and   *)
(* in the keychain and holds its delegate weakly.  The app may be          *)
(* terminated and launched again; keychain and document survive that.      *)
(***************************************************************************)
CONSTANTS
    Tokens,    \* registration tokens the server may hand out
    NoToken    \* nil

VARIABLES
    mode,            \* off, launching (inside didFinishLaunching), running
    delegate,        \* Messaging's weak delegate still exists
    cachedToken,     \* the token in the keychain
    defaultFCMToken, \* the token in memory
    announcing,      \* a block that tells the delegate is on the main queue
    called,          \* the token the delegate's callback had last in this launch
    stored           \* the token in the document users_token

vars == <<mode, delegate, cachedToken, defaultFCMToken, announcing, called, stored>>

MaybeToken == Tokens \cup {NoToken}

Init ==
    /\ mode = "off"
    /\ delegate = FALSE
    /\ cachedToken = NoToken /\ defaultFCMToken = NoToken
    /\ announcing = FALSE
    /\ called = NoToken /\ stored = NoToken

\* Messaging.fcmToken: the token in memory, else the one in the keychain.
fcmToken == IF defaultFCMToken # NoToken THEN defaultFCMToken ELSE cachedToken

\* didFinishLaunching configures Firebase and registers the manager, which
\* writes the token that is already there.
registerForPushNotifications ==
    /\ mode = "off"
    /\ mode' = "launching"
    /\ delegate' = TRUE
    /\ stored' = IF fcmToken # NoToken THEN fcmToken ELSE stored
    /\ UNCHANGED <<cachedToken, defaultFCMToken, announcing, called>>

\* It returns, and with its local constant the manager goes.
didFinishLaunching ==
    /\ mode = "launching"
    /\ mode' = "running"
    /\ delegate' = FALSE
    /\ UNCHANGED <<cachedToken, defaultFCMToken, announcing, called, stored>>

\* The delegate's callback, if there is a delegate.
notifyDelegate(token) ==
    IF delegate THEN called' = token /\ stored' = token ELSE UNCHANGED <<called, stored>>

\* Messaging's start finds a token in the keychain and, on another thread,
\* makes it the token in memory.
didCompleteConfigure ==
    /\ mode \in {"launching", "running"}
    /\ cachedToken # NoToken /\ defaultFCMToken = NoToken
    /\ defaultFCMToken' = cachedToken
    /\ announcing' = TRUE
    /\ UNCHANGED <<mode, delegate, cachedToken, called, stored>>

\* The block of notifyDelegateOfFCMTokenAvailability.
AnnounceBlock ==
    /\ mode = "running" /\ announcing
    /\ announcing' = FALSE
    /\ notifyDelegate(defaultFCMToken)
    /\ UNCHANGED <<mode, delegate, cachedToken, defaultFCMToken>>

\* A token that was asked for arrives, on the main thread: it is saved, and
\* announced if it is another one.
fetchNewToken ==
    /\ mode = "running"
    /\ \E token \in Tokens :
          /\ cachedToken' = token
          /\ defaultFCMToken' = token
          /\ IF token # defaultFCMToken THEN notifyDelegate(token) ELSE UNCHANGED <<called, stored>>
    /\ UNCHANGED <<mode, delegate, announcing>>

\* The app is terminated.
Terminate ==
    /\ mode = "running"
    /\ mode' = "off"
    /\ defaultFCMToken' = NoToken
    /\ announcing' = FALSE
    /\ called' = NoToken
    /\ UNCHANGED <<delegate, cachedToken, stored>>

Next ==
    \/ registerForPushNotifications \/ didFinishLaunching
    \/ didCompleteConfigure \/ AnnounceBlock \/ fetchNewToken
    \/ Terminate

Spec == Init /\ [][Next]_vars

----------------------------------------------------------------------------
\* "This callback is fired at each app startup and whenever a new token is
\* generated": once nothing is left to announce, the callback has had the
\* token in memory.  The code breaks this: nobody owns the manager by then.
CallbackFired ==
    mode = "running" /\ ~announcing /\ defaultFCMToken # NoToken => called = defaultFCMToken
=============================================================================
