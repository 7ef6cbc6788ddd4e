---------------------------- MODULE Reachability ----------------------------
(***************************************************************************)
(* The Reachability class of the FRadioPlayer pod and the way FRadioPlayer *)
(* uses it.  The initialiser of the player starts the notifier step by     *)
(* step on the main thread while callbacks of SystemConfiguration already  *)
(* run on a serial queue of its own; each step can fail, and the failure   *)
(* is ignored (try?).  Flags reach the player by posts on the main queue,  *)
(* which carry nothing but the fact that there was a change.               *)
(***************************************************************************)
EXTENDS Naturals, Sequences

CONSTANTS
    FlagSets,     \* the combinations of flags the network may show
    NoFlags,      \* flags == nil
    Check,        \* the block that setReachabilityFlags sends with sync
    MaxPending    \* bound on waiting callbacks and posts, in the guard of the network

\* The flags that decide about the connection, and one of those that do not.
Flags == {"reachable", "connectionRequired", "interventionRequired",
          "connectionOnTraffic", "connectionOnDemand", "isWWAN", "isDirect"}

ASSUME FlagAssumption ==
    /\ FlagSets \subseteq SUBSET Flags
    /\ NoFlags \notin FlagSets /\ Check \notin FlagSets /\ NoFlags # Check
ASSUME PendingAssumption == MaxPending \in Nat \ {0}

VARIABLES
    network,           \* what SCNetworkReachabilityGetFlags would answer
    flags,             \* Reachability.flags
    scheduled,         \* callback and dispatch queue are set
    serialQueue,       \* callbacks and Check on reachabilitySerialQueue, in order
    notifierRunning,
    posts,             \* blocks of reachabilityChanged on the main queue
    isConnected,       \* FRadioPlayer.isConnected
    pc                 \* where the initialiser of FRadioPlayer is

vars == <<network, flags, scheduled, serialQueue, notifierRunning, posts, isConnected, pc>>

PCs == {"setCallback", "setDispatchQueue", "sync", "waiting", "running", "read", "done"}

----------------------------------------------------------------------------
\* SCNetworkReachabilityFlags.connection, the later assignments winning.
connectionOf(f) ==
    IF "reachable" \notin f THEN "none"
    ELSE IF "isWWAN" \in f THEN "cellular"
    ELSE IF \/ "connectionRequired" \notin f
            \/ /\ f \cap {"connectionOnTraffic", "connectionOnDemand"} # {}
               /\ "interventionRequired" \notin f
    THEN "wifi"
    ELSE "none"

\* Reachability.connection with flags already read; cellular is allowed.
Connection(f) == IF f = NoFlags THEN "none" ELSE connectionOf(f)

\* Mutant: only a network that can be used is announced.
setFlags_whenReachable(f) ==
    /\ flags' = f
    /\ posts' = IF f # flags /\ connectionOf(f) # "none" THEN posts + 1 ELSE posts

\* Mutant: the first value is not announced.
setFlags_notTheFirst(f) ==
    /\ flags' = f
    /\ posts' = IF f # flags /\ flags # NoFlags THEN posts + 1 ELSE posts

\* Assigning flags runs the didSet, which announces a change.
setFlags(f) ==
    /\ flags' = f
    /\ posts' = IF f # flags THEN posts + 1 ELSE posts

stopNotifier == scheduled' = FALSE /\ notifierRunning' = FALSE

Init ==
    /\ network \in FlagSets
    /\ flags = NoFlags
    /\ scheduled = FALSE
    /\ serialQueue = <<>>
    /\ notifierRunning = FALSE
    /\ posts = 0
    /\ isConnected = FALSE
    /\ pc = "setCallback"

----------------------------------------------------------------------------
(* The initialiser of FRadioPlayer on the main thread: startNotifier, with *)
(* every error thrown away, then the observer and the first read.          *)

SetCallback ==
    /\ pc = "setCallback"
    /\ \/ pc' = "setDispatchQueue" /\ UNCHANGED <<scheduled, notifierRunning>>
       \/ pc' = "read" /\ stopNotifier
    /\ UNCHANGED <<network, flags, serialQueue, posts, isConnected>>

SetDispatchQueue ==
    /\ pc = "setDispatchQueue"
    /\ \/ pc' = "sync" /\ scheduled' = TRUE /\ UNCHANGED notifierRunning
       \/ pc' = "read" /\ stopNotifier
    /\ UNCHANGED <<network, flags, serialQueue, posts, isConnected>>

\* Mutant: the block is sent with async, and startNotifier goes on.
SyncCheck_async ==
    /\ pc = "sync"
    /\ serialQueue' = Append(serialQueue, Check)
    /\ pc' = "running"
    /\ UNCHANGED <<network, flags, scheduled, notifierRunning, posts, isConnected>>

\* setReachabilityFlags queues its block behind the callbacks and waits.
SyncCheck ==
    /\ pc = "sync"
    /\ serialQueue' = Append(serialQueue, Check)
    /\ pc' = "waiting"
    /\ UNCHANGED <<network, flags, scheduled, notifierRunning, posts, isConnected>>

NotifierRuns ==
    /\ pc = "running"
    /\ notifierRunning' = TRUE
    /\ pc' = "read"
    /\ UNCHANGED <<network, flags, scheduled, serialQueue, posts, isConnected>>

\* Reachability.connection finds no flags and asks for them once more.  There
\* are none only after a failed start: no callback can be ahead in the queue.
RetryFlags ==
    \/ setFlags(network) /\ UNCHANGED <<scheduled, notifierRunning>>
    \/ stopNotifier /\ UNCHANGED <<flags, posts>>

\* isConnected = reachability.connection != .none
ReadConnection ==
    /\ pc = "read"
    /\ pc' = "done"
    /\ \/ flags = NoFlags /\ RetryFlags
       \/ flags # NoFlags /\ UNCHANGED <<flags, posts, scheduled, notifierRunning>>
    /\ isConnected' = (Connection(flags') # "none")
    /\ UNCHANGED <<network, serialQueue>>

----------------------------------------------------------------------------
(* The network and the serial queue.                                       *)

\* The network changes; whoever is scheduled gets a callback with the flags.
NetworkChange ==
    /\ posts + Len(serialQueue) < MaxPending
    /\ network' \in FlagSets \ {network}
    /\ serialQueue' = IF scheduled THEN Append(serialQueue, network') ELSE serialQueue
    /\ UNCHANGED <<flags, scheduled, notifierRunning, posts, isConnected, pc>>

\* Mutant: the callback is ignored until the notifier counts as running.
Callback_onlyWhenRunning ==
    /\ serialQueue # <<>> /\ Head(serialQueue) # Check
    /\ serialQueue' = Tail(serialQueue)
    /\ \/ notifierRunning /\ setFlags(Head(serialQueue))
       \/ ~notifierRunning /\ UNCHANGED <<flags, posts>>
    /\ UNCHANGED <<network, scheduled, notifierRunning, isConnected, pc>>

\* A callback runs, unless the callback has been taken away since.
Callback ==
    /\ serialQueue # <<>> /\ Head(serialQueue) # Check
    /\ serialQueue' = Tail(serialQueue)
    /\ \/ scheduled /\ setFlags(Head(serialQueue))
       \/ ~scheduled /\ UNCHANGED <<flags, posts>>
    /\ UNCHANGED <<network, scheduled, notifierRunning, isConnected, pc>>

\* Mutant: a failed check leaves the callback in place.
setReachabilityFlags_keepsCallback ==
    /\ serialQueue # <<>> /\ Head(serialQueue) = Check
    /\ serialQueue' = Tail(serialQueue)
    /\ \/ /\ setFlags(network)
          /\ pc' = "running"
       \/ /\ pc' = "read"
          /\ UNCHANGED <<flags, posts>>
    /\ UNCHANGED <<network, isConnected, scheduled, notifierRunning>>

\* The block of setReachabilityFlags: the initial check, or its failure.
setReachabilityFlags ==
    /\ serialQueue # <<>> /\ Head(serialQueue) = Check
    /\ serialQueue' = Tail(serialQueue)
    /\ \/ /\ setFlags(network)
          /\ pc' = "running"
          /\ UNCHANGED <<scheduled, notifierRunning>>
       \/ /\ stopNotifier
          /\ pc' = "read"
          /\ UNCHANGED <<flags, posts>>
    /\ UNCHANGED <<network, isConnected>>

----------------------------------------------------------------------------
(* The main run loop, after the initialiser.                               *)

\* Mutant: the handler never records a loss.
reachabilityChanged_neverLost ==
    /\ pc = "done" /\ posts > 0
    /\ posts' = posts - 1
    /\ isConnected' = (isConnected \/ Connection(flags) # "none")
    /\ UNCHANGED <<network, flags, scheduled, serialQueue, notifierRunning, pc>>

\* The last line of FRadioPlayer.reachabilityChanged, whose read is recorded;
\* the post counts until then.  There are flags once there was a post, so that
\* the handler's earlier reads (RadioPlayer has them) change nothing here.
reachabilityChanged ==
    /\ pc = "done" /\ posts > 0
    /\ posts' = posts - 1
    /\ isConnected' = (Connection(flags) # "none")
    /\ UNCHANGED <<network, flags, scheduled, serialQueue, notifierRunning, pc>>

\* checkNetworkInterruption reads the connection; without flags that asks.
checkNetworkInterruption ==
    /\ pc = "done" /\ flags = NoFlags
    /\ RetryFlags
    /\ UNCHANGED <<network, serialQueue, isConnected, pc>>

Initialiser == SetCallback \/ SetDispatchQueue \/ SyncCheck \/ NotifierRuns \/ ReadConnection
SerialQueue == Callback \/ setReachabilityFlags

Next ==
    \/ Initialiser \/ SerialQueue
    \/ NetworkChange
    \/ reachabilityChanged \/ checkNetworkInterruption

Spec == Init /\ [][Next]_vars

\* The main thread runs its initialiser and its queue, the serial queue is
\* drained; the network need not change and nobody need read the connection.
Fairness == WF_vars(Initialiser) /\ WF_vars(SerialQueue) /\ WF_vars(reachabilityChanged)

FairSpec == Spec /\ Fairness

----------------------------------------------------------------------------
Types ==
    /\ network \in FlagSets
    /\ flags \in FlagSets \cup {NoFlags}
    /\ scheduled \in BOOLEAN
    /\ serialQueue \in Seq(FlagSets \cup {Check})
    /\ notifierRunning \in BOOLEAN
    /\ posts \in Nat
    /\ isConnected \in BOOLEAN
    /\ pc \in PCs

\* Every variable keeps its type, and setReachabilityFlags's sync holds the
\* initialiser exactly as long as the initial check is in the serial queue.
TypeOK == Types /\ (pc = "waiting" <=> \E i \in DOMAIN serialQueue : serialQueue[i] = Check)

Last(s) == s[Len(s)]

\* From the initial check on, a live notifier holds the flags of the network
\* or has them behind every older callback: no change is lost between
\* SCNetworkReachabilitySetDispatchQueue and notifierRunning = true, and the
\* check, which may read newer flags than a callback queued after it, is
\* overtaken by the newest callback in the end.
FlagsFollowNetwork ==
    scheduled /\ pc \in {"running", "read", "done"} =>
        IF serialQueue = <<>> THEN flags = network ELSE Last(serialQueue) = network

\* After the initialiser the player's record agrees with the flags or a post
\* is on its way, whatever failed and whenever the callbacks ran.
RecordFollowsFlags ==
    pc = "done" => isConnected = (Connection(flags) # "none") \/ posts > 0

\* A start that failed leaves nothing behind that could call back, though an
\* early callback may have set the flags: a notifier is scheduled if and only
\* if it runs, and one that is has flags.
FailedStartIsDeaf ==
    pc = "done" => (scheduled <=> notifierRunning) /\ (flags = NoFlags => ~scheduled)

\* With the notifier running and a network that stays as it is, the player's
\* record comes to say whether there is a connection.
RecordCatchesUp ==
    \A f \in FlagSets :
        <>[](notifierRunning /\ network = f) => <>[](isConnected = (connectionOf(f) # "none"))

----------------------------------------------------------------------------
Feed == INSTANCE ConnectionFeed WITH
    Connections <- {"none", "wifi", "cellular"},
    ready       <- pc = "done",
    connection  <- Connection(flags),
    told        <- posts > 0

\* Reachability with the player's initialiser gives the engine what the model
\* of the engine assumes: a post with every change of the connection, and a
\* record written from the connection of the moment.
ImplementsFeed == Feed!Spec
=============================================================================
