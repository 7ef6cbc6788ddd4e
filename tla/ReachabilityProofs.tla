------------------------- MODULE ReachabilityProofs -------------------------
(***************************************************************************)
(* Proofs about Reachability, for any combinations of flags and any bound. *)
(***************************************************************************)
EXTENDS Reachability, QueueLemmas

\* The initial check is in the queue exactly while the initialiser waits for it.
CheckIsAwaited ==
    /\ \A i \in 1..Len(serialQueue) : serialQueue[i] = Check => pc = "waiting"
    /\ \A i, j \in 1..Len(serialQueue) : serialQueue[i] = Check /\ serialQueue[j] = Check => i = j
    /\ pc = "waiting" => scheduled /\ \E i \in 1..Len(serialQueue) : serialQueue[i] = Check

\* While callbacks come, the newest entry of the queue is the check or the
\* network, and from the check on there are flags.
QueueIsCurrent ==
    /\ pc \in {"setCallback", "setDispatchQueue"} => ~scheduled /\ serialQueue = <<>>
    /\ scheduled /\ serialQueue # <<>> => Last(serialQueue) \in {Check, network}
    /\ scheduled /\ pc \in {"running", "read", "done"} =>
          flags # NoFlags /\ (serialQueue = <<>> => flags = network)

\* The notifier counts as running when it was scheduled and checked.
RunningIsScheduled ==
    /\ notifierRunning => scheduled /\ pc \in {"read", "done"}
    /\ pc \in {"read", "done"} /\ scheduled => notifierRunning
    /\ pc \in {"sync", "running"} => scheduled

IInv == Types /\ CheckIsAwaited /\ QueueIsCurrent /\ RunningIsScheduled

----------------------------------------------------------------------------
\* The network changes, and a scheduled notifier gets its callback.
LEMMA NetworkStep == IInv /\ NetworkChange => IInv'
<1> SUFFICES ASSUME IInv, NetworkChange PROVE IInv'
  OBVIOUS
<1> USE FlagAssumption
<1>1. Types /\ network' \in FlagSets /\ network' # Check
      /\ serialQueue \in Seq(FlagSets \cup {Check})
  BY DEF IInv, Types, NetworkChange
<1>2. CASE ~scheduled
  BY <1>1, <1>2 DEF IInv, NetworkChange, Types, CheckIsAwaited, QueueIsCurrent, RunningIsScheduled
<1>3. CASE scheduled
  <2>1. serialQueue' = Append(serialQueue, network')
    BY <1>3 DEF NetworkChange
  <2>2. /\ serialQueue' \in Seq(FlagSets \cup {Check})
        /\ Len(serialQueue') = Len(serialQueue) + 1
        /\ serialQueue' # <<>> /\ Last(serialQueue') = network'
        /\ \A i \in 1..Len(serialQueue) + 1 :
              serialQueue'[i] = IF i = Len(serialQueue) + 1 THEN network' ELSE serialQueue[i]
    <3> DEFINE S == FlagSets \cup {Check}
    <3>1. network' \in S /\ serialQueue \in Seq(S)
      BY <1>1
    <3> HIDE DEF S
    <3>2. /\ serialQueue' \in Seq(S)
          /\ Len(serialQueue') = Len(serialQueue) + 1
          /\ serialQueue' # <<>> /\ Last(serialQueue') = network'
          /\ \A i \in 1..Len(serialQueue) + 1 :
                serialQueue'[i] = IF i = Len(serialQueue) + 1 THEN network' ELSE serialQueue[i]
      BY <3>1, <2>1, AppendFacts DEF Last
    <3> QED
      BY <3>2 DEF S
  <2>3. Types'
    BY <1>1, <2>2 DEF NetworkChange, Types
  <2>4. CheckIsAwaited'
    <3>1. Len(serialQueue) \in Nat
      BY <1>1
    <3> QED
      BY <3>1, <1>1, <1>3, <2>2 DEF IInv, NetworkChange, CheckIsAwaited
  <2>5. QueueIsCurrent' /\ RunningIsScheduled'
    BY <1>3, <2>2 DEF IInv, NetworkChange, QueueIsCurrent, RunningIsScheduled
  <2> QED
    BY <2>3, <2>4, <2>5 DEF IInv
<1> QED
  BY <1>2, <1>3

\* The initialiser and the main queue.
LEMMA MainThreadStep ==
    IInv /\ (Initialiser \/ reachabilityChanged \/ checkNetworkInterruption) => IInv'
<1> SUFFICES ASSUME IInv, Initialiser \/ reachabilityChanged \/ checkNetworkInterruption
             PROVE  IInv'
  OBVIOUS
<1> USE FlagAssumption DEF IInv, PCs
<1>1. CASE SetCallback
  <2>1. Types'
    BY <1>1 DEF SetCallback, stopNotifier, Types
  <2>2. CheckIsAwaited'
    BY <1>1 DEF SetCallback, stopNotifier, CheckIsAwaited
  <2>3. QueueIsCurrent'
    BY <1>1 DEF SetCallback, stopNotifier, QueueIsCurrent, CheckIsAwaited, RunningIsScheduled, Types, Last
  <2>4. RunningIsScheduled'
    BY <1>1 DEF SetCallback, stopNotifier, RunningIsScheduled, QueueIsCurrent, Types
  <2> QED
    BY <2>1, <2>2, <2>3, <2>4
<1>2. CASE SetDispatchQueue
  <2>1. Types'
    BY <1>2 DEF SetDispatchQueue, stopNotifier, Types
  <2>2. CheckIsAwaited'
    BY <1>2 DEF SetDispatchQueue, stopNotifier, CheckIsAwaited
  <2>3. QueueIsCurrent'
    BY <1>2 DEF SetDispatchQueue, stopNotifier, QueueIsCurrent, CheckIsAwaited, RunningIsScheduled, Types, Last
  <2>4. RunningIsScheduled'
    BY <1>2 DEF SetDispatchQueue, stopNotifier, RunningIsScheduled, QueueIsCurrent, Types
  <2> QED
    BY <2>1, <2>2, <2>3, <2>4
<1>3. CASE SyncCheck
  <2> DEFINE S == FlagSets \cup {Check}
  <2>1. Check \in S /\ serialQueue \in Seq(S) /\ Len(serialQueue) \in Nat
        /\ serialQueue' = Append(serialQueue, Check)
    BY <1>3 DEF SyncCheck, Types
  <2> HIDE DEF S
  <2>2. /\ serialQueue' \in Seq(S)
        /\ Len(serialQueue') = Len(serialQueue) + 1
        /\ serialQueue' # <<>> /\ Last(serialQueue') = Check
        /\ \A i \in 1..Len(serialQueue) + 1 :
              serialQueue'[i] = IF i = Len(serialQueue) + 1 THEN Check ELSE serialQueue[i]
    BY <2>1, AppendFacts DEF Last
  <2>3. Types'
    BY <1>3, <2>2 DEF S, SyncCheck, Types
  <2>4. scheduled /\ ~notifierRunning
    BY <1>3 DEF SyncCheck, RunningIsScheduled, Types
  <2>5. CheckIsAwaited'
    <3>1. \A i \in 1..Len(serialQueue) : serialQueue[i] # Check
      BY <1>3 DEF SyncCheck, CheckIsAwaited
    <3> QED
      BY <3>1, <1>3, <2>1, <2>2, <2>4 DEF SyncCheck, CheckIsAwaited
  <2>6. QueueIsCurrent' /\ RunningIsScheduled'
    BY <1>3, <2>2, <2>4 DEF SyncCheck, QueueIsCurrent, RunningIsScheduled
  <2> QED
    BY <2>3, <2>5, <2>6
<1>4. CASE NotifierRuns
  BY <1>4 DEF NotifierRuns, Types, CheckIsAwaited, QueueIsCurrent, RunningIsScheduled
<1>5. CASE ReadConnection
  <2>1. Types'
    <3>1. posts' \in Nat /\ flags' \in FlagSets \cup {NoFlags}
      BY <1>5 DEF ReadConnection, RetryFlags, setFlags, Types
    <3>2. scheduled' \in BOOLEAN /\ notifierRunning' \in BOOLEAN /\ isConnected' \in BOOLEAN
      BY <1>5 DEF ReadConnection, RetryFlags, stopNotifier, Types
    <3> QED
      BY <1>5, <3>1, <3>2 DEF ReadConnection, Types
  <2>2. CheckIsAwaited'
    BY <1>5 DEF ReadConnection, RetryFlags, setFlags, stopNotifier, CheckIsAwaited
  <2>3. QueueIsCurrent'
    BY <1>5 DEF ReadConnection, RetryFlags, setFlags, stopNotifier, QueueIsCurrent, CheckIsAwaited, RunningIsScheduled, Types, Last
  <2>4. RunningIsScheduled'
    BY <1>5 DEF ReadConnection, RetryFlags, setFlags, stopNotifier, RunningIsScheduled, QueueIsCurrent, Types
  <2> QED
    BY <2>1, <2>2, <2>3, <2>4
<1>6. CASE reachabilityChanged
  BY <1>6 DEF reachabilityChanged, Types, CheckIsAwaited, QueueIsCurrent, RunningIsScheduled
<1>7. CASE checkNetworkInterruption
  <2>1. Types'
    <3>1. posts' \in Nat /\ flags' \in FlagSets \cup {NoFlags}
      BY <1>7 DEF checkNetworkInterruption, RetryFlags, setFlags, Types
    <3>2. scheduled' \in BOOLEAN /\ notifierRunning' \in BOOLEAN
      BY <1>7 DEF checkNetworkInterruption, RetryFlags, stopNotifier, Types
    <3> QED
      BY <1>7, <3>1, <3>2 DEF checkNetworkInterruption, Types
  <2>2. CheckIsAwaited'
    BY <1>7 DEF checkNetworkInterruption, RetryFlags, setFlags, stopNotifier, CheckIsAwaited
  <2>3. QueueIsCurrent'
    BY <1>7 DEF checkNetworkInterruption, RetryFlags, setFlags, stopNotifier, QueueIsCurrent, CheckIsAwaited, RunningIsScheduled, Types, Last
  <2>4. RunningIsScheduled'
    BY <1>7 DEF checkNetworkInterruption, RetryFlags, setFlags, stopNotifier, RunningIsScheduled, QueueIsCurrent, Types
  <2> QED
    BY <2>1, <2>2, <2>3, <2>4
<1> QED
  BY <1>1, <1>2, <1>3, <1>4, <1>5, <1>6, <1>7 DEF Initialiser

\* The first block of the serial queue runs: a callback, or the check.
LEMMA SerialQueueStep == IInv /\ SerialQueue => IInv'
<1> SUFFICES ASSUME IInv, SerialQueue PROVE IInv'
  OBVIOUS
<1> USE FlagAssumption
<1> DEFINE S == FlagSets \cup {Check}
<1>1. serialQueue \in Seq(S) /\ serialQueue # <<>> /\ serialQueue' = Tail(serialQueue)
  BY DEF IInv, Types, SerialQueue, Callback, setReachabilityFlags
<1> HIDE DEF S
<1>2. /\ Len(serialQueue) \in Nat \ {0}
      /\ serialQueue' \in Seq(S)
      /\ Len(serialQueue') = Len(serialQueue) - 1
      /\ Head(serialQueue) = serialQueue[1] /\ Head(serialQueue) \in S
      /\ \A i \in 1..Len(serialQueue') : serialQueue'[i] = serialQueue[i + 1]
      /\ serialQueue' # <<>> => Last(serialQueue') = Last(serialQueue)
      /\ serialQueue' = <<>> <=> Len(serialQueue) = 1
  BY <1>1, TailFacts DEF Last
<1>3. Types'
  <2>1. posts' \in Nat /\ flags' \in FlagSets \cup {NoFlags}
    BY <1>2 DEF IInv, SerialQueue, Callback, setReachabilityFlags, setFlags, Types, S
  <2>2. scheduled' \in BOOLEAN /\ notifierRunning' \in BOOLEAN /\ pc' \in PCs
    BY DEF IInv, SerialQueue, Callback, setReachabilityFlags, stopNotifier, Types, PCs
  <2> QED
    BY <1>2, <2>1, <2>2 DEF IInv, SerialQueue, Callback, setReachabilityFlags, Types, S
<1>4. CASE Callback
  <2>1. Head(serialQueue) # Check /\ UNCHANGED <<network, scheduled, notifierRunning, pc>>
    BY <1>4 DEF Callback
  <2>2. CheckIsAwaited'
    <3>1. \A i \in 1..Len(serialQueue) : serialQueue[i] = Check =>
             i - 1 \in 1..Len(serialQueue') /\ serialQueue'[i - 1] = Check
      BY <1>2, <2>1
    <3>2. pc = "waiting" => scheduled /\ \E i \in 1..Len(serialQueue) : serialQueue[i] = Check
      BY DEF IInv, CheckIsAwaited
    <3>3. pc' = "waiting" =>
             scheduled' /\ \E i \in 1..Len(serialQueue') : serialQueue'[i] = Check
      BY <2>1, <3>1, <3>2
    <3>4. /\ \A i \in 1..Len(serialQueue') : serialQueue'[i] = Check => pc' = "waiting"
          /\ \A i, j \in 1..Len(serialQueue') :
                serialQueue'[i] = Check /\ serialQueue'[j] = Check => i = j
      BY <1>2, <2>1 DEF IInv, CheckIsAwaited
    <3> QED
      BY <3>3, <3>4 DEF CheckIsAwaited
  <2>3. QueueIsCurrent'
    <3>1. CASE ~scheduled
      BY <1>1, <2>1, <3>1 DEF IInv, QueueIsCurrent
    <3>2. CASE scheduled
      <4>1. Last(serialQueue) \in {Check, network} /\ flags' = Head(serialQueue)
        BY <1>1, <1>4, <3>2 DEF IInv, QueueIsCurrent, Callback, setFlags
      <4>2. flags' # NoFlags
        BY <1>2, <2>1, <4>1 DEF S
      <4>3. serialQueue' = <<>> => Last(serialQueue) = Head(serialQueue)
        BY <1>2 DEF Last
      <4> QED
        BY <1>1, <1>2, <2>1, <3>2, <4>1, <4>2, <4>3 DEF IInv, QueueIsCurrent
    <3> QED
      BY <3>1, <3>2
  <2>4. RunningIsScheduled'
    BY <2>1 DEF IInv, RunningIsScheduled
  <2> QED
    BY <1>3, <2>2, <2>3, <2>4 DEF IInv
<1>5. CASE setReachabilityFlags
  <2>1. serialQueue[1] = Check /\ network' = network
    BY <1>2, <1>5 DEF setReachabilityFlags
  <2>2. pc = "waiting" /\ scheduled /\ ~notifierRunning
    BY <1>2, <2>1 DEF IInv, CheckIsAwaited, RunningIsScheduled
  <2>3. \A i \in 1..Len(serialQueue') : serialQueue'[i] # Check
    BY <1>2, <2>1 DEF IInv, CheckIsAwaited
  <2>4. pc' \in {"running", "read"}
    BY <1>5 DEF setReachabilityFlags
  <2>5. CheckIsAwaited'
    BY <2>3, <2>4 DEF CheckIsAwaited
  <2>6. QueueIsCurrent' /\ RunningIsScheduled'
    <3>1. CASE flags' = network /\ pc' = "running" /\ UNCHANGED <<scheduled, notifierRunning>>
      <4>1. network # NoFlags
        BY DEF IInv, Types
      <4>2. Last(serialQueue) \in {Check, network}
        BY <1>1, <2>2 DEF IInv, QueueIsCurrent
      <4> QED
        BY <1>2, <2>1, <2>2, <3>1, <4>1, <4>2 DEF QueueIsCurrent, RunningIsScheduled
    <3>2. CASE ~scheduled' /\ ~notifierRunning' /\ pc' = "read"
      BY <3>2 DEF QueueIsCurrent, RunningIsScheduled
    <3> QED
      BY <1>5, <3>1, <3>2 DEF setReachabilityFlags, setFlags, stopNotifier
  <2> QED
    BY <1>3, <2>5, <2>6 DEF IInv
<1> QED
  BY <1>4, <1>5 DEF SerialQueue

----------------------------------------------------------------------------
\* The inductive invariant: who waits for the check, what the queue holds, and
\* when the notifier counts as running.
THEOREM Invariance == Spec => []IInv
<1>1. Init => IInv
  <2> SUFFICES ASSUME Init PROVE IInv
    OBVIOUS
  <2>1. serialQueue = <<>> /\ Len(serialQueue) = 0
        /\ serialQueue \in Seq(FlagSets \cup {Check})
    BY EmptySeq DEF Init
  <2>2. Types
    BY <2>1 DEF Init, Types, PCs
  <2>3. CheckIsAwaited /\ QueueIsCurrent /\ RunningIsScheduled
    BY <2>1 DEF Init, CheckIsAwaited, QueueIsCurrent, RunningIsScheduled
  <2> QED
    BY <2>2, <2>3 DEF IInv
<1>2. IInv /\ [Next]_vars => IInv'
  <2>1. IInv /\ UNCHANGED vars => IInv'
    BY DEF IInv, vars, Types, CheckIsAwaited, QueueIsCurrent, RunningIsScheduled, Last
  <2> QED
    BY <2>1, NetworkStep, MainThreadStep, SerialQueueStep DEF Next
<1> QED
  BY <1>1, <1>2, PTL DEF Spec

\* From the initial check on no change of the network is lost between
\* SetDispatchQueue and notifierRunning, and a start that failed leaves no
\* callback behind, for any flags and any number of waiting callbacks; every
\* variable keeps its type, and the initialiser waits for its check.
THEOREM FlagsAreTracked == Spec => [](TypeOK /\ FlagsFollowNetwork /\ FailedStartIsDeaf)
<1>1. IInv => FlagsFollowNetwork
  <2> SUFFICES ASSUME IInv, scheduled, pc \in {"running", "read", "done"}, serialQueue # <<>>
               PROVE  Last(serialQueue) = network
    BY DEF IInv, QueueIsCurrent, FlagsFollowNetwork
  <2>1. Len(serialQueue) \in 1..Len(serialQueue)
    BY EmptySeq DEF IInv, Types
  <2>2. Last(serialQueue) # Check
    BY <2>1 DEF IInv, CheckIsAwaited, Last
  <2> QED
    BY <2>2 DEF IInv, QueueIsCurrent
<1>2. IInv => FailedStartIsDeaf
  BY DEF IInv, Types, QueueIsCurrent, RunningIsScheduled, FailedStartIsDeaf
<1>3. IInv => TypeOK
  <2> SUFFICES ASSUME IInv PROVE TypeOK
    OBVIOUS
  <2>1. DOMAIN serialQueue = 1..Len(serialQueue)
    BY DEF IInv, Types
  <2> QED
    BY <2>1 DEF IInv, CheckIsAwaited, TypeOK
<1> QED
  BY <1>1, <1>2, <1>3, Invariance, PTL

\* After the initialiser the player's record of the connection agrees with the
\* flags or a post is on its way, whatever failed.
THEOREM RecordIsTracked == Spec => []RecordFollowsFlags
<1>1. Init => RecordFollowsFlags
  BY DEF Init, RecordFollowsFlags
<1>2. IInv /\ RecordFollowsFlags /\ [Next]_vars => RecordFollowsFlags'
  <2> SUFFICES ASSUME IInv, RecordFollowsFlags, [Next]_vars PROVE RecordFollowsFlags'
    OBVIOUS
  <2> USE FlagAssumption
  <2>1. posts \in Nat /\ network # NoFlags
    BY DEF IInv, Types
  <2>2. CASE ReadConnection \/ reachabilityChanged
    BY <2>2 DEF ReadConnection, reachabilityChanged, RecordFollowsFlags
  <2>3. CASE checkNetworkInterruption
    BY <2>1, <2>3 DEF checkNetworkInterruption, RetryFlags, setFlags, RecordFollowsFlags
  <2>4. CASE Callback
    BY <2>1, <2>4 DEF Callback, setFlags, RecordFollowsFlags
  <2>5. CASE SetCallback \/ SetDispatchQueue \/ SyncCheck \/ NotifierRuns \/ setReachabilityFlags
    BY <2>5 DEF SetCallback, SetDispatchQueue, SyncCheck, NotifierRuns, setReachabilityFlags,
                RecordFollowsFlags
  <2>6. CASE NetworkChange \/ UNCHANGED vars
    BY <2>6 DEF NetworkChange, vars, RecordFollowsFlags
  <2> QED
    BY <2>2, <2>3, <2>4, <2>5, <2>6 DEF Next, Initialiser, SerialQueue
<1> QED
  BY <1>1, <1>2, Invariance, PTL DEF Spec

\* Reachability and the player's initialiser implement the feed that the model
\* of the playback engine assumes.
THEOREM FeedRefinement == Spec => ImplementsFeed
<1> USE FlagAssumption
<1>1. Init => Feed!Init
  BY DEF Init, Feed!Init, Connection
<1>2. IInv /\ [Next]_vars => [Feed!Next]_(Feed!vars)
  <2> SUFFICES ASSUME IInv, [Next]_vars PROVE [Feed!Next]_(Feed!vars)
    OBVIOUS
  <2>1. posts \in Nat /\ network \in FlagSets /\ network # NoFlags
    BY DEF IInv, Types
  <2>2. \A f : Connection(f) \in {"none", "wifi", "cellular"}
    BY DEF Connection, connectionOf
  <2> USE DEF Feed!vars
  <2>3. CASE NetworkChange \/ UNCHANGED vars
    BY <2>3 DEF NetworkChange, vars
  <2>4. CASE SetCallback \/ SetDispatchQueue \/ SyncCheck \/ NotifierRuns
    BY <2>4 DEF SetCallback, SetDispatchQueue, SyncCheck, NotifierRuns
  <2>5. CASE ReadConnection
    <3>1. CASE flags' = flags /\ posts' = posts
      BY <2>5, <3>1 DEF ReadConnection, Feed!Next, Feed!Start
    <3>2. CASE flags' = network /\ posts' = posts + 1
      BY <2>1, <2>2, <2>5, <3>2 DEF ReadConnection, Feed!Next, Feed!Start
    <3> QED
      BY <2>1, <2>5, <3>1, <3>2 DEF ReadConnection, RetryFlags, setFlags
  <2>6. CASE Callback
    <3>1. CASE flags' = flags /\ posts' = posts
      BY <2>6, <3>1 DEF Callback
    <3>2. CASE posts' = posts + 1
      BY <2>1, <2>2, <2>6, <3>2 DEF Callback, Feed!Next, Feed!Change
    <3> QED
      BY <2>6, <3>1, <3>2 DEF Callback, setFlags
  <2>7. CASE setReachabilityFlags
    <3>1. pc = "waiting"
      <4>1. Len(serialQueue) \in Nat \ {0} /\ serialQueue[1] = Check
        BY <2>7, EmptySeq, TailFacts DEF IInv, Types, setReachabilityFlags
      <4> QED
        BY <4>1 DEF IInv, CheckIsAwaited
    <3>2. pc' # "done" /\ isConnected' = isConnected
      BY <2>7 DEF setReachabilityFlags
    <3>3. CASE flags' = flags /\ posts' = posts
      BY <3>1, <3>2, <3>3
    <3>4. CASE posts' = posts + 1
      BY <2>1, <2>2, <3>1, <3>2, <3>4 DEF Feed!Next, Feed!Change
    <3> QED
      BY <2>7, <3>3, <3>4 DEF setReachabilityFlags, setFlags
  <2>8. CASE reachabilityChanged
    BY <2>1, <2>8 DEF reachabilityChanged, Feed!Next, Feed!Notify
  <2>9. CASE checkNetworkInterruption
    <3>1. CASE flags' = flags /\ posts' = posts
      BY <2>9, <3>1 DEF checkNetworkInterruption
    <3>2. CASE posts' = posts + 1
      BY <2>1, <2>2, <2>9, <3>2 DEF checkNetworkInterruption, Feed!Next, Feed!Change
    <3> QED
      BY <2>1, <2>9, <3>1, <3>2 DEF checkNetworkInterruption, RetryFlags, setFlags
  <2> QED
    BY <2>3, <2>4, <2>5, <2>6, <2>7, <2>8, <2>9 DEF Next, Initialiser, SerialQueue
<1> QED
  BY <1>1, <1>2, Invariance, PTL DEF Spec, ImplementsFeed, Feed!Spec
=============================================================================
