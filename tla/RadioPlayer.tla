---------------------------- MODULE RadioPlayer ----------------------------
(***************************************************************************)
(* The playback engine FRadioPlayer: the fields of the shared player, the  *)
(* methods that change them, and the four ways the outside world reaches   *)
(* it: calls on the main thread, asset loads that finish on a background   *)
(* thread, notifications that hop to the main queue, and closures delayed  *)
(* by one second.                                                          *)
(*                                                                         *)
(* Every method of the class is an operator on a record that holds the     *)
(* object's fields, because methods call one another and didSet observers  *)
(* run inside assignments; an action applies one entry point as a whole.   *)
(***************************************************************************)
EXTENDS Naturals, Sequences, FiniteSets

CONSTANTS
    URLs,         \* stream addresses a client may assign to radioURL
    Assets,       \* identities of AVURLAssets, one per load: bounds the loads
    NoURL,        \* radioURL == nil
    NoItem,       \* playerItem == nil
    Links,        \* kinds of usable network connection
    isAutoPlay,   \* start playing as soon as an item is installed
    MaxQueue,     \* bound on the blocks waiting in the main queue
    MaxRechecks   \* bound on pending one-second rechecks of one item

ASSUME URLAssumption == NoURL \notin URLs
ASSUME ItemAssumption == NoItem \notin Assets
ASSUME LinkAssumption == "none" \notin Links
ASSUME AutoPlayAssumption == isAutoPlay \in BOOLEAN
ASSUME BoundAssumption == MaxQueue \in Nat \ {0} /\ MaxRechecks \in Nat \ {0}

VARIABLES
    radio,                \* the synchronous fields of FRadioPlayer, below
    radioURL,             \* the address last assigned
    overlap,              \* history: radioURL was assigned over an unfinished load
    assetURL,             \* the address each AVURLAsset was created for
    phase,                \* how far the load of each asset has come
    keepsUp,              \* isPlaybackLikelyToKeepUp of each asset's item
    rechecks,             \* pending asyncAfter closures that captured the item
    connection,           \* what Reachability.connection answers now
    isConnected,          \* FRadioPlayer's own record of it
    handling,             \* where the main thread is in reachabilityChanged
    interrupted,          \* the audio session is interrupted
    headphonesConnected,
    mainQueue             \* blocks sent by DispatchQueue.main.async, in order

loadVars    == <<radioURL, overlap, assetURL, phase>>
networkVars == <<connection, isConnected, handling>>
sessionVars == <<interrupted, headphonesConnected>>
vars == <<radio, loadVars, keepsUp, rechecks, networkVars, sessionVars, mainQueue>>

Items == Assets \cup {NoItem}
Connections == Links \cup {"none"}
FRadioPlayerState == {"urlNotSet", "readyToPlay", "loading", "loadingFinished", "error"}
FRadioPlaybackState == {"playing", "paused", "stopped"}

\* A block of the main queue; asset is NoItem unless the block ends a load.
Ops    == {"playable", "unplayable", "pause", "resume", "route", "reachability"}
Blocks == [op : Ops, asset : Items]
Block(op) == [op |-> op, asset |-> NoItem]

(***************************************************************************)
(* The object's fields.  player says whether an AVPlayer exists; rate and  *)
(* currentItem are that AVPlayer's, 0 and NoItem when there is none.       *)
(* observed is the set of items with KVO observers, notified records that  *)
(* the delegate heard of a playback change during the last main-thread     *)
(* step.                                                                   *)
(***************************************************************************)
Fields == [ state          : FRadioPlayerState,
            playbackState  : FRadioPlaybackState,
            player         : BOOLEAN,
            rate           : {0, 1},
            currentItem    : Items,
            playerItem     : Items,
            lastPlayerItem : Items,
            observed       : SUBSET Assets,
            notified       : BOOLEAN ]

----------------------------------------------------------------------------
(* AVPlayer, as FRadioPlayer uses it: rate is the requested rate, which    *)
(* only play and pause change; replaceCurrentItem keeps it.                *)

avPlay(r)  == [r EXCEPT !.rate = IF r.player THEN 1 ELSE 0]
avPause(r) == [r EXCEPT !.rate = 0]
replaceCurrentItem(r, i) == [r EXCEPT !.currentItem = IF r.player THEN i ELSE NoItem]

----------------------------------------------------------------------------
(* The methods of FRadioPlayer.                                            *)

\* playbackState's didSet tells the delegate, but only about a change.
setPlaybackState(r, s) ==
    [r EXCEPT !.playbackState = s, !.notified = @ \/ r.playbackState # s]

setState(r, s) == [r EXCEPT !.state = s]

isPlaying(r) == r.playbackState = "playing"

\* Mutant: play without the guard on player.
play_unguarded(r) == setPlaybackState(avPlay(r), "playing")

play(r) ==
    LET loaded == IF r.currentItem = NoItem /\ r.playerItem # NoItem
                  THEN replaceCurrentItem(r, r.playerItem)
                  ELSE r
    IN  IF r.player THEN setPlaybackState(avPlay(loaded), "playing") ELSE r

pause(r) ==
    IF r.player THEN setPlaybackState(avPause(r), "paused") ELSE r

\* Mutant: stop leaves the item in the AVPlayer.
stop_keepsItem(r) == IF r.player THEN setPlaybackState(r, "stopped") ELSE r

stop(r) ==
    IF r.player
    THEN replaceCurrentItem(setPlaybackState(r, "stopped"), NoItem)
    ELSE r

togglePlaying(r) == IF isPlaying(r) THEN pause(r) ELSE play(r)

\* The two halves of playerItemDidChange: leave the old item, adopt the new.
abandon(r) ==
    IF r.lastPlayerItem = NoItem THEN r
    ELSE [pause(r) EXCEPT !.observed = @ \ {r.lastPlayerItem}]

\* Mutant: adopt without asking whether there is an item.
adopt_unguarded(r) ==
    play(replaceCurrentItem([r EXCEPT !.observed = @ \cup {r.playerItem}], r.playerItem))

adopt(r) ==
    LET seen == [r EXCEPT !.observed = @ \cup {r.playerItem}]
        put  == replaceCurrentItem(seen, r.playerItem)
    IN  IF r.playerItem = NoItem THEN r
        ELSE IF isAutoPlay THEN play(put) ELSE put

playerItemDidChange(r) ==
    IF r.lastPlayerItem = r.playerItem THEN r
    ELSE adopt([abandon(r) EXCEPT !.lastPlayerItem = r.playerItem])

\* Assigning playerItem runs its didSet.
setPlayerItem(r, i) == playerItemDidChange([r EXCEPT !.playerItem = i])

setupPlayer(r, a) == setPlayerItem([r EXCEPT !.player = TRUE], a)

\* Mutant: lastPlayerItem is cleared before playerItem, so that the didSet
\* finds nothing to stop observing.
resetPlayer_forgetsFirst(r) ==
    [setPlayerItem([stop(r) EXCEPT !.lastPlayerItem = NoItem], NoItem) EXCEPT
        !.player = FALSE, !.rate = 0, !.currentItem = NoItem]

\* Dropping the AVPlayer drops its rate and its current item with it.
resetPlayer(r) ==
    [setPlayerItem(stop(r), NoItem) EXCEPT
        !.lastPlayerItem = NoItem, !.player = FALSE, !.rate = 0, !.currentItem = NoItem]

reloadItem(r) == replaceCurrentItem(replaceCurrentItem(r, NoItem), r.playerItem)

\* Mutant: the loop's answer survives.
checkHeadphonesConnection_asMeant(outputs) == "headphones" \in outputs

\* The loop sets TRUE for a headphone port, and the line after it sets FALSE.
checkHeadphonesConnection(outputs) == FALSE

\* Mutants: the closure always plays, or forgets to play.
recheck_alwaysPlays(r, item) == avPlay(IF keepsUp[item] THEN r ELSE reloadItem(r))
recheck_neverPlays(r, item) == IF keepsUp[item] THEN r ELSE reloadItem(r)

\* Mutant: the closure calls FRadioPlayer's play instead of the AVPlayer's.
recheck_startsRadio(r, item) == play(IF keepsUp[item] THEN r ELSE reloadItem(r))

\* What an asyncAfter closure does to the player: item is the one it captured.
recheck(r, item) ==
    LET fed == IF keepsUp[item] THEN r ELSE reloadItem(r)
    IN  IF isPlaying(fed) THEN avPlay(fed) ELSE avPause(fed)

----------------------------------------------------------------------------
(* Initially: the singleton after its initialiser, which started the       *)
(* reachability notifier (hence one queued post) and read the connection.  *)

Init ==
    /\ radio = [ state |-> "urlNotSet", playbackState |-> "stopped",
                 player |-> FALSE, rate |-> 0, currentItem |-> NoItem,
                 playerItem |-> NoItem, lastPlayerItem |-> NoItem,
                 observed |-> {}, notified |-> FALSE ]
    /\ radioURL = NoURL
    /\ overlap = FALSE
    /\ assetURL = [a \in Assets |-> NoURL]
    /\ phase = [a \in Assets |-> "fresh"]
    /\ keepsUp = [a \in Assets |-> FALSE]
    /\ rechecks = [a \in Assets |-> 0]
    /\ connection \in Connections
    /\ isConnected = (connection # "none")
    /\ handling = "idle"
    /\ interrupted = FALSE
    /\ headphonesConnected = checkHeadphonesConnection({})
    /\ mainQueue = <<Block("reachability")>>

\* Whatever is called on the main thread waits while a handler runs there.
MainIdle == handling = "idle"

\* Each main-thread step starts with nothing said to the delegate yet.
self == [radio EXCEPT !.notified = FALSE]

InFlight == {a \in Assets : phase[a] \in {"loading", "loaded"}}

\* DispatchQueue.main.async.  What the environment may send without end waits
\* for room; a finished load does not, as the loads are bounded by Assets.
Async(b) == mainQueue' = Append(mainQueue, b)
HasRoom  == Len(mainQueue) < MaxQueue

----------------------------------------------------------------------------
(* Calls of the client, on the main thread.                                *)

\* Mutant: the guard on the URL comes before the reset.
radioURLDidChange_guardFirst(r, u) ==
    IF u = NoURL THEN setState(r, "urlNotSet") ELSE setState(resetPlayer(r), "loading")

\* radioURL = u with its didSet: reset, then load a new asset or give up.
\* radioURLDidChange is what happens to the fields, BeginLoad to the load.
radioURLDidChange(r, u) ==
    setState(resetPlayer(r), IF u = NoURL THEN "urlNotSet" ELSE "loading")

BeginLoad(u) ==
    /\ MainIdle
    /\ radioURL' = u
    /\ overlap' = (InFlight # {})
    /\ \/ u = NoURL /\ UNCHANGED <<assetURL, phase>>
       \/ /\ u # NoURL
          /\ \E a \in Assets :
                /\ phase[a] = "fresh"
                /\ phase' = [phase EXCEPT ![a] = "loading"]
                /\ assetURL' = [assetURL EXCEPT ![a] = u]
    /\ UNCHANGED <<keepsUp, rechecks, networkVars, sessionVars, mainQueue>>

SetRadioURL ==
    \E u \in URLs \cup {NoURL} :
        BeginLoad(u) /\ radio' = radioURLDidChange(self, u)

Call(r) ==
    /\ MainIdle
    /\ radio' = r
    /\ UNCHANGED <<loadVars, keepsUp, rechecks, networkVars, sessionVars, mainQueue>>

Play   == Call(play(self))
Pause  == Call(pause(self))
Stop   == Call(stop(self))
Toggle == Call(togglePlaying(self))

Client == SetRadioURL \/ Play \/ Pause \/ Stop \/ Toggle

----------------------------------------------------------------------------
(* What other threads do: every one of them only sends a block to main.    *)

\* loadValuesAsynchronously calls back; whether it worked is read on main.
preparePlayer(a) ==
    /\ phase[a] = "loading"
    /\ phase' = [phase EXCEPT ![a] = "loaded"]
    /\ \E op \in {"playable", "unplayable"} : Async([op |-> op, asset |-> a])
    /\ UNCHANGED <<radio, radioURL, overlap, assetURL, keepsUp, rechecks,
                   networkVars, sessionVars>>

\* A call comes in: the system may already have paused the AVPlayer.
InterruptionBegan ==
    /\ ~interrupted /\ HasRoom
    /\ interrupted' = TRUE
    /\ radio' \in {radio, avPause(radio)}
    /\ Async(Block("pause"))
    /\ UNCHANGED <<loadVars, keepsUp, rechecks, networkVars, headphonesConnected>>

\* It ends; without options in the notification nothing is sent.
InterruptionEnded ==
    /\ interrupted /\ HasRoom
    /\ interrupted' = FALSE
    /\ \/ \E op \in {"resume", "pause"} : Async(Block(op))
       \/ UNCHANGED mainQueue
    /\ UNCHANGED <<radio, loadVars, keepsUp, rechecks, networkVars, headphonesConnected>>

\* A device appears (only the headphone flag) or disappears (a block too).
handleRouteChange ==
    /\ \E outputs \in SUBSET {"headphones", "speaker"} :
          headphonesConnected' = checkHeadphonesConnection(outputs)
    /\ \/ UNCHANGED mainQueue
       \/ HasRoom /\ Async(Block("route"))
    /\ UNCHANGED <<radio, loadVars, keepsUp, rechecks, networkVars, interrupted>>

\* Reachability.flags changes, with or without the connection they stand for:
\* what they mean is visible at once, the post comes from the main queue.
FlagsChange ==
    /\ connection' \in Connections
    /\ HasRoom /\ Async(Block("reachability"))
    /\ UNCHANGED <<radio, loadVars, keepsUp, rechecks, isConnected, handling, sessionVars>>

Background ==
    \/ \E a \in Assets : preparePlayer(a)
    \/ InterruptionBegan
    \/ InterruptionEnded
    \/ handleRouteChange
    \/ FlagsChange

----------------------------------------------------------------------------
(* Blocks of the main queue.                                               *)

Dequeue(ops) ==
    /\ MainIdle
    /\ mainQueue # <<>>
    /\ Head(mainQueue).op \in ops
    /\ mainQueue' = Tail(mainQueue)

\* Mutant: a failed load returns without reporting the error.
LoadCompletes_ignoresFailure ==
    /\ Dequeue({"playable", "unplayable"})
    /\ phase' = [phase EXCEPT ![Head(mainQueue).asset] = "done"]
    /\ radio' = IF Head(mainQueue).op = "playable"
                THEN setupPlayer(self, Head(mainQueue).asset)
                ELSE self
    /\ UNCHANGED <<radioURL, overlap, assetURL, keepsUp, rechecks, networkVars, sessionVars>>

\* The completion handler of radioURLDidChange's load.
LoadCompletes ==
    /\ Dequeue({"playable", "unplayable"})
    /\ LET a == Head(mainQueue).asset
       IN  /\ phase' = [phase EXCEPT ![a] = "done"]
           /\ radio' = IF Head(mainQueue).op = "playable"
                       THEN setupPlayer(self, a)
                       ELSE setState(resetPlayer(self), "error")
    /\ UNCHANGED <<radioURL, overlap, assetURL, keepsUp, rechecks, networkVars, sessionVars>>

InterruptionBlock ==
    /\ Dequeue({"pause", "resume"})
    /\ radio' = IF Head(mainQueue).op = "resume" THEN play(self) ELSE pause(self)
    /\ UNCHANGED <<loadVars, keepsUp, rechecks, networkVars, sessionVars>>

RouteBlock ==
    /\ Dequeue({"route"})
    /\ radio' = IF headphonesConnected THEN self ELSE pause(self)
    /\ UNCHANGED <<loadVars, keepsUp, rechecks, networkVars, sessionVars>>

\* The guard of checkNetworkInterruption, with a read of the connection.
NeedsRecheck(r) ==
    /\ r.playerItem # NoItem
    /\ ~keepsUp[r.playerItem]
    /\ connection # "none"

\* Silence the AVPlayer and look again in a second.
checkNetworkInterruption(r) ==
    \/ /\ NeedsRecheck(r)
       /\ rechecks[r.playerItem] < MaxRechecks
       /\ rechecks' = [rechecks EXCEPT ![r.playerItem] = @ + 1]
       /\ radio' = avPause(r)
    \/ /\ ~NeedsRecheck(r)
       /\ radio' = r
       /\ UNCHANGED rechecks

(***************************************************************************)
(* reachabilityChanged reads the connection up to three times, while the   *)
(* serial queue of Reachability may write its flags: each read is a step   *)
(* of its own, between which other threads run.  The first decides whether *)
(* to check, the second is the guard of the check, the third is recorded.  *)
(***************************************************************************)

\* The bound on closures, asked before the handler starts: an item has room.
RoomToRecheck == radio.playerItem # NoItem => rechecks[radio.playerItem] < MaxRechecks

\* Mutant: the record is not asked whether there was an outage.
reachabilityChanged_neverChecks ==
    /\ Dequeue({"reachability"})
    /\ handling' = "record"
    /\ radio' = self
    /\ UNCHANGED <<loadVars, keepsUp, rechecks, connection, isConnected, sessionVars>>

reachabilityChanged ==
    /\ Dequeue({"reachability"})
    /\ \/ connection # "none" /\ ~isConnected /\ RoomToRecheck /\ handling' = "check"
       \/ (connection = "none" \/ isConnected) /\ handling' = "record"
    /\ radio' = self
    /\ UNCHANGED <<loadVars, keepsUp, rechecks, connection, isConnected, sessionVars>>

CheckInterruption ==
    /\ handling = "check"
    /\ handling' = "record"
    /\ checkNetworkInterruption(self)
    /\ UNCHANGED <<loadVars, keepsUp, connection, isConnected, sessionVars, mainQueue>>

\* Mutant: isConnected is only written on recovery.
RecordConnection_onlyOnRecovery ==
    /\ handling = "record"
    /\ handling' = "idle"
    /\ isConnected' = (isConnected \/ connection # "none")
    /\ radio' = self
    /\ UNCHANGED <<loadVars, keepsUp, rechecks, connection, sessionVars, mainQueue>>

RecordConnection ==
    /\ handling = "record"
    /\ handling' = "idle"
    /\ isConnected' = (connection # "none")
    /\ radio' = self
    /\ UNCHANGED <<loadVars, keepsUp, rechecks, connection, sessionVars, mainQueue>>

MainQueueBlock ==
    \/ LoadCompletes \/ InterruptionBlock \/ RouteBlock
    \/ reachabilityChanged \/ CheckInterruption \/ RecordConnection

----------------------------------------------------------------------------
(* The other callbacks on the main thread: delayed closures and KVO.       *)

Recheck(a) ==
    /\ MainIdle
    /\ rechecks[a] > 0
    /\ rechecks' = [rechecks EXCEPT ![a] = @ - 1]
    /\ radio' = recheck(self, a)
    /\ UNCHANGED <<loadVars, keepsUp, networkVars, sessionVars, mainQueue>>

\* "status": the AVPlayer's status, of which two values matter.
ObserveStatus ==
    /\ radio.playerItem \in radio.observed
    /\ \E s \in {"readyToPlay", "error"} : Call(setState(self, s))

ObserveBufferEmpty ==
    /\ MainIdle
    /\ radio.playerItem \in radio.observed
    /\ checkNetworkInterruption(setState(self, "loading"))
    /\ UNCHANGED <<loadVars, keepsUp, networkVars, sessionVars, mainQueue>>

\* "playbackLikelyToKeepUp": the observed item's flag flips.
ObserveLikelyToKeepUp ==
    /\ MainIdle
    /\ \E item \in radio.observed :
          /\ keepsUp' = [keepsUp EXCEPT ![item] = ~@]
          /\ radio' = IF item = radio.playerItem
                      THEN setState(self, IF keepsUp'[item] THEN "loadingFinished" ELSE "loading")
                      ELSE self
    /\ UNCHANGED <<loadVars, rechecks, networkVars, sessionVars, mainQueue>>

MainThread ==
    \/ MainQueueBlock
    \/ \E a \in Assets : Recheck(a)
    \/ ObserveStatus
    \/ ObserveBufferEmpty
    \/ ObserveLikelyToKeepUp

Next == Client \/ Background \/ MainThread

Spec == Init /\ [][Next]_vars

\* The main run loop drains its queue, delayed closures fire, and every
\* asset load calls back; nobody has to tap, call or reconnect.  A block or a
\* closure that is due stays so until it runs.  Fairness on them is strong
\* because the main thread may be busy with a handler in between, and because
\* MaxRechecks can hold a reachability block back for a while.
Fairness ==
    /\ SF_vars(MainQueueBlock)
    /\ \A a \in Assets : SF_vars(Recheck(a)) /\ WF_vars(preparePlayer(a))

FairSpec == Spec /\ Fairness

----------------------------------------------------------------------------
(* Correctness.                                                            *)

\* The type of every variable.
TypeOK ==
    /\ radio \in Fields
    /\ radioURL \in URLs \cup {NoURL}
    /\ overlap \in BOOLEAN
    /\ assetURL \in [Assets -> URLs \cup {NoURL}]
    /\ phase \in [Assets -> {"fresh", "loading", "loaded", "done"}]
    /\ keepsUp \in [Assets -> BOOLEAN]
    /\ rechecks \in [Assets -> 0..MaxRechecks]
    /\ connection \in Connections
    /\ isConnected \in BOOLEAN
    /\ handling \in {"idle", "check", "record"}
    /\ interrupted \in BOOLEAN
    /\ headphonesConnected \in BOOLEAN
    /\ mainQueue \in Seq(Blocks)

\* Between two steps exactly the current item carries KVO observers, so that
\* playerItemDidChange never removes an observer that was not added (an
\* NSException) and never leaves one on an item it lets go of.
ObserversBalanced ==
    /\ radio.lastPlayerItem = radio.playerItem
    /\ radio.observed = {radio.playerItem} \ {NoItem}

\* playbackState never says playing without an AVPlayer that holds the item,
\* whatever resets, failed loads and reloads came in between.
PlayingHasItem ==
    isPlaying(radio) => /\ radio.player
                        /\ radio.currentItem = radio.playerItem
                        /\ radio.playerItem # NoItem

\* No sound without the state that says so: the AVPlayer runs with an item
\* only while playbackState is playing, also after a delayed recheck.
AudibleOnlyWhenPlaying ==
    radio.rate = 1 /\ radio.currentItem # NoItem => isPlaying(radio)

\* The other way round there are exactly two excuses for a silent player that
\* says playing: a recheck is pending, or the interruption's pause is queued.
SilentPlayingHasCause ==
    isPlaying(radio) /\ radio.rate = 0 =>
        \/ \E a \in Assets : rechecks[a] > 0
        \/ \E i \in DOMAIN mainQueue : mainQueue[i].op = "pause"

\* The station in the player is the one radioURL names, unless radioURL was
\* assigned while an earlier load was unfinished: radioURLDidChange's
\* completion handler does not ask whether its asset is still wanted.
OnlyOverlapPlaysAnotherStation ==
    ~overlap /\ radio.playerItem # NoItem => assetURL[radio.playerItem] = radioURL

\* FRadioPlayer's record of the connection is right or about to be corrected:
\* a notification is queued or its handler has not come to its last line.
ConnectivityViewSettles ==
    \/ isConnected = (connection # "none")
    \/ handling # "idle"
    \/ \E i \in DOMAIN mainQueue : mainQueue[i].op = "reachability"

\* When the block sent for a begun interruption or a lost output device runs,
\* the AVPlayer is silent afterwards, whatever happened while it was queued.
PauseBlocksSilence ==
    [][mainQueue # <<>> /\ mainQueue' = Tail(mainQueue) /\ Head(mainQueue).op \in {"pause", "route"}
         => radio'.rate = 0]_vars

\* A radio that does not play starts to only by the client, by a load that
\* becomes playable, or by an interruption that ends with shouldResume: no
\* delayed recheck, reconnection, route change or KVO callback undoes the
\* listener's pause or stop.
StartsAreAskedFor ==
    [][~isPlaying(radio) /\ isPlaying(radio') =>
         \/ Client
         \/ /\ mainQueue # <<>> /\ mainQueue' = Tail(mainQueue)
            /\ Head(mainQueue).op \in {"playable", "resume"}]_vars

\* Every load that starts ends with a playing radio or a reported error.
LoadSettles ==
    (\E a \in Assets : phase[a] = "loading")
        ~> (isAutoPlay => isPlaying(radio)) \/ radio.state = "error"

Stalled(a) == radio.playerItem = a /\ ~keepsUp[a]

\* While FRadioPlayer has an outage on record and there is a connection again, a
\* stalled item is rechecked, or no item stalls, unless the connection goes once
\* more: only a handler that made its first read before the connection came is
\* excused, because its last read then puts the connection on record unchecked.
RecoveryIsNoticed ==
    /\ ~isConnected /\ connection # "none" /\ handling # "record"
    /\ \E a \in Assets : Stalled(a)
    ~> connection = "none" \/ \A a \in Assets : Stalled(a) => rechecks[a] > 0

----------------------------------------------------------------------------
(* What FRadioPlayer promises its clients, with the AVPlayer hidden.       *)

Promise == INSTANCE Playback WITH
    loaded   <- radio.playerItem # NoItem,
    playback <- radio.playbackState,
    audible  <- radio.rate = 1 /\ radio.currentItem # NoItem

\* Whatever calls, blocks, closures and KVO callbacks interleave, the player
\* takes only steps of the abstract Playback: it goes audible only by Play,
\* Install or Resume, and nothing but Install moves an unloaded player.
ImplementsPlayback == Promise!Spec

\* The same with Playback's fairness: silence while playing gets resolved.
ImplementsFairPlayback == Promise!FairSpec

----------------------------------------------------------------------------
(* Comments of the source, taken at their word; the code breaks them.      *)

\* "Wait 1 sec to recheck and make sure the reload is needed": a recheck that
\* reloads finds the item it reloads unable to keep up.
ReloadOnlyWhenNeeded ==
    [][\A a \in Assets :
          rechecks'[a] < rechecks[a] /\ ~keepsUp[a] /\ radio.playerItem # NoItem
             => ~keepsUp[radio.playerItem]]_vars

\* "Check if the internet connection was lost" and "Check if the playback could
\* keep up after a network interruption": once the network is back for good, an
\* item that stalled in an outage is rechecked, or recovers by itself.
ConnectionLossNoticed ==
    <>[](connection # "none") =>
        \A a \in Assets :
            [](connection = "none" /\ Stalled(a) => <>(~Stalled(a) \/ rechecks[a] > 0))
=============================================================================
