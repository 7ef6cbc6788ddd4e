------------------------- MODULE PlaybackRefinement -------------------------
(***************************************************************************)
(* RadioPlayer implements Playback: every step of the engine is one step   *)
(* of the abstract player or leaves it alone.                              *)
(***************************************************************************)
EXTENDS RadioPlayerProofs

\* The mapped variables, as functions of the fields.
Loaded(r)  == r.playerItem # NoItem
Audible(r) == r.rate = 1 /\ r.currentItem # NoItem

\* Playback's next-state relation, between two values of the fields.
Goes(t, l, s, h) ==
    /\ Loaded(t) = l
    /\ t.playbackState = s
    /\ Audible(t) = h

Moves(r, t) ==
    \/ Goes(t, Loaded(r), r.playbackState, Audible(r))
    \/ Loaded(r) /\ Goes(t, TRUE, "playing", TRUE)
    \/ Loaded(r) /\ Goes(t, TRUE, "paused", FALSE)
    \/ Loaded(r) /\ Goes(t, TRUE, "stopped", FALSE)
    \/ Goes(t, TRUE, "playing", TRUE)
    \/ Goes(t, TRUE, IF Loaded(r) THEN "paused" ELSE r.playbackState, FALSE)
    \/ Loaded(r) /\ Goes(t, FALSE, "paused", FALSE)
    \/ Loaded(r) /\ Audible(r) /\ Goes(t, TRUE, r.playbackState, FALSE)
    \/ Loaded(r) /\ isPlaying(r) /\ ~Audible(r) /\ Goes(t, TRUE, "playing", TRUE)

\* The controls: play is the abstract Play, pause the abstract Pause and stop
\* the abstract Stop, each of them nothing without a player.
LEMMA ControlsMove ==
    ASSUME NEW r, RadioInv(r)
    PROVE  /\ Moves(r, play(r))
           /\ Moves(r, pause(r))
           /\ Moves(r, stop(r))
           /\ Moves(r, togglePlaying(r))
  <1>1. CASE ~r.player
    BY <1>1 DEF play, pause, stop, togglePlaying, Moves, Goes
  <1>2. CASE r.player
    <2>1. isPlaying(play(r))
      BY <1>2 DEF RadioInv, play, setPlaybackState, avPlay, replaceCurrentItem, isPlaying, Fields
    <2>2. /\ RadioInv(play(r))
          /\ play(r).playerItem = r.playerItem
          /\ play(r).rate = 1
      BY <2>1, PlayKeeps
    <2>3. Loaded(r) /\ Goes(play(r), TRUE, "playing", TRUE)
      BY <1>2, <2>1, <2>2 DEF RadioInv, Goes, Loaded, Audible, isPlaying
    <2>4. pause(r).playbackState = "paused"
      BY <1>2 DEF RadioInv, pause, setPlaybackState, avPause, Fields
    <2>5. pause(r).playerItem = r.playerItem /\ pause(r).rate = 0
      BY PauseKeeps
    <2>6. Goes(pause(r), TRUE, "paused", FALSE)
      BY <1>2, <2>4, <2>5 DEF RadioInv, Goes, Loaded, Audible
    <2>7. stop(r).playbackState = "stopped"
      BY <1>2 DEF RadioInv, stop, setPlaybackState, replaceCurrentItem, Fields
    <2>8. stop(r).playerItem = r.playerItem /\ stop(r).currentItem = NoItem
      BY StopKeeps
    <2>9. Goes(stop(r), TRUE, "stopped", FALSE)
      BY <1>2, <2>7, <2>8 DEF RadioInv, Goes, Loaded, Audible
    <2> QED
      BY <2>3, <2>6, <2>9 DEF Moves, togglePlaying
  <1> QED
    BY <1>1, <1>2

\* The methods that assign playerItem: resetPlayer unloads a loaded player and
\* leaves an unloaded one alone, setupPlayer installs.
LEMMA ItemChangesMove ==
    ASSUME NEW r, RadioInv(r)
    PROVE  /\ \A s \in FRadioPlayerState : Moves(r, setState(resetPlayer(r), s))
           /\ \A a \in Assets : r.playerItem # a => Moves(r, setupPlayer(r, a))
  <1>1. ASSUME NEW s \in FRadioPlayerState PROVE Moves(r, setState(resetPlayer(r), s))
    <2> DEFINE t == setState(resetPlayer(r), s)
    <2>1. /\ RadioInv(resetPlayer(r))
          /\ resetPlayer(r).playerItem = NoItem
          /\ resetPlayer(r).playbackState = IF r.player THEN "paused" ELSE r.playbackState
      BY ResetEmpties
    <2>2. /\ RadioInv(t)
          /\ t.playerItem = NoItem
          /\ t.playbackState = IF r.player THEN "paused" ELSE r.playbackState
      BY <2>1, SetStateKeeps
    <2> HIDE DEF t
    <2>3. Loaded(t) = FALSE /\ Audible(t) = FALSE
      BY <2>2 DEF RadioInv, Loaded, Audible
    <2>4. CASE r.player
      <3>1. Loaded(r) /\ Goes(t, FALSE, "paused", FALSE)
        BY <2>2, <2>3, <2>4 DEF RadioInv, Loaded, Goes
      <3> QED
        BY <3>1 DEF Moves, t
    <2>5. CASE ~r.player
      <3>1. Loaded(r) = FALSE /\ Audible(r) = FALSE
        BY <2>5 DEF RadioInv, Loaded, Audible
      <3>2. Goes(t, Loaded(r), r.playbackState, Audible(r))
        BY <2>2, <2>3, <2>5, <3>1 DEF Goes
      <3> QED
        BY <3>2 DEF Moves, t
    <2> QED
      BY <2>4, <2>5
  <1>2. ASSUME NEW a \in Assets, r.playerItem # a PROVE Moves(r, setupPlayer(r, a))
    <2> DEFINE t == setupPlayer(r, a)
    <2>1. /\ t.playerItem = a /\ t.currentItem = a /\ a # NoItem
          /\ isPlaying(t) => t.rate = 1
          /\ ~isPlaying(t) => /\ t.rate = 0
                              /\ t.playbackState = IF r.player THEN "paused" ELSE r.playbackState
      BY <1>2, SetupInstalls, ItemAssumption
    <2> HIDE DEF t
    <2>2. CASE isPlaying(t)
      <3>1. Goes(t, TRUE, "playing", TRUE)
        BY <2>1, <2>2 DEF Goes, Loaded, Audible, isPlaying
      <3> QED
        BY <3>1 DEF Moves, t
    <2>3. CASE ~isPlaying(t)
      <3>1. Goes(t, TRUE, IF Loaded(r) THEN "paused" ELSE r.playbackState, FALSE)
        BY <2>1, <2>3 DEF Goes, Loaded, Audible, RadioInv
      <3> QED
        BY <3>1 DEF Moves, t
    <2> QED
      BY <2>2, <2>3
  <1> QED
    BY <1>1, <1>2

\* What happens behind the state: silencing the AVPlayer is a stall or nothing, a
\* recheck resumes a silent playing radio or changes nothing.
LEMMA HiddenChangesMove ==
    ASSUME NEW r, RadioInv(r)
    PROVE  Moves(r, avPause(r)) /\ \A i : Moves(r, recheck(r, i))
  <1>1. Moves(r, avPause(r))
    <2>1. /\ avPause(r).playerItem = r.playerItem
          /\ avPause(r).playbackState = r.playbackState
          /\ avPause(r).rate = 0
      BY AvPauseKeeps
    <2>2. CASE Audible(r)
      <3>1. Loaded(r) /\ Goes(avPause(r), TRUE, r.playbackState, FALSE)
        BY <2>1, <2>2 DEF Goes, Loaded, Audible, RadioInv
      <3> QED
        BY <2>2, <3>1 DEF Moves
    <2>3. CASE ~Audible(r)
      <3>1. Goes(avPause(r), Loaded(r), r.playbackState, Audible(r))
        BY <2>1, <2>3 DEF Goes, Loaded, Audible
      <3> QED
        BY <3>1 DEF Moves
    <2> QED
      BY <2>2, <2>3
  <1>2. ASSUME NEW i PROVE Moves(r, recheck(r, i))
    <2> DEFINE t == recheck(r, i)
    <2>1. /\ RadioInv(t)
          /\ t.playerItem = r.playerItem
          /\ t.playbackState = r.playbackState
          /\ t.rate = IF isPlaying(r) THEN 1 ELSE 0
      BY RecheckKeeps
    <2> HIDE DEF t
    <2>2. CASE isPlaying(r)
      <3>1. Loaded(r) /\ Goes(t, TRUE, "playing", TRUE)
        BY <2>1, <2>2 DEF RadioInv, Goes, Loaded, Audible, isPlaying
      <3> QED
        BY <3>1 DEF Moves, t
    <2>3. CASE ~isPlaying(r)
      <3>1. Goes(t, Loaded(r), r.playbackState, Audible(r))
        BY <2>1, <2>3 DEF RadioInv, Goes, Loaded, Audible
      <3> QED
        BY <3>1 DEF Moves, t
    <2> QED
      BY <2>2, <2>3
  <1> QED
    BY <1>1, <1>2

\* Changes that Playback does not see.
LEMMA SameMoves ==
    ASSUME NEW r, NEW t, t.playerItem = r.playerItem, t.playbackState = r.playbackState,
           t.rate = r.rate, t.currentItem = r.currentItem
    PROVE  Moves(r, t)
  BY DEF Moves, Goes, Loaded, Audible

\* Every step of the engine, seen through the fields.
LEMMA EveryStepMoves == IInv /\ [Next]_vars => Moves(radio, radio')
  <1> SUFFICES ASSUME IInv, [Next]_vars PROVE Moves(radio, radio')
    OBVIOUS
  <1>1. /\ RadioInv(self)
        /\ self.playerItem = radio.playerItem
        /\ self.playbackState = radio.playbackState
        /\ self.rate = radio.rate
        /\ self.currentItem = radio.currentItem
    BY SelfKeeps DEF IInv
  <1>2. ASSUME NEW t, Moves(self, t) PROVE Moves(radio, t)
    BY <1>1, <1>2 DEF Moves, Goes, Loaded, Audible, isPlaying
  <1>3. \A s \in FRadioPlayerState :
            /\ RadioInv(setState(self, s))
            /\ setState(self, s).playerItem = radio.playerItem
            /\ setState(self, s).playbackState = radio.playbackState
            /\ setState(self, s).rate = radio.rate
            /\ setState(self, s).currentItem = radio.currentItem
    BY <1>1, SetStateKeeps
  <1>4. ASSUME NEW r, RadioInv(r), r.playerItem = radio.playerItem,
               r.playbackState = radio.playbackState, r.rate = radio.rate,
               r.currentItem = radio.currentItem, checkNetworkInterruption(r)
        PROVE  Moves(radio, radio')
    <2>1. radio' = avPause(r) \/ radio' = r
      BY <1>4 DEF checkNetworkInterruption
    <2>2. Moves(r, avPause(r))
      BY <1>4, HiddenChangesMove
    <2>3. Moves(radio, avPause(r))
      BY <1>4, <2>2 DEF Moves, Goes, Loaded, Audible, isPlaying
    <2> QED
      BY <1>4, <2>1, <2>3, SameMoves
  <1>5. CASE SetRadioURL
    BY <1>1, <1>2, <1>5, ItemChangesMove DEF SetRadioURL, radioURLDidChange, FRadioPlayerState
  <1>6. CASE Play \/ Pause \/ Stop \/ Toggle
    BY <1>1, <1>2, <1>6, ControlsMove
       DEF Play, Pause, Stop, Toggle, Call
  <1>7. CASE Background
    <2>1. radio' = radio \/ radio' = avPause(radio)
      BY <1>7 DEF Background, preparePlayer, InterruptionBegan, InterruptionEnded,
         handleRouteChange, FlagsChange
    <2> QED
      BY <2>1, HiddenChangesMove, SameMoves DEF IInv
  <1>8. CASE LoadCompletes
    <2> DEFINE a == Head(mainQueue).asset
    <2>1. /\ Dequeue(LoadOps)
          /\ phase' = [phase EXCEPT ![a] = "done"]
          /\ radio' = IF Head(mainQueue).op = "playable"
                      THEN setupPlayer(self, a) ELSE setState(resetPlayer(self), "error")
      BY <1>8 DEF LoadCompletes, LoadOps
    <2>2. Head(mainQueue).op \in LoadOps
      BY <2>1 DEF Dequeue
    <2>3. a \in Assets /\ phase[a] = "loaded"
      BY <2>1, <2>2, DequeueKeeps DEF IInv
    <2>4. self.playerItem # a
      BY <1>1, <2>3, ItemAssumption DEF IInv, LoadInv
    <2>5. Moves(self, setupPlayer(self, a))
      BY <1>1, <2>3, <2>4, ItemChangesMove
    <2>6. Moves(self, setState(resetPlayer(self), "error"))
      BY <1>1, ItemChangesMove DEF FRadioPlayerState
    <2> QED
      BY <1>2, <2>1, <2>5, <2>6
  <1>9. CASE InterruptionBlock
    BY <1>1, <1>2, <1>9, ControlsMove DEF InterruptionBlock
  <1>10. CASE RouteBlock
    BY <1>1, <1>2, <1>10, ControlsMove DEF RouteBlock, IInv
  <1>11. CASE reachabilityChanged \/ CheckInterruption \/ RecordConnection
    <2>1. checkNetworkInterruption(self) \/ radio' = self
      BY <1>11 DEF reachabilityChanged, CheckInterruption, RecordConnection
    <2> QED
      BY <1>1, <1>4, <2>1, SameMoves
  <1>12. CASE \E a \in Assets : Recheck(a)
    BY <1>1, <1>2, <1>12, HiddenChangesMove DEF Recheck
  <1>13. CASE ObserveStatus
    BY <1>3, <1>13, SameMoves DEF ObserveStatus, Call, FRadioPlayerState
  <1>14. CASE ObserveBufferEmpty
    BY <1>3, <1>4, <1>14 DEF ObserveBufferEmpty, FRadioPlayerState
  <1>15. CASE ObserveLikelyToKeepUp
    <2>1. radio' = self \/ \E s \in FRadioPlayerState : radio' = setState(self, s)
      BY <1>15 DEF ObserveLikelyToKeepUp, FRadioPlayerState
    <2> QED
      BY <1>1, <1>3, <2>1, SameMoves
  <1>16. CASE UNCHANGED vars
    BY <1>16, SameMoves DEF vars
  <1> QED
    BY <1>5, <1>6, <1>7, <1>8, <1>9, <1>10, <1>11, <1>12, <1>13, <1>14, <1>15, <1>16
       DEF Next, Client, MainThread, MainQueueBlock

\* FRadioPlayer implements the abstract player, for every set of addresses,
\* any number of loads and every bound.
THEOREM Refinement == Spec => ImplementsPlayback
  <1>1. Init => Promise!Init
    BY DEF Init, Promise!Init
  <1>2. IInv /\ [Next]_vars => [Promise!Next]_Promise!vars
    <2> SUFFICES ASSUME IInv, [Next]_vars PROVE [Promise!Next]_Promise!vars
      OBVIOUS
    <2>1. Moves(radio, radio')
      BY EveryStepMoves
    <2> QED
      BY <2>1 DEF Moves, Goes, Loaded, Audible, isPlaying, Promise!Next, Promise!vars,
         Promise!Play, Promise!Pause, Promise!Stop, Promise!Install, Promise!Unload,
         Promise!Stall, Promise!Resume
  <1> QED
    BY <1>1, <1>2, Invariance, PTL DEF Spec, ImplementsPlayback, Promise!Spec

\* When the block of a begun interruption or of a lost output device runs, the
\* AVPlayer is silent afterwards.
THEOREM PauseBlocksDoSilence == Spec => PauseBlocksSilence
  <1> DEFINE A == mainQueue # <<>> /\ mainQueue' = Tail(mainQueue)
                    /\ Head(mainQueue).op \in {"pause", "route"} => radio'.rate = 0
  <1>1. IInv /\ [Next]_vars => [A]_vars
    <2> SUFFICES ASSUME IInv, Next, mainQueue # <<>>, mainQueue' = Tail(mainQueue),
                        Head(mainQueue).op \in {"pause", "route"}
                 PROVE  radio'.rate = 0
      OBVIOUS
    <2>1. /\ RadioInv(self)
          /\ mainQueue \in Seq(Blocks)
      BY SelfKeeps DEF IInv, TypeOK
    <2>2. /\ pause(self).rate = 0
      BY <2>1, PauseKeeps
    <2>3. Len(Tail(mainQueue)) = Len(mainQueue) - 1 /\ Len(mainQueue) \in Nat
      BY <2>1, TailFacts
    <2>4. mainQueue' # mainQueue
      <3>1. \A n \in Nat : n - 1 # n
        OBVIOUS
      <3> QED
        BY <2>3, <3>1
    <2>5. \A b \in Blocks : ~Async(b)
      <3> SUFFICES ASSUME NEW b \in Blocks, Async(b) PROVE FALSE
        OBVIOUS
      <3>1. Len(mainQueue') = Len(mainQueue) + 1
        BY <2>1, AppendFacts DEF Async
      <3> QED
        BY <2>3, <3>1
    <2>6. Block("pause") \in Blocks /\ Block("resume") \in Blocks /\ Block("route") \in Blocks
          /\ Block("reachability") \in Blocks
          /\ \A a \in Assets, op \in {"playable", "unplayable"} : [op |-> op, asset |-> a] \in Blocks
      BY DEF Block, Blocks, Ops, Items
    <2>7. ~Background
      BY <2>4, <2>5, <2>6 DEF Background, preparePlayer, InterruptionBegan, InterruptionEnded,
         handleRouteChange, FlagsChange
    <2>8. ~Client
      BY <2>4 DEF Client, SetRadioURL, BeginLoad, Play, Pause, Stop, Toggle, Call
    <2>9. MainQueueBlock
      BY <2>4, <2>7, <2>8 DEF Next, MainThread, Recheck, ObserveStatus, ObserveBufferEmpty,
         ObserveLikelyToKeepUp, Call
    <2>10. /\ ~LoadCompletes /\ ~reachabilityChanged
           /\ ~CheckInterruption /\ ~RecordConnection
      BY <2>4 DEF LoadCompletes, reachabilityChanged, CheckInterruption, RecordConnection, Dequeue
    <2> QED
      BY <2>2, <2>9, <2>10 DEF MainQueueBlock, InterruptionBlock, RouteBlock, IInv, Dequeue
  <1> QED
    BY <1>1, Invariance, PTL DEF Spec, PauseBlocksSilence

\* A radio that does not play starts only by the client, by a load that becomes
\* playable or by an interruption that ends with shouldResume: the delayed
\* rechecks, the network, the route and the KVO callbacks keep playbackState.
THEOREM StartsHaveACause == Spec => StartsAreAskedFor
  <1> DEFINE A == ~isPlaying(radio) /\ isPlaying(radio') =>
                    \/ Client
                    \/ /\ mainQueue # <<>> /\ mainQueue' = Tail(mainQueue)
                       /\ Head(mainQueue).op \in {"playable", "resume"}
  <1>1. IInv /\ [Next]_vars => [A]_vars
    <2> SUFFICES ASSUME IInv, Next, ~isPlaying(radio), isPlaying(radio'), ~Client
                 PROVE  /\ mainQueue # <<>> /\ mainQueue' = Tail(mainQueue)
                        /\ Head(mainQueue).op \in {"playable", "resume"}
      OBVIOUS
    <2>1. /\ RadioInv(self)
          /\ self.playerItem = radio.playerItem
          /\ self.playbackState = radio.playbackState
          /\ self.rate = radio.rate
          /\ ~isPlaying(self)
      BY SelfKeeps DEF IInv
    <2>2. \A s \in FRadioPlayerState :
              /\ RadioInv(setState(self, s))
              /\ setState(self, s).playerItem = radio.playerItem
              /\ setState(self, s).playbackState = radio.playbackState
              /\ setState(self, s).rate = radio.rate
      BY <2>1, SetStateKeeps
    <2>3. ~Background
      <3>1. avPause(radio).playbackState = radio.playbackState
        BY AvPauseKeeps DEF IInv
      <3>2. Background => radio' \in {radio, avPause(radio)}
        BY DEF Background, preparePlayer, InterruptionBegan, InterruptionEnded,
           handleRouteChange, FlagsChange
      <3> QED
        BY <3>1, <3>2 DEF isPlaying
    <2>4. ~RouteBlock
      BY <2>1, PauseKeeps DEF RouteBlock
    <2>5. ~reachabilityChanged /\ ~CheckInterruption /\ ~RecordConnection
      <3>1. ~CheckInterruption
        BY <2>1, CheckNetworkKeeps DEF CheckInterruption, isPlaying
      <3> QED
        BY <2>1, <3>1 DEF reachabilityChanged, RecordConnection
    <2>6. \A a \in Assets : ~Recheck(a)
      BY <2>1, RecheckKeeps DEF Recheck, isPlaying
    <2>7. ~ObserveStatus
      BY <2>2 DEF ObserveStatus, Call, FRadioPlayerState, isPlaying
    <2>8. ~ObserveBufferEmpty
      BY <2>2, CheckNetworkKeeps DEF ObserveBufferEmpty, FRadioPlayerState, isPlaying
    <2>9. ~ObserveLikelyToKeepUp
      BY <2>1, <2>2 DEF ObserveLikelyToKeepUp, FRadioPlayerState, isPlaying
    <2>10. CASE LoadCompletes
      <3>1. /\ ~isPlaying(resetPlayer(self))
            /\ RadioInv(resetPlayer(self))
        BY <2>1, ResetEmpties
      <3>2. ~isPlaying(setState(resetPlayer(self), "error"))
        BY <3>1, SetStateKeeps DEF FRadioPlayerState, isPlaying
      <3> QED
        BY <2>10, <3>2 DEF LoadCompletes, Dequeue
    <2>11. CASE InterruptionBlock
      <3>1. ~isPlaying(pause(self))
        BY <2>1, PauseKeeps
      <3> QED
        BY <2>11, <3>1 DEF InterruptionBlock, Dequeue
    <2> QED
      BY <2>3, <2>4, <2>5, <2>6, <2>7, <2>8, <2>9, <2>10, <2>11
         DEF Next, MainThread, MainQueueBlock
  <1> QED
    BY <1>1, Invariance, PTL DEF Spec, StartsAreAskedFor
=============================================================================
