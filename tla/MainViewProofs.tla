--------------------------- MODULE MainViewProofs ---------------------------
(***************************************************************************)
(* MainViewController drives FRadioPlayer only by steps of FRadioPlayer,   *)
(* and its button agrees with the player, for every set of addresses, any  *)
(* number of loads and every bound.                                        *)
(***************************************************************************)
EXTENDS MainView, RadioPlayerProofs

(***************************************************************************)
(* The button is repainted only when the delegate is told of a change.  A  *)
(* step that says nothing must therefore leave playbackState alone: the    *)
(* methods of the engine, from fields r to fields t, are never quiet about *)
(* a change, however many of them are chained.                             *)
(***************************************************************************)
Quiet(r, t) ==
    /\ t \in Fields
    /\ ~t.notified => ~r.notified /\ t.playbackState = r.playbackState

\* The methods that end in fields of their own, one by one.
LEMMA MethodsAreQuiet ==
    ASSUME NEW r \in Fields
    PROVE  /\ Quiet(r, play(r))
           /\ Quiet(r, pause(r))
           /\ Quiet(r, stop(r))
           /\ Quiet(r, togglePlaying(r))
           /\ Quiet(r, avPause(r))
           /\ Quiet(r, avPlay(r))
           /\ \A s \in FRadioPlayerState : Quiet(r, setState(r, s))
           /\ \A i \in Items : Quiet(r, replaceCurrentItem(r, i))
           /\ \A i : Quiet(r, recheck(r, i))
  <1> USE DEF Fields, Items, FRadioPlaybackState
  <1>1. Quiet(r, avPause(r)) /\ Quiet(r, avPlay(r))
    BY DEF Quiet, avPause, avPlay
  <1>2. \A i \in Items : Quiet(r, replaceCurrentItem(r, i))
    BY DEF Quiet, replaceCurrentItem
  <1>3. \A s \in FRadioPlayerState : Quiet(r, setState(r, s))
    BY DEF Quiet, setState
  <1>4. Quiet(r, play(r))
    BY DEF Quiet, play, setPlaybackState, avPlay, replaceCurrentItem
  <1>5. Quiet(r, pause(r))
    BY DEF Quiet, pause, setPlaybackState, avPause
  <1>6. Quiet(r, stop(r))
    BY DEF Quiet, stop, setPlaybackState, replaceCurrentItem
  <1>7. ASSUME NEW i PROVE Quiet(r, recheck(r, i))
    <2> DEFINE f == IF keepsUp[i] THEN r ELSE reloadItem(r)
    <2>1. f \in Fields /\ f.notified = r.notified /\ f.playbackState = r.playbackState
      BY DEF reloadItem, replaceCurrentItem
    <2>2. recheck(r, i) = IF isPlaying(f) THEN avPlay(f) ELSE avPause(f)
      BY DEF recheck
    <2> HIDE DEF f
    <2> QED
      BY <2>1, <2>2 DEF Quiet, avPlay, avPause
  <1> QED
    BY <1>1, <1>2, <1>3, <1>4, <1>5, <1>6, <1>7 DEF togglePlaying

\* The methods that assign playerItem, whose didSet leaves the old item and
\* adopts the new one.
LEMMA ItemChangesAreQuiet ==
    ASSUME NEW r \in Fields
    PROVE  /\ Quiet(r, resetPlayer(r))
           /\ \A a \in Assets : Quiet(r, setupPlayer(r, a))
  <1>1. ASSUME NEW q \in Fields, NEW s, NEW t, Quiet(q, s), Quiet(s, t) PROVE Quiet(q, t)
    BY <1>1 DEF Quiet
  <1>2. ASSUME NEW q \in Fields PROVE Quiet(q, abandon(q)) /\ abandon(q).playerItem = q.playerItem
    <2>1. Quiet(q, pause(q)) /\ pause(q) \in Fields
      BY MethodsAreQuiet DEF Quiet
    <2>2. pause(q).playerItem = q.playerItem
      BY DEF pause, setPlaybackState, avPause, Fields
    <2> QED
      BY <2>1, <2>2 DEF abandon, Quiet, Fields
  <1>3. ASSUME NEW q \in Fields PROVE Quiet(q, adopt(q))
    <2> DEFINE seen == [q EXCEPT !.observed = q.observed \cup {q.playerItem}]
               put  == replaceCurrentItem(seen, q.playerItem)
    <2>1. CASE q.playerItem = NoItem
      BY <2>1 DEF adopt, Quiet
    <2>2. CASE q.playerItem # NoItem
      <3>1. q.playerItem \in Items /\ seen \in Fields /\ Quiet(q, seen)
        BY <2>2 DEF Quiet, Fields, Items
      <3>2. adopt(q) = IF isAutoPlay THEN play(put) ELSE put
        BY <2>2 DEF adopt
      <3> HIDE DEF seen
      <3>3. Quiet(seen, put) /\ put \in Fields
        BY <3>1, MethodsAreQuiet DEF Quiet
      <3> HIDE DEF put
      <3>4. Quiet(put, play(put))
        BY <3>3, MethodsAreQuiet
      <3>5. Quiet(q, put)
        BY <1>1, <3>1, <3>3
      <3>6. Quiet(q, play(put))
        BY <1>1, <3>4, <3>5
      <3> QED
        BY <3>2, <3>5, <3>6
    <2> QED
      BY <2>1, <2>2
  <1>4. ASSUME NEW q \in Fields, NEW i \in Items PROVE Quiet(q, setPlayerItem(q, i))
    <2> DEFINE p == [q EXCEPT !.playerItem = i]
               l == [abandon(p) EXCEPT !.lastPlayerItem = i]
    <2>1. p \in Fields /\ p.playerItem = i /\ Quiet(q, p)
      BY DEF Fields, Items, Quiet
    <2>2. setPlayerItem(q, i) = IF p.lastPlayerItem = i THEN p ELSE adopt(l)
      BY <2>1 DEF setPlayerItem, playerItemDidChange
    <2> HIDE DEF p
    <2>3. Quiet(p, abandon(p)) /\ abandon(p) \in Fields
      BY <1>2, <2>1 DEF Quiet
    <2>4. Quiet(abandon(p), l) /\ l \in Fields
      BY <2>3 DEF Quiet, Fields, Items
    <2> HIDE DEF l
    <2>5. Quiet(q, l)
      BY <1>1, <2>1, <2>3, <2>4
    <2>6. Quiet(q, adopt(l))
      BY <1>1, <1>3, <2>4, <2>5
    <2> QED
      BY <2>1, <2>2, <2>6
  <1>5. Quiet(r, resetPlayer(r))
    <2>1. Quiet(r, stop(r)) /\ stop(r) \in Fields /\ NoItem \in Items
      BY MethodsAreQuiet DEF Quiet, Items
    <2> DEFINE t == setPlayerItem(stop(r), NoItem)
    <2>2. Quiet(stop(r), t)
      BY <1>4, <2>1
    <2>3. Quiet(r, t) /\ t \in Fields
      BY <1>1, <2>1, <2>2 DEF Quiet
    <2>4. resetPlayer(r) = [t EXCEPT !.lastPlayerItem = NoItem, !.player = FALSE,
                                     !.rate = 0, !.currentItem = NoItem]
      BY DEF resetPlayer
    <2> HIDE DEF t
    <2>5. Quiet(t, resetPlayer(r))
      BY <2>3, <2>4 DEF Quiet, Fields, Items
    <2> QED
      BY <1>1, <2>3, <2>5
  <1>6. ASSUME NEW a \in Assets PROVE Quiet(r, setupPlayer(r, a))
    <2> DEFINE p == [r EXCEPT !.player = TRUE]
    <2>1. Quiet(r, p) /\ p \in Fields /\ a \in Items
      BY DEF Quiet, Fields, Items
    <2> HIDE DEF p
    <2>2. Quiet(p, setPlayerItem(p, a))
      BY <1>4, <2>1
    <2> QED
      BY <1>1, <2>1, <2>2 DEF setupPlayer, p
  <1> QED
    BY <1>5, <1>6

----------------------------------------------------------------------------
(* The view's steps, seen from the engine.                                 *)

\* Selecting the station leaves an empty player that does not play, so that the
\* play or togglePlaying that follows in the same handler does nothing.
LEMMA SelectingEmpties ==
    ASSUME RadioInv(radio), NEW u
    PROVE  /\ RadioInv(radioURLDidChange(self, u))
           /\ radioURLDidChange(self, u).playerItem = NoItem
           /\ ~isPlaying(radioURLDidChange(self, u))
           /\ radioURLDidChange(self, u).state = IF u = NoURL THEN "urlNotSet" ELSE "loading"
           /\ play(radioURLDidChange(self, u)) = radioURLDidChange(self, u)
           /\ togglePlaying(radioURLDidChange(self, u)) = radioURLDidChange(self, u)
  <1> DEFINE r == resetPlayer(self)
             s == IF u = NoURL THEN "urlNotSet" ELSE "loading"
             t == setState(r, s)
  <1>1. radioURLDidChange(self, u) = t /\ s \in FRadioPlayerState
    BY DEF radioURLDidChange, FRadioPlayerState
  <1>2. RadioInv(self)
    BY SelfKeeps
  <1>3. /\ RadioInv(r)
        /\ r.playerItem = NoItem
        /\ ~isPlaying(r)
    BY <1>2, ResetEmpties
  <1> HIDE DEF r, s
  <1>4. /\ RadioInv(t)
        /\ t.playerItem = NoItem
        /\ ~isPlaying(t)
    BY <1>1, <1>3, SetStateKeeps DEF isPlaying
  <1>5. t.state = s
    BY <1>3 DEF setState, RadioInv, Fields
  <1>6. ~t.player
    BY <1>4 DEF RadioInv
  <1>7. play(t) = t /\ togglePlaying(t) = t
    BY <1>4, <1>6 DEF play, togglePlaying
  <1> QED
    BY <1>1, <1>4, <1>5, <1>7 DEF s

\* Every step of the view and its engine is a step of the engine or leaves it
\* alone: viewDidLoad and a tap that starts are assignments of radioURL.
LEMMA ViewStepsAreEngineSteps ==
    ASSUME RadioInv(radio), stream \in URLs \cup {NoURL}, [AppNext]_appVars
    PROVE  [Next]_vars
  <1>1. ASSUME NEW u \in URLs \cup {NoURL}, BeginLoad(u), radio' = radioURLDidChange(self, u)
        PROVE  Next
    BY <1>1 DEF Next, Client, SetRadioURL
  <1>2. CASE viewDidLoad
    BY <1>1, <1>2, SelectingEmpties DEF viewDidLoad, selectStation
  <1>3. CASE playTap
    <2>1. CASE tapToPlay
      BY <1>1, <2>1, SelectingEmpties DEF tapToPlay, selectStation
    <2>2. CASE tapToPause
      BY <2>2 DEF tapToPause, Next, Client
    <2> QED
      BY <1>3, <2>1, <2>2 DEF playTap
  <1>4. CASE Remote
    BY <1>4 DEF Remote, playCommand, pauseCommand, remoteControlReceived, Next, Client
  <1>5. CASE adsData \/ socialData \/ cellForRowAt
    BY <1>5 DEF adsData, socialData, cellForRowAt
  <1>6. CASE EngineOnMain \/ EngineInBackground
    BY <1>6 DEF EngineOnMain, EngineInBackground, Next
  <1>7. CASE UNCHANGED appVars
    BY <1>7 DEF appVars
  <1> QED
    BY <1>2, <1>3, <1>4, <1>5, <1>6, <1>7 DEF AppNext

\* The engine's main-thread steps and the remote controls are quiet.
LEMMA EngineIsQuiet ==
    ASSUME IInv, MainThread \/ Play \/ Pause \/ Toggle
    PROVE  /\ radio' \in Fields
           /\ ~radio'.notified => radio'.playbackState = radio.playbackState
  <1>1. self \in Fields /\ self.playbackState = radio.playbackState
    BY DEF IInv, RadioInv, self, Fields
  <1> SUFFICES Quiet(self, radio')
    BY <1>1 DEF Quiet
  <1>2. ASSUME NEW s, NEW t, Quiet(self, s), Quiet(s, t) PROVE Quiet(self, t)
    BY <1>2 DEF Quiet
  <1>3. Quiet(self, self)
    BY <1>1 DEF Quiet
  <1>4. ASSUME NEW r, Quiet(self, r), checkNetworkInterruption(r) PROVE Quiet(self, radio')
    <2>1. radio' = avPause(r) \/ radio' = r
      BY <1>4 DEF checkNetworkInterruption
    <2>2. Quiet(r, avPause(r))
      BY <1>4, MethodsAreQuiet DEF Quiet
    <2> QED
      BY <1>2, <1>4, <2>1, <2>2
  <1>5. \A s \in FRadioPlayerState : Quiet(self, setState(self, s))
    BY <1>1, MethodsAreQuiet
  <1>6. CASE Play \/ Pause \/ Toggle
    BY <1>1, <1>6, MethodsAreQuiet DEF Play, Pause, Toggle, Call
  <1>7. CASE LoadCompletes
    <2> DEFINE a == Head(mainQueue).asset
               r == resetPlayer(self)
    <2>1. /\ Dequeue(LoadOps)
          /\ phase' = [phase EXCEPT ![a] = "done"]
          /\ radio' = IF Head(mainQueue).op = "playable" THEN setupPlayer(self, a)
                      ELSE setState(r, "error")
      BY <1>7 DEF LoadCompletes, LoadOps
    <2>2. Head(mainQueue).op \in LoadOps
      BY <2>1 DEF Dequeue
    <2>3. a \in Assets
      BY <2>1, <2>2, DequeueKeeps DEF IInv
    <2>4. Quiet(self, setupPlayer(self, a)) /\ Quiet(self, r)
      BY <1>1, <2>3, ItemChangesAreQuiet
    <2>5. Quiet(r, setState(r, "error"))
      BY <2>4, MethodsAreQuiet DEF Quiet, FRadioPlayerState
    <2> QED
      BY <1>2, <2>1, <2>4, <2>5
  <1>8. CASE InterruptionBlock \/ RouteBlock
    BY <1>1, <1>3, <1>8, MethodsAreQuiet DEF InterruptionBlock, RouteBlock
  <1>9. CASE reachabilityChanged \/ CheckInterruption \/ RecordConnection
    BY <1>3, <1>4, <1>9 DEF reachabilityChanged, CheckInterruption, RecordConnection
  <1>10. CASE \E a \in Assets : Recheck(a)
    BY <1>1, <1>10, MethodsAreQuiet DEF Recheck
  <1>11. CASE ObserveStatus
    BY <1>5, <1>11 DEF ObserveStatus, Call, FRadioPlayerState
  <1>12. CASE ObserveBufferEmpty
    BY <1>4, <1>5, <1>12 DEF ObserveBufferEmpty, FRadioPlayerState
  <1>13. CASE ObserveLikelyToKeepUp
    BY <1>3, <1>5, <1>13 DEF ObserveLikelyToKeepUp, FRadioPlayerState
  <1> QED
    BY <1>6, <1>7, <1>8, <1>9, <1>10, <1>11, <1>12, <1>13 DEF MainThread, MainQueueBlock

----------------------------------------------------------------------------
(* The invariant of the view.                                              *)

\* How many queries are unanswered: none before viewDidLoad, and the ads leave
\* room for the query that their answer sends.
QueriesBounded ==
    /\ ~viewLoaded => socialAsked = 0 /\ ~adsAsked
    /\ adsAsked => socialAsked <= 2

\* A button that offers pause while nothing plays: the player is empty, so that
\* only the end of a load can change the state that explains it.
IdlePause == image = "pause" /\ ~isPlaying(radio)

IdlePauseExplained ==
    IdlePause => /\ radio.playerItem = NoItem
                 /\ InFlight # {} \/ radio.state \in {"error", "urlNotSet"}

\* The inductive invariant of the view; IdlePauseExplained is added to it for
\* a player with isAutoPlay.
ViewInv ==
    /\ IInv
    /\ ViewTypeOK
    /\ QueriesBounded
    /\ PlayingShowsPause

\* The invariant of the view is inductive.
LEMMA ViewStep == ViewInv /\ [AppNext]_appVars => ViewInv'
  <1> SUFFICES ASSUME ViewInv, [AppNext]_appVars PROVE ViewInv'
    OBVIOUS
  <1>1. /\ IInv /\ RadioInv(radio)
        /\ stream \in URLs \cup {NoURL}
    BY DEF ViewInv, IInv, ViewTypeOK
  <1>2. IInv'
    BY <1>1, ViewStepsAreEngineSteps, StepKeeps
  <1>3. ASSUME UNCHANGED <<viewLoaded, dataVars>>, image' \in {"play", "pause"}
        PROVE  ViewTypeOK' /\ QueriesBounded'
    BY <1>3 DEF dataVars, ViewInv, ViewTypeOK, QueriesBounded
  <1>4. ASSUME MainThread \/ Play \/ Pause \/ Toggle, image' = playbackStateDidChange(radio')
        PROVE  PlayingShowsPause' /\ image' \in {"play", "pause"}
    <2>1. ~radio'.notified => radio'.playbackState = radio.playbackState
      BY <1>1, <1>4, EngineIsQuiet
    <2> QED
      BY <1>4, <2>1 DEF playbackStateDidChange, PlayingShowsPause, isPlaying, ViewInv, ViewTypeOK
  <1>5. CASE viewDidLoad
    <2>1. ~isPlaying(radio')
      BY <1>1, <1>5, SelectingEmpties DEF viewDidLoad, selectStation
    <2>2. image' \in {"play", "pause"}
      BY <1>5 DEF viewDidLoad, playbackStateDidChange, ViewInv, ViewTypeOK
    <2>3. ViewTypeOK' /\ QueriesBounded'
      BY <1>5, <2>2 DEF viewDidLoad, ViewInv, ViewTypeOK, QueriesBounded
    <2> QED
      BY <1>2, <2>1, <2>3 DEF ViewInv, PlayingShowsPause
  <1>6. CASE playTap
    <2>1. /\ UNCHANGED <<viewLoaded, dataVars>>
          /\ image' \in {"play", "pause"}
      BY <1>6 DEF playTap, tapToPlay, tapToPause
    <2>2. CASE tapToPlay
      BY <1>2, <1>3, <2>1, <2>2 DEF tapToPlay, ViewInv, PlayingShowsPause
    <2>3. CASE tapToPause
      <3>1. ~isPlaying(radio')
        BY <1>1, <2>3, SelfKeeps, PauseKeeps DEF tapToPause, Pause, Call
      <3> QED
        BY <1>2, <1>3, <2>1, <3>1 DEF ViewInv, PlayingShowsPause
    <2> QED
      BY <1>6, <2>2, <2>3 DEF playTap
  <1>7. CASE Remote
    <2>1. Play \/ Pause \/ Toggle
      BY <1>7 DEF Remote, playCommand, pauseCommand, remoteControlReceived
    <2> QED
      BY <1>2, <1>3, <1>4, <1>7, <2>1 DEF Remote, ViewInv
  <1>8. CASE adsData
    <2>1. ViewTypeOK' /\ QueriesBounded'
      <3>1. socialAsked \in 0..2 /\ adsAsked' = FALSE /\ viewLoaded
        BY <1>8 DEF adsData, ViewInv, ViewTypeOK, QueriesBounded
      <3>2. socialAsked' \in 0..3
        BY <1>8, <3>1 DEF adsData
      <3> QED
        BY <1>8, <3>1, <3>2 DEF adsData, ViewInv, ViewTypeOK, QueriesBounded
    <2> QED
      BY <1>2, <1>8, <2>1 DEF adsData, ViewInv, PlayingShowsPause, vars
  <1>9. CASE socialData
    <2>1. PICK docs \in SUBSET (URLs \cup {NoURL}) :
              /\ listed' = listed \cup docs
              /\ stream' \in IF docs = {} THEN {stream} ELSE docs
      BY <1>9 DEF socialData
    <2>2. stream' \in URLs \cup {NoURL} /\ listed' \in SUBSET (URLs \cup {NoURL})
      BY <2>1 DEF ViewInv, ViewTypeOK
    <2>3. /\ socialAsked' \in 0..3
          /\ socialAsked <= 2 => socialAsked' <= 2
          /\ socialAsked > 0
      BY <1>9 DEF socialData, ViewInv, ViewTypeOK
    <2>4. viewLoaded
      BY <2>3 DEF ViewInv, QueriesBounded
    <2>5. ViewTypeOK' /\ QueriesBounded'
      BY <1>9, <2>2, <2>3, <2>4 DEF socialData, ViewInv, ViewTypeOK, QueriesBounded
    <2> QED
      BY <1>2, <1>9, <2>5 DEF socialData, ViewInv, PlayingShowsPause, vars
  <1>10. CASE cellForRowAt
    <2>1. stream' \in URLs \cup {NoURL}
      BY <1>10 DEF cellForRowAt, ViewInv, ViewTypeOK
    <2> QED
      BY <1>2, <1>10, <2>1 DEF cellForRowAt, ViewInv, ViewTypeOK, QueriesBounded,
         PlayingShowsPause, vars
  <1>11. CASE EngineOnMain
    BY <1>2, <1>3, <1>4, <1>11 DEF EngineOnMain, ViewInv
  <1>12. CASE EngineInBackground
    <2>1. radio' \in {radio, avPause(radio)}
      BY <1>12 DEF EngineInBackground, Background, preparePlayer, InterruptionBegan,
         InterruptionEnded, handleRouteChange, FlagsChange
    <2>2. radio'.playbackState = radio.playbackState
      BY <1>1, <2>1, AvPauseKeeps
    <2> QED
      BY <1>2, <1>3, <1>12, <2>2 DEF EngineInBackground, viewVars, ViewInv, ViewTypeOK,
         PlayingShowsPause, isPlaying
  <1>13. CASE UNCHANGED appVars
    BY <1>2, <1>3, <1>13 DEF appVars, viewVars, vars, ViewInv, ViewTypeOK, PlayingShowsPause
  <1> QED
    BY <1>5, <1>6, <1>7, <1>8, <1>9, <1>10, <1>11, <1>12, <1>13 DEF AppNext

\* With isAutoPlay the explanation of an idle pause button is inductive too: what
\* can happen to an empty player that stays quiet is the end of a load, which
\* plays or fails.
LEMMA IdlePauseStep ==
    ASSUME isAutoPlay, ViewInv, IdlePauseExplained, [AppNext]_appVars
    PROVE  IdlePauseExplained'
  <1> SUFFICES ASSUME IdlePause'
               PROVE  /\ radio'.playerItem = NoItem
                      /\ InFlight' # {} \/ radio'.state \in {"error", "urlNotSet"}
    BY DEF IdlePauseExplained
  <1> DEFINE Goal == /\ radio'.playerItem = NoItem
                     /\ InFlight' # {} \/ radio'.state \in {"error", "urlNotSet"}
  <1>1. /\ IInv /\ RadioInv(radio) /\ RadioInv(self)
        /\ self.playerItem = radio.playerItem
        /\ self.playbackState = radio.playbackState
        /\ self.state = radio.state
        /\ self.player = radio.player
    BY SelfKeeps DEF ViewInv, IInv, RadioInv, self, Fields
  <1>2. ASSUME BeginLoad(stream), radio' = radioURLDidChange(self, stream) PROVE Goal
    <2>1. /\ radio'.playerItem = NoItem
          /\ radio'.state = IF stream = NoURL THEN "urlNotSet" ELSE "loading"
      BY <1>1, <1>2, SelectingEmpties
    <2>2. ASSUME stream # NoURL PROVE InFlight' # {}
      BY <1>1, <1>2, <2>2 DEF BeginLoad, InFlight, IInv, TypeOK
    <2> QED
      BY <2>1, <2>2
  <1>3. CASE viewDidLoad
    BY <1>1, <1>2, <1>3, SelectingEmpties DEF viewDidLoad, selectStation
  <1>4. CASE playTap
    <2>1. CASE tapToPlay
      BY <1>1, <1>2, <2>1, SelectingEmpties DEF tapToPlay, selectStation
    <2>2. CASE tapToPause
      BY <2>2 DEF tapToPause, IdlePause
    <2> QED
      BY <1>4, <2>1, <2>2 DEF playTap
  <1>5. ASSUME MainThread \/ Play \/ Pause \/ Toggle, image' = playbackStateDidChange(radio')
        PROVE  Goal
    <2>1. /\ ~radio'.notified
          /\ image = "pause"
          /\ ~isPlaying(radio)
      BY <1>1, <1>5, EngineIsQuiet DEF IdlePause, playbackStateDidChange, isPlaying
    <2>2. /\ radio.playerItem = NoItem
          /\ InFlight # {} \/ radio.state \in {"error", "urlNotSet"}
          /\ ~self.player
          /\ ~isPlaying(self)
      BY <1>1, <2>1 DEF IdlePauseExplained, IdlePause, RadioInv, isPlaying
    <2>3. ASSUME radio'.playerItem = NoItem, radio'.state = radio.state, UNCHANGED phase
          PROVE  Goal
      BY <2>2, <2>3 DEF InFlight
    <2>4. play(self) = self /\ pause(self) = self /\ togglePlaying(self) = self
      BY <2>2 DEF play, pause, togglePlaying
    <2>5. CASE Play \/ Pause \/ Toggle
      BY <1>1, <2>2, <2>3, <2>4, <2>5 DEF Play, Pause, Toggle, Call, loadVars
    <2>6. CASE LoadCompletes
      <3> DEFINE a == Head(mainQueue).asset
      <3>1. /\ Dequeue(LoadOps)
            /\ phase' = [phase EXCEPT ![a] = "done"]
            /\ radio' = IF Head(mainQueue).op = "playable"
                        THEN setupPlayer(self, a) ELSE setState(resetPlayer(self), "error")
        BY <2>6 DEF LoadCompletes, LoadOps
      <3>2. Head(mainQueue).op \in LoadOps
        BY <3>1 DEF Dequeue
      <3>3. a \in Assets
        BY <1>1, <3>1, <3>2, DequeueKeeps DEF IInv
      <3>4. self.playerItem # a
        BY <1>1, <2>2, <3>3, ItemAssumption
      <3>5. isPlaying(setupPlayer(self, a))
        BY <1>1, <3>3, <3>4, SetupInstalls
      <3>6. radio' = setState(resetPlayer(self), "error")
        BY <3>1, <3>5 DEF IdlePause
      <3>7. RadioInv(resetPlayer(self)) /\ resetPlayer(self).playerItem = NoItem
        BY <1>1, ResetEmpties
      <3> QED
        BY <3>6, <3>7 DEF setState, RadioInv, Fields
    <2>7. CASE InterruptionBlock \/ RouteBlock
      BY <1>1, <2>2, <2>3, <2>4, <2>7 DEF InterruptionBlock, RouteBlock, loadVars
    <2>8. CASE reachabilityChanged \/ CheckInterruption \/ RecordConnection
      <3>1. radio' = self
        BY <1>1, <2>2, <2>8 DEF reachabilityChanged, CheckInterruption, RecordConnection,
           checkNetworkInterruption, NeedsRecheck
      <3>2. UNCHANGED phase
        BY <2>8 DEF reachabilityChanged, CheckInterruption, RecordConnection, loadVars
      <3> QED
        BY <1>1, <2>2, <2>3, <3>1, <3>2
    <2>9. CASE \E a \in Assets : Recheck(a)
      <3>1. PICK a \in Assets : Recheck(a)
        BY <2>9
      <3>2. recheck(self, a).playerItem = NoItem
        BY <1>1, <2>2, RecheckKeeps
      <3> DEFINE f == IF keepsUp[a] THEN self ELSE reloadItem(self)
      <3>3. f \in Fields /\ f.state = self.state
        BY <1>1 DEF reloadItem, replaceCurrentItem, RadioInv, Fields, Items
      <3>4. recheck(self, a) = IF isPlaying(f) THEN avPlay(f) ELSE avPause(f)
        BY DEF recheck
      <3> HIDE DEF f
      <3>5. recheck(self, a).state = self.state
        BY <3>3, <3>4 DEF avPlay, avPause, Fields
      <3> QED
        BY <1>1, <2>3, <3>1, <3>2, <3>5 DEF Recheck, loadVars
    <2>10. ~(ObserveStatus \/ ObserveBufferEmpty \/ ObserveLikelyToKeepUp)
      BY <1>1, <2>2 DEF ObserveStatus, ObserveBufferEmpty, ObserveLikelyToKeepUp, RadioInv
    <2> QED
      BY <1>5, <2>5, <2>6, <2>7, <2>8, <2>9, <2>10 DEF MainThread, MainQueueBlock
  <1>6. CASE Remote
    <2>1. Play \/ Pause \/ Toggle
      BY <1>6 DEF Remote, playCommand, pauseCommand, remoteControlReceived
    <2> QED
      BY <1>5, <1>6, <2>1 DEF Remote
  <1>7. CASE EngineOnMain
    BY <1>5, <1>7 DEF EngineOnMain
  <1>8. CASE EngineInBackground
    <2>1. radio' \in {radio, avPause(radio)} /\ image' = image
      BY <1>8 DEF EngineInBackground, Background, preparePlayer, InterruptionBegan,
         InterruptionEnded, handleRouteChange, FlagsChange, viewVars
    <2>2. /\ radio'.playbackState = radio.playbackState
          /\ radio'.playerItem = radio.playerItem
      BY <1>1, <2>1, AvPauseKeeps
    <2>3. radio'.state = radio.state
      BY <1>1, <2>1 DEF avPause, RadioInv, Fields
    <2>4. InFlight' = InFlight
      <3>1. CASE UNCHANGED phase
        BY <3>1 DEF InFlight
      <3>2. CASE \E a \in Assets : preparePlayer(a)
        BY <1>1, <3>2 DEF preparePlayer, InFlight, IInv, TypeOK
      <3> QED
        BY <1>8, <3>1, <3>2 DEF EngineInBackground, Background, InterruptionBegan,
           InterruptionEnded, handleRouteChange, FlagsChange, loadVars
    <2> QED
      BY <2>1, <2>2, <2>3, <2>4 DEF IdlePauseExplained, IdlePause, isPlaying
  <1>9. CASE adsData \/ socialData \/ cellForRowAt \/ UNCHANGED appVars
    <2>1. UNCHANGED <<radio, phase, image>>
      BY <1>9 DEF adsData, socialData, cellForRowAt, appVars, viewVars, vars, loadVars
    <2> QED
      BY <2>1 DEF IdlePauseExplained, IdlePause, InFlight
  <1> QED
    BY <1>3, <1>4, <1>6, <1>7, <1>8, <1>9 DEF AppNext

----------------------------------------------------------------------------
(* The theorems.                                                           *)

\* While the radio plays the button offers pause, whoever started it, and the
\* view's variables keep their types: the invariant holds in every reachable state.
THEOREM PlayingIsShown == AppSpec => []ViewInv /\ []ViewTypeOK /\ []PlayingShowsPause
  <1>1. AppInit => ViewInv
    <2> SUFFICES ASSUME AppInit PROVE ViewInv
      OBVIOUS
    <2>1. IInv
      BY InitEstablishes DEF AppInit
    <2>2. 0 \in 0..3
      OBVIOUS
    <2>3. ViewTypeOK
      BY <2>2, DefaultAssumption, Zenon DEF AppInit, ViewTypeOK
    <2>4. QueriesBounded
      BY Zenon DEF AppInit, QueriesBounded
    <2>5. PlayingShowsPause
      BY DEF AppInit, Init, PlayingShowsPause, isPlaying
    <2> QED
      BY <2>1, <2>3, <2>4, <2>5 DEF ViewInv
  <1>2. ViewInv /\ [AppNext]_appVars => ViewInv'
    BY ViewStep
  <1>3. ViewInv => ViewTypeOK /\ PlayingShowsPause
    BY DEF ViewInv
  <1> QED
    BY <1>1, <1>2, <1>3, PTL DEF AppSpec

\* A pause button of a radio that does not play has an unfinished load or a
\* failed one behind it.  The application never changes isAutoPlay, which
\* FRadioPlayer initialises to true.
THEOREM IdlePauseHasCause == isAutoPlay => (AppSpec => []PauseImageExplained)
  <1> SUFFICES ASSUME isAutoPlay PROVE AppSpec => []PauseImageExplained
    OBVIOUS
  <1>1. AppInit => IdlePauseExplained
    BY DEF AppInit, IdlePauseExplained, IdlePause
  <1>2. ViewInv /\ IdlePauseExplained /\ [AppNext]_appVars => IdlePauseExplained'
    BY IdlePauseStep
  <1>3. IdlePauseExplained => PauseImageExplained
    BY DEF IdlePauseExplained, IdlePause, PauseImageExplained
  <1> QED
    BY <1>1, <1>2, <1>3, PlayingIsShown, PTL DEF AppSpec

\* The view implements the engine's specification: whatever is tapped, sent by
\* the lock screen or answered by Firestore, FRadioPlayer only takes its steps,
\* so that everything proved about it holds in the application.
THEOREM ViewDrivesEngine == AppSpec => ImplementsRadioPlayer
  <1>1. AppInit => Init
    BY DEF AppInit
  <1>2. ViewInv /\ [AppNext]_appVars => [Next]_vars
    BY ViewStepsAreEngineSteps DEF ViewInv, IInv, ViewTypeOK
  <1> QED
    BY <1>1, <1>2, PlayingIsShown, PTL DEF AppSpec, Spec, ImplementsRadioPlayer
=============================================================================
