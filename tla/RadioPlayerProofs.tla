------------------------- MODULE RadioPlayerProofs -------------------------
(***************************************************************************)
(* Proofs about RadioPlayer for every set of addresses, any number of      *)
(* loads, and every bound.                                                 *)
(***************************************************************************)
EXTENDS RadioPlayer, QueueLemmas

(***************************************************************************)
(* What FRadioPlayer's fields satisfy between two steps.                   *)
(***************************************************************************)
RadioInv(r) ==
    /\ r \in Fields
    /\ r.lastPlayerItem = r.playerItem
    /\ r.observed = {r.playerItem} \ {NoItem}
    /\ r.player <=> r.playerItem # NoItem
    /\ r.currentItem \in {NoItem, r.playerItem}
    /\ isPlaying(r) => r.player /\ r.currentItem = r.playerItem
    /\ ~r.player => r.rate = 0
    /\ r.rate = 1 /\ r.currentItem # NoItem => isPlaying(r)

LoadOps == {"playable", "unplayable"}

\* A queued load block belongs to a load that came back and was not handled
\* yet, and no load has two.
QueueInv ==
    /\ \A i \in 1..Len(mainQueue) : mainQueue[i].op \in LoadOps =>
          /\ mainQueue[i].asset \in Assets
          /\ phase[mainQueue[i].asset] = "loaded"
    /\ \A i, j \in 1..Len(mainQueue) :
          /\ mainQueue[i].op \in LoadOps
          /\ mainQueue[j].op \in LoadOps
          /\ mainQueue[i].asset = mainQueue[j].asset
          => i = j

\* The installed item comes from a handled load; without an overlap every
\* unfinished load, like the installed item, is for the current address.
LoadInv ==
    /\ radio.playerItem # NoItem => phase[radio.playerItem] = "done"
    /\ ~overlap => \A a \in InFlight : assetURL[a] = radioURL

\* The inductive invariant.
IInv ==
    /\ TypeOK
    /\ RadioInv(radio)
    /\ QueueInv
    /\ LoadInv
    /\ OnlyOverlapPlaysAnotherStation
    /\ SilentPlayingHasCause
    /\ ConnectivityViewSettles
    /\ headphonesConnected = FALSE

----------------------------------------------------------------------------
(* The methods keep it.                                                    *)

\* Assigning state touches nothing the invariant speaks of.
LEMMA SetStateKeeps ==
    ASSUME NEW r, RadioInv(r), NEW s \in FRadioPlayerState
    PROVE  /\ RadioInv(setState(r, s))
           /\ setState(r, s).playerItem = r.playerItem
           /\ setState(r, s).playbackState = r.playbackState
           /\ setState(r, s).rate = r.rate
           /\ setState(r, s).currentItem = r.currentItem
  BY DEF RadioInv, setState, Fields, isPlaying

\* play: a consistent player stays consistent, and one that plays is not silent.
LEMMA PlayKeeps ==
    ASSUME NEW r, RadioInv(r)
    PROVE  /\ RadioInv(play(r))
           /\ play(r).playerItem = r.playerItem
           /\ isPlaying(play(r)) => play(r).rate = 1
  BY ItemAssumption DEF RadioInv, play, setPlaybackState, avPlay, replaceCurrentItem,
     Fields, isPlaying, Items, FRadioPlaybackState

\* pause: the AVPlayer is silent and the state is not playing, player or not.
LEMMA PauseKeeps ==
    ASSUME NEW r, RadioInv(r)
    PROVE  /\ RadioInv(pause(r))
           /\ pause(r).playerItem = r.playerItem
           /\ ~isPlaying(pause(r))
           /\ pause(r).rate = 0
  <1>1. CASE ~r.player
    BY <1>1 DEF RadioInv, pause
  <1>2. CASE r.player
    <2>1. pause(r) \in Fields
      BY <1>2 DEF RadioInv, pause, setPlaybackState, avPause, Fields, FRadioPlaybackState
    <2>2. /\ pause(r).rate = 0
          /\ pause(r).playbackState = "paused"
          /\ pause(r).player = r.player
          /\ pause(r).currentItem = r.currentItem
          /\ pause(r).playerItem = r.playerItem
          /\ pause(r).lastPlayerItem = r.lastPlayerItem
          /\ pause(r).observed = r.observed
      BY <1>2 DEF RadioInv, pause, setPlaybackState, avPause, Fields
    <2> QED
      BY <1>2, <2>1, <2>2 DEF RadioInv, isPlaying
  <1> QED
    BY <1>1, <1>2

\* stop: the AVPlayer holds nothing, while playerItem stays.
LEMMA StopKeeps ==
    ASSUME NEW r, RadioInv(r)
    PROVE  /\ RadioInv(stop(r))
           /\ stop(r).playerItem = r.playerItem
           /\ ~isPlaying(stop(r))
           /\ stop(r).currentItem = NoItem
  BY DEF RadioInv, stop, setPlaybackState, replaceCurrentItem, Fields, isPlaying,
     FRadioPlaybackState, Items

\* Pausing the AVPlayer behind the state, as checkNetworkInterruption does.
LEMMA AvPauseKeeps ==
    ASSUME NEW r, RadioInv(r)
    PROVE  /\ RadioInv(avPause(r))
           /\ avPause(r).playerItem = r.playerItem
           /\ avPause(r).playbackState = r.playbackState
           /\ avPause(r).rate = 0
  BY DEF RadioInv, avPause, Fields, isPlaying

\* Leaving an item, whatever has been assigned to playerItem: the AVPlayer is
\* paused, the state says so, and the item is no longer observed.
LEMMA AbandonLeaves ==
    ASSUME NEW r \in Fields, r.lastPlayerItem # NoItem, r.player
    PROVE  /\ abandon(r) \in Fields
           /\ abandon(r).state = r.state
           /\ abandon(r).playbackState = "paused"
           /\ abandon(r).player
           /\ abandon(r).rate = 0
           /\ abandon(r).currentItem = r.currentItem
           /\ abandon(r).playerItem = r.playerItem
           /\ abandon(r).lastPlayerItem = r.lastPlayerItem
           /\ abandon(r).observed = r.observed \ {r.lastPlayerItem}
  <1>1. /\ pause(r) \in Fields
        /\ pause(r).state = r.state
        /\ pause(r).playbackState = "paused"
        /\ pause(r).player = r.player
        /\ pause(r).rate = 0
        /\ pause(r).currentItem = r.currentItem
        /\ pause(r).playerItem = r.playerItem
        /\ pause(r).lastPlayerItem = r.lastPlayerItem
        /\ pause(r).observed = r.observed
    BY DEF pause, setPlaybackState, avPause, Fields, FRadioPlaybackState
  <1>2. abandon(r) = [pause(r) EXCEPT !.observed = pause(r).observed \ {r.lastPlayerItem}]
    BY DEF abandon
  <1> QED
    BY <1>1, <1>2 DEF Fields

\* resetPlayer, from any consistent player: nothing is left.
LEMMA ResetEmpties ==
    ASSUME NEW r, RadioInv(r)
    PROVE  /\ RadioInv(resetPlayer(r))
           /\ resetPlayer(r).playerItem = NoItem
           /\ ~isPlaying(resetPlayer(r))
           /\ resetPlayer(r).playbackState = IF r.player THEN "paused" ELSE r.playbackState
  <1> DEFINE s == stop(r)
             q == [s EXCEPT !.playerItem = NoItem]
             t == setPlayerItem(s, NoItem)
  <1>1. /\ RadioInv(s)
        /\ s.player = r.player
        /\ s.playerItem = r.playerItem
        /\ ~r.player => s.playbackState = r.playbackState
    BY StopKeeps DEF stop, setPlaybackState, replaceCurrentItem, RadioInv, Fields
  <1>2. /\ q \in Fields
        /\ q.playerItem = NoItem
        /\ q.lastPlayerItem = s.playerItem
        /\ q.player = s.player
        /\ q.playbackState = s.playbackState
        /\ q.observed = s.observed
    BY <1>1 DEF RadioInv, Fields, Items
  <1>3. /\ t \in Fields
        /\ t.playerItem = NoItem
        /\ t.observed = {}
        /\ t.playbackState = IF r.player THEN "paused" ELSE r.playbackState
    <2>1. CASE s.playerItem = NoItem
      <3>1. t = q
        BY <1>2, <2>1 DEF setPlayerItem, playerItemDidChange
      <3> QED
        BY <1>1, <1>2, <2>1, <3>1 DEF RadioInv
    <2>2. CASE s.playerItem # NoItem
      <3>1. /\ abandon(q) \in Fields
            /\ abandon(q).playerItem = NoItem
            /\ abandon(q).playbackState = "paused"
            /\ abandon(q).observed = q.observed \ {q.lastPlayerItem}
        BY <1>1, <1>2, <2>2, AbandonLeaves DEF RadioInv
      <3>2. t = adopt([abandon(q) EXCEPT !.lastPlayerItem = NoItem])
        BY <1>2, <2>2 DEF setPlayerItem, playerItemDidChange
      <3>3. t = [abandon(q) EXCEPT !.lastPlayerItem = NoItem]
        BY <3>1, <3>2 DEF adopt, Fields
      <3>4. r.player /\ abandon(q).observed = {}
        BY <1>1, <1>2, <2>2, <3>1 DEF RadioInv
      <3> QED
        BY <3>1, <3>3, <3>4 DEF Fields, Items
    <2> QED
      BY <2>1, <2>2
  <1>4. resetPlayer(r) = [t EXCEPT !.lastPlayerItem = NoItem, !.player = FALSE,
                                   !.rate = 0, !.currentItem = NoItem]
    BY DEF resetPlayer
  <1>5. ~isPlaying(r) \/ r.player
    BY DEF RadioInv
  <1> HIDE DEF t
  <1>6. /\ resetPlayer(r) \in Fields
        /\ resetPlayer(r).playbackState = t.playbackState
        /\ resetPlayer(r).playerItem = NoItem
        /\ resetPlayer(r).lastPlayerItem = NoItem
        /\ ~resetPlayer(r).player
        /\ resetPlayer(r).rate = 0
        /\ resetPlayer(r).currentItem = NoItem
        /\ resetPlayer(r).observed = {}
    BY <1>3, <1>4 DEF Fields, Items
  <1> QED
    BY <1>3, <1>5, <1>6 DEF RadioInv, isPlaying

\* adopt, once the old item has been left: the new item is in the AVPlayer and
\* observed, and it plays if and only if isAutoPlay says so.
LEMMA AdoptInstalls ==
    ASSUME NEW r \in Fields, r.player, r.playerItem # NoItem,
           r.lastPlayerItem = r.playerItem, r.observed = {},
           r.rate = 0, r.playbackState # "playing"
    PROVE  /\ RadioInv(adopt(r))
           /\ adopt(r).playerItem = r.playerItem
           /\ adopt(r).currentItem = r.playerItem
           /\ isAutoPlay => isPlaying(adopt(r)) /\ adopt(r).rate = 1
           /\ ~isAutoPlay => adopt(r).playbackState = r.playbackState /\ adopt(r).rate = 0
  <1> DEFINE p == replaceCurrentItem([r EXCEPT !.observed = r.observed \cup {r.playerItem}],
                                      r.playerItem)
  <1>1. adopt(r) = IF isAutoPlay THEN play(p) ELSE p
    BY DEF adopt
  <1>2. /\ p \in Fields
        /\ p.observed = {r.playerItem}
        /\ p.currentItem = r.playerItem
        /\ p.playerItem = r.playerItem
        /\ p.lastPlayerItem = r.playerItem
        /\ p.player = r.player
        /\ p.rate = 0
        /\ p.playbackState = r.playbackState
    BY DEF replaceCurrentItem, Fields, Items
  <1> HIDE DEF p
  <1>3. RadioInv(p)
    BY <1>2 DEF RadioInv, isPlaying
  <1>4. /\ RadioInv(play(p))
        /\ play(p).playerItem = p.playerItem
        /\ isPlaying(play(p)) => play(p).rate = 1
    BY <1>3, PlayKeeps
  <1>5. isPlaying(play(p))
    BY <1>2 DEF play, setPlaybackState, avPlay, isPlaying, Fields
  <1> QED
    BY <1>1, <1>2, <1>3, <1>4, <1>5 DEF RadioInv

\* setupPlayer with the asset of a finished load.
LEMMA SetupInstalls ==
    ASSUME NEW r, RadioInv(r), NEW a \in Assets, r.playerItem # a
    PROVE  /\ RadioInv(setupPlayer(r, a))
           /\ setupPlayer(r, a).playerItem = a
           /\ setupPlayer(r, a).currentItem = a
           /\ isAutoPlay => isPlaying(setupPlayer(r, a))
           /\ isPlaying(setupPlayer(r, a)) => setupPlayer(r, a).rate = 1
           /\ ~isPlaying(setupPlayer(r, a)) =>
                 /\ setupPlayer(r, a).rate = 0
                 /\ setupPlayer(r, a).playbackState =
                       IF r.player THEN "paused" ELSE r.playbackState
  <1> DEFINE q == [[r EXCEPT !.player = TRUE] EXCEPT !.playerItem = a]
             t == [abandon(q) EXCEPT !.lastPlayerItem = a]
  <1>1. /\ q \in Fields
        /\ q.player
        /\ q.playerItem = a
        /\ q.lastPlayerItem = r.playerItem
        /\ q.observed = r.observed
        /\ q.rate = r.rate
        /\ q.playbackState = r.playbackState
    BY DEF RadioInv, Fields, Items
  <1>2. setupPlayer(r, a) = adopt(t)
    BY <1>1 DEF setupPlayer, setPlayerItem, playerItemDidChange
  <1>3. /\ abandon(q) \in Fields
        /\ abandon(q).player
        /\ abandon(q).playerItem = a
        /\ abandon(q).observed = {}
        /\ abandon(q).rate = 0
        /\ abandon(q).playbackState = IF r.player THEN "paused" ELSE r.playbackState
        /\ abandon(q).playbackState # "playing"
    <2> HIDE DEF q
    <2>1. CASE r.playerItem = NoItem
      BY <1>1, <2>1 DEF abandon, RadioInv, isPlaying
    <2>2. CASE r.playerItem # NoItem
      BY <1>1, <2>2, AbandonLeaves DEF RadioInv
    <2> QED
      BY <2>1, <2>2
  <1> HIDE DEF q
  <1>4. /\ t \in Fields
        /\ t.player
        /\ t.playerItem = a
        /\ t.lastPlayerItem = a
        /\ t.observed = {}
        /\ t.rate = 0
        /\ t.playbackState = abandon(q).playbackState
    BY <1>3 DEF Fields, Items
  <1> HIDE DEF t
  <1>5. a # NoItem
    BY ItemAssumption
  <1>6. /\ RadioInv(adopt(t))
        /\ adopt(t).playerItem = a
        /\ adopt(t).currentItem = a
        /\ isAutoPlay => isPlaying(adopt(t)) /\ adopt(t).rate = 1
        /\ ~isAutoPlay => adopt(t).playbackState = t.playbackState /\ adopt(t).rate = 0
    BY <1>3, <1>4, <1>5, AdoptInstalls
  <1> QED
    BY <1>2, <1>3, <1>4, <1>6 DEF isPlaying

\* The delayed closure: it may put the item back and follows the state.
LEMMA RecheckKeeps ==
    ASSUME NEW r, RadioInv(r), NEW i
    PROVE  /\ RadioInv(recheck(r, i))
           /\ recheck(r, i).playerItem = r.playerItem
           /\ recheck(r, i).playbackState = r.playbackState
           /\ recheck(r, i).rate = IF isPlaying(r) THEN 1 ELSE 0
  <1> DEFINE f == IF keepsUp[i] THEN r ELSE reloadItem(r)
  <1>1. /\ f \in Fields
        /\ f.playbackState = r.playbackState
        /\ f.player = r.player
        /\ f.playerItem = r.playerItem
        /\ f.lastPlayerItem = r.lastPlayerItem
        /\ f.observed = r.observed
        /\ f.currentItem \in {r.currentItem, r.playerItem}
        /\ isPlaying(r) => f.currentItem = r.playerItem
        /\ f.rate = r.rate
    BY DEF reloadItem, replaceCurrentItem, RadioInv, Fields, isPlaying, Items
  <1>2. recheck(r, i) = IF isPlaying(f) THEN avPlay(f) ELSE avPause(f)
    BY DEF recheck
  <1> HIDE DEF f
  <1> QED
    BY <1>1, <1>2 DEF RadioInv, avPlay, avPause, Fields, isPlaying

----------------------------------------------------------------------------
(* Initial states and steps.                                               *)

\* The initialiser of the singleton establishes the invariant.
LEMMA InitEstablishes == Init => IInv
  <1> SUFFICES ASSUME Init PROVE IInv
    OBVIOUS
  <1>1. TypeOK
    <2>1. radio \in Fields
      BY DEF Init, Fields, FRadioPlayerState, FRadioPlaybackState, Items
    <2>2. mainQueue \in Seq(Blocks)
      BY DEF Init, Blocks, Block, Ops, Items
    <2>3. rechecks \in [Assets -> 0..MaxRechecks]
      BY BoundAssumption DEF Init
    <2> QED
      BY <2>1, <2>2, <2>3 DEF Init, TypeOK, Connections, checkHeadphonesConnection
  <1>2. RadioInv(radio)
    BY <1>1 DEF Init, TypeOK, RadioInv, isPlaying
  <1>3. QueueInv
    BY DEF Init, QueueInv, LoadOps, Block
  <1> QED
    BY <1>1, <1>2, <1>3 DEF Init, IInv, LoadInv, InFlight, OnlyOverlapPlaysAnotherStation,
       SilentPlayingHasCause, ConnectivityViewSettles, checkHeadphonesConnection, isPlaying

\* A main-thread step starts from self, which differs from radio in notified.
LEMMA SelfKeeps ==
    ASSUME RadioInv(radio)
    PROVE  /\ RadioInv(self)
           /\ self.playerItem = radio.playerItem
           /\ self.playbackState = radio.playbackState
           /\ self.rate = radio.rate
           /\ self.currentItem = radio.currentItem
           /\ self.player = radio.player
           /\ isPlaying(self) <=> isPlaying(radio)
  BY DEF self, RadioInv, Fields, isPlaying

Queued(op) == \E i \in DOMAIN mainQueue : mainQueue[i].op = op

\* Sending a block that ends no load.
LEMMA AsyncKeeps ==
    ASSUME TypeOK, QueueInv, NEW b \in Blocks, b.op \notin LoadOps,
           Async(b), UNCHANGED phase
    PROVE  /\ mainQueue' \in Seq(Blocks)
           /\ QueueInv'
           /\ Queued(b.op)'
           /\ \A op : Queued(op) => Queued(op)'
  <1>1. mainQueue \in Seq(Blocks) /\ mainQueue' = Append(mainQueue, b)
    BY DEF TypeOK, Async
  <1>2. /\ mainQueue' \in Seq(Blocks)
        /\ Len(mainQueue) \in Nat
        /\ Len(mainQueue') = Len(mainQueue) + 1
        /\ \A i \in 1..Len(mainQueue) : mainQueue'[i] = mainQueue[i]
        /\ mainQueue'[Len(mainQueue) + 1] = b
        /\ DOMAIN mainQueue = 1..Len(mainQueue)
        /\ DOMAIN mainQueue' = 1..(Len(mainQueue) + 1)
    BY <1>1, AppendFacts
  <1>3. \A i \in 1..Len(mainQueue') : mainQueue'[i].op \in LoadOps =>
            i \in 1..Len(mainQueue) /\ mainQueue'[i] = mainQueue[i]
    BY <1>2
  <1>4. QueueInv'
    BY <1>2, <1>3 DEF QueueInv
  <1>5. Queued(b.op)'
    BY <1>2 DEF Queued
  <1>6. ASSUME NEW op, Queued(op) PROVE Queued(op)'
    BY <1>2, <1>6 DEF Queued
  <1> QED
    BY <1>2, <1>4, <1>5, <1>6

\* Running the block at the head.
LEMMA DequeueKeeps ==
    ASSUME TypeOK, QueueInv, NEW ops, Dequeue(ops),
           \/ UNCHANGED phase
           \/ /\ Head(mainQueue).op \in LoadOps
              /\ phase' = [phase EXCEPT ![Head(mainQueue).asset] = "done"]
    PROVE  /\ mainQueue' \in Seq(Blocks)
           /\ QueueInv'
           /\ Head(mainQueue) \in Blocks /\ Head(mainQueue).op \in ops
           /\ Head(mainQueue).op \in LoadOps =>
                 /\ Head(mainQueue).asset \in Assets
                 /\ phase[Head(mainQueue).asset] = "loaded"
           /\ \A op : Queued(op) /\ op # Head(mainQueue).op => Queued(op)'
  <1>1. /\ mainQueue \in Seq(Blocks) /\ mainQueue # <<>>
        /\ mainQueue' = Tail(mainQueue) /\ Head(mainQueue).op \in ops
    BY DEF TypeOK, Dequeue
  <1>2. /\ mainQueue' \in Seq(Blocks)
        /\ Len(mainQueue) \in Nat /\ Len(mainQueue) > 0
        /\ Len(mainQueue') = Len(mainQueue) - 1
        /\ \A i \in 1..(Len(mainQueue) - 1) : mainQueue'[i] = mainQueue[i + 1]
        /\ Head(mainQueue) = mainQueue[1] /\ Head(mainQueue) \in Blocks
        /\ DOMAIN mainQueue = 1..Len(mainQueue)
        /\ DOMAIN mainQueue' = 1..(Len(mainQueue) - 1)
    BY <1>1, TailFacts
  <1>3. \A i \in 1..Len(mainQueue') :
            i + 1 \in 1..Len(mainQueue) /\ i + 1 # 1 /\ mainQueue'[i] = mainQueue[i + 1]
    BY <1>2
  <1>4. 1 \in 1..Len(mainQueue)
    BY <1>2
  <1>5. QueueInv'
    <2>1. ASSUME NEW i \in 1..Len(mainQueue'), mainQueue'[i].op \in LoadOps
          PROVE  mainQueue'[i].asset \in Assets /\ phase'[mainQueue'[i].asset] = "loaded"
      <3>1. /\ mainQueue'[i] = mainQueue[i + 1]
            /\ mainQueue[i + 1].asset \in Assets
            /\ phase[mainQueue[i + 1].asset] = "loaded"
            /\ Head(mainQueue).op \in LoadOps => mainQueue[i + 1].asset # mainQueue[1].asset
        BY <1>2, <1>3, <1>4, <2>1 DEF QueueInv
      <3> QED
        BY <1>2, <3>1 DEF TypeOK
    <2>2. ASSUME NEW i \in 1..Len(mainQueue'), NEW j \in 1..Len(mainQueue'),
                 mainQueue'[i].op \in LoadOps, mainQueue'[j].op \in LoadOps,
                 mainQueue'[i].asset = mainQueue'[j].asset
          PROVE  i = j
      <3>1. i + 1 = j + 1
        BY <1>3, <2>2 DEF QueueInv
      <3> QED
        BY <1>2, <3>1
    <2> QED
      BY <2>1, <2>2 DEF QueueInv
  <1>6. Head(mainQueue).op \in LoadOps =>
            Head(mainQueue).asset \in Assets /\ phase[Head(mainQueue).asset] = "loaded"
    BY <1>2, <1>4 DEF QueueInv
  <1>7. ASSUME NEW op, Queued(op), op # Head(mainQueue).op PROVE Queued(op)'
    <2>1. PICK i \in 1..Len(mainQueue) : mainQueue[i].op = op
      BY <1>2, <1>7 DEF Queued
    <2>2. i # 1 /\ i - 1 \in 1..(Len(mainQueue) - 1) /\ mainQueue'[i - 1] = mainQueue[i]
      BY <1>2, <1>7, <2>1
    <2> QED
      BY <1>2, <2>1, <2>2 DEF Queued
  <1> QED
    BY <1>1, <1>2, <1>5, <1>6, <1>7

\* A main-thread step that leaves the loads, the queue and the network alone.
LEMMA FieldStep ==
    ASSUME IInv, RadioInv(radio'), radio'.playerItem = radio.playerItem,
           UNCHANGED <<loadVars, networkVars, sessionVars, mainQueue>>,
           keepsUp' \in [Assets -> BOOLEAN], rechecks' \in [Assets -> 0..MaxRechecks],
           SilentPlayingHasCause'
    PROVE  IInv'
  <1> USE DEF IInv, loadVars, networkVars, sessionVars
  <1>1. TypeOK'
    BY DEF TypeOK, RadioInv
  <1>2. QueueInv'
    BY DEF QueueInv
  <1>3. LoadInv' /\ OnlyOverlapPlaysAnotherStation'
    BY DEF LoadInv, OnlyOverlapPlaysAnotherStation, InFlight
  <1>4. ConnectivityViewSettles'
    BY DEF ConnectivityViewSettles
  <1> QED
    BY <1>1, <1>2, <1>3, <1>4

\* checkNetworkInterruption, from fields that agree with radio: either nothing
\* happens, or the silence it causes has a pending recheck.
LEMMA CheckNetworkKeeps ==
    ASSUME IInv, NEW r, RadioInv(r), r.playerItem = radio.playerItem,
           r.playbackState = radio.playbackState, r.rate = radio.rate,
           checkNetworkInterruption(r)
    PROVE  /\ RadioInv(radio')
           /\ radio'.playerItem = radio.playerItem
           /\ radio'.playbackState = radio.playbackState
           /\ rechecks' \in [Assets -> 0..MaxRechecks]
           /\ \A a \in Assets : rechecks[a] > 0 => rechecks'[a] > 0
           /\ radio'.rate = radio.rate \/ \E a \in Assets : rechecks'[a] > 0
  <1>1. rechecks \in [Assets -> 0..MaxRechecks] /\ MaxRechecks \in Nat
    BY BoundAssumption DEF IInv, TypeOK
  <1>2. CASE ~NeedsRecheck(r)
    BY <1>1, <1>2 DEF checkNetworkInterruption
  <1>3. CASE NeedsRecheck(r)
    <2>1. r.playerItem \in Assets
      BY <1>3 DEF NeedsRecheck, RadioInv, Fields, Items
    <2>2. /\ rechecks[r.playerItem] < MaxRechecks
          /\ rechecks' = [rechecks EXCEPT ![r.playerItem] = rechecks[r.playerItem] + 1]
          /\ radio' = avPause(r)
      BY <1>3 DEF checkNetworkInterruption
    <2>3. /\ rechecks' \in [Assets -> 0..MaxRechecks]
          /\ rechecks'[r.playerItem] > 0
          /\ \A a \in Assets : rechecks[a] > 0 => rechecks'[a] > 0
      BY <1>1, <2>1, <2>2
    <2> QED
      BY <2>1, <2>2, <2>3, AvPauseKeeps
  <1> QED
    BY <1>2, <1>3

\* The steps on the main thread that leave the loads, the queue and the network
\* alone: after a control or a recheck whoever plays has rate 1, and a KVO
\* callback silences only with a recheck pending.
LEMMA LocalStep ==
    ASSUME IInv,
           \/ Play \/ Pause \/ Stop \/ Toggle
           \/ \E a \in Assets : Recheck(a)
           \/ ObserveStatus \/ ObserveBufferEmpty \/ ObserveLikelyToKeepUp
    PROVE  IInv'
  <1>0. /\ RadioInv(self)
        /\ self.playerItem = radio.playerItem
        /\ self.playbackState = radio.playbackState
        /\ self.rate = radio.rate
    BY SelfKeeps DEF IInv
  <1>1. \A s \in FRadioPlayerState :
            /\ RadioInv(setState(self, s))
            /\ setState(self, s).playerItem = radio.playerItem
            /\ setState(self, s).playbackState = radio.playbackState
            /\ setState(self, s).rate = radio.rate
    BY <1>0, SetStateKeeps
  <1>2. CASE ObserveStatus
    <2>1. PICK s \in {"readyToPlay", "error"} : Call(setState(self, s))
      BY <1>2 DEF ObserveStatus
    <2>2. SilentPlayingHasCause'
      BY <1>1, <2>1 DEF Call, IInv, SilentPlayingHasCause, isPlaying, FRadioPlayerState
    <2> QED
      BY <1>1, <2>1, <2>2, FieldStep DEF Call, IInv, TypeOK, FRadioPlayerState
  <1>3. CASE ObserveBufferEmpty
    <2>1. /\ RadioInv(radio')
          /\ radio'.playerItem = radio.playerItem
          /\ radio'.playbackState = radio.playbackState
          /\ rechecks' \in [Assets -> 0..MaxRechecks]
          /\ \A a \in Assets : rechecks[a] > 0 => rechecks'[a] > 0
          /\ radio'.rate = radio.rate \/ \E a \in Assets : rechecks'[a] > 0
      BY <1>1, <1>3, CheckNetworkKeeps DEF ObserveBufferEmpty, FRadioPlayerState
    <2>2. SilentPlayingHasCause'
      BY <1>3, <2>1 DEF ObserveBufferEmpty, IInv, SilentPlayingHasCause, isPlaying
    <2> QED
      BY <1>3, <2>1, <2>2, FieldStep DEF ObserveBufferEmpty, IInv, TypeOK
  <1>4. CASE ObserveLikelyToKeepUp
    <2>1. PICK item \in radio.observed :
              /\ keepsUp' = [keepsUp EXCEPT ![item] = ~keepsUp[item]]
              /\ radio' = IF item = radio.playerItem
                          THEN setState(self, IF keepsUp'[item] THEN "loadingFinished" ELSE "loading")
                          ELSE self
      BY <1>4 DEF ObserveLikelyToKeepUp
    <2>2. /\ RadioInv(radio')
          /\ radio'.playerItem = radio.playerItem
          /\ radio'.playbackState = radio.playbackState
          /\ radio'.rate = radio.rate
      BY <1>0, <1>1, <2>1 DEF FRadioPlayerState
    <2>3. keepsUp' \in [Assets -> BOOLEAN]
      BY <2>1 DEF IInv, TypeOK
    <2>4. SilentPlayingHasCause'
      BY <1>4, <2>2 DEF ObserveLikelyToKeepUp, IInv, SilentPlayingHasCause, isPlaying
    <2> QED
      BY <1>4, <2>2, <2>3, <2>4, FieldStep DEF ObserveLikelyToKeepUp, IInv, TypeOK
  <1>5. ASSUME NEW r, radio' = r, RadioInv(r), r.playerItem = radio.playerItem,
               isPlaying(r) => r.rate = 1,
               UNCHANGED <<loadVars, keepsUp, networkVars, sessionVars, mainQueue>>,
               rechecks' \in [Assets -> 0..MaxRechecks]
        PROVE  IInv'
    <2>1. SilentPlayingHasCause'
      BY <1>5 DEF SilentPlayingHasCause, isPlaying
    <2> QED
      BY <1>5, <2>1, FieldStep DEF IInv, TypeOK
  <1>6. CASE Play \/ Pause \/ Stop \/ Toggle
    <2>1. rechecks' \in [Assets -> 0..MaxRechecks]
      BY <1>6 DEF Play, Pause, Stop, Toggle, Call, IInv, TypeOK
    <2>2. \A r \in {play(self), pause(self), stop(self), togglePlaying(self)} :
              /\ RadioInv(r)
              /\ r.playerItem = radio.playerItem
              /\ isPlaying(r) => r.rate = 1
      BY <1>0, PlayKeeps, PauseKeeps, StopKeeps DEF togglePlaying
    <2> QED
      BY <1>5, <1>6, <2>1, <2>2 DEF Play, Pause, Stop, Toggle, Call
  <1>7. ASSUME NEW a \in Assets, Recheck(a) PROVE IInv'
    <2>1. /\ RadioInv(recheck(self, a))
          /\ recheck(self, a).playerItem = radio.playerItem
          /\ isPlaying(recheck(self, a)) => recheck(self, a).rate = 1
      BY <1>0, RecheckKeeps DEF isPlaying
    <2>2. rechecks' \in [Assets -> 0..MaxRechecks]
      BY <1>7, BoundAssumption DEF Recheck, IInv, TypeOK
    <2> QED
      BY <1>5, <1>7, <2>1, <2>2 DEF Recheck
  <1> QED
    BY <1>2, <1>3, <1>4, <1>6, <1>7

\* A new address: the player is empty, and only this load may install an item
\* without an overlap.
LEMMA SetRadioURLStep == IInv /\ SetRadioURL => IInv'
  <1> SUFFICES ASSUME IInv, NEW u \in URLs \cup {NoURL}, BeginLoad(u),
                      radio' = radioURLDidChange(self, u)
               PROVE  IInv'
    BY DEF SetRadioURL
  <1> USE DEF loadVars, networkVars, sessionVars
  <1>1. /\ RadioInv(radio')
        /\ radio'.playerItem = NoItem
        /\ ~isPlaying(radio')
    <2>1. /\ RadioInv(resetPlayer(self))
          /\ resetPlayer(self).playerItem = NoItem
          /\ ~isPlaying(resetPlayer(self))
      BY SelfKeeps, ResetEmpties DEF IInv
    <2> QED
      BY <2>1, SetStateKeeps DEF radioURLDidChange, FRadioPlayerState, isPlaying
  <1>2. /\ phase' \in [Assets -> {"fresh", "loading", "loaded", "done"}]
        /\ assetURL' \in [Assets -> URLs \cup {NoURL}]
        /\ \A a \in Assets : phase[a] # "fresh" => phase'[a] = phase[a] /\ assetURL'[a] = assetURL[a]
        /\ \A a \in Assets : phase[a] = "fresh" /\ phase'[a] # "fresh" => assetURL'[a] = u
    BY DEF BeginLoad, IInv, TypeOK
  <1>3. radioURL' = u /\ overlap' = (InFlight # {})
    BY DEF BeginLoad
  <1>4. TypeOK'
    BY <1>1, <1>2, <1>3 DEF BeginLoad, IInv, TypeOK, RadioInv
  <1>5. QueueInv'
    BY <1>2 DEF BeginLoad, IInv, QueueInv
  <1>6. LoadInv'
    <2>1. ASSUME ~overlap', NEW a \in InFlight' PROVE assetURL'[a] = radioURL'
      <3>1. a \in Assets /\ phase'[a] # "fresh"
        BY <2>1 DEF InFlight
      <3>2. InFlight = {}
        BY <1>3, <2>1
      <3>3. phase[a] = "fresh"
        BY <1>2, <2>1, <3>1, <3>2 DEF InFlight
      <3> QED
        BY <1>2, <1>3, <3>1, <3>3
    <2> QED
      BY <1>1, <2>1 DEF LoadInv
  <1>7. OnlyOverlapPlaysAnotherStation' /\ SilentPlayingHasCause'
    BY <1>1 DEF OnlyOverlapPlaysAnotherStation, SilentPlayingHasCause, isPlaying
  <1>8. ConnectivityViewSettles' /\ headphonesConnected' = FALSE
    BY DEF BeginLoad, IInv, ConnectivityViewSettles
  <1> QED
    BY <1>1, <1>4, <1>5, <1>6, <1>7, <1>8 DEF IInv

\* The other threads: at most the AVPlayer falls silent, and then the block that
\* explains it is in the queue; the block of a load is the only one for its asset.
LEMMA BackgroundStep == ASSUME IInv, Background PROVE IInv'
  <1> USE DEF loadVars, networkVars, sessionVars
  <1>1. ASSUME RadioInv(radio'), radio'.playerItem = radio.playerItem,
               UNCHANGED <<loadVars, keepsUp, rechecks>>,
               connection' \in Connections, isConnected' \in BOOLEAN, interrupted' \in BOOLEAN,
               UNCHANGED handling, headphonesConnected' = FALSE,
               mainQueue' \in Seq(Blocks), QueueInv', SilentPlayingHasCause', ConnectivityViewSettles'
        PROVE  IInv'
    <2>1. TypeOK'
      BY <1>1 DEF IInv, TypeOK, RadioInv
    <2>2. LoadInv' /\ OnlyOverlapPlaysAnotherStation'
      BY <1>1 DEF IInv, LoadInv, OnlyOverlapPlaysAnotherStation, InFlight
    <2> QED
      BY <1>1, <2>1, <2>2 DEF IInv
  <1>2. ASSUME NEW op \in Ops \ LoadOps, Async(Block(op)), UNCHANGED phase
        PROVE  /\ mainQueue' \in Seq(Blocks)
               /\ QueueInv'
               /\ Queued(op)'
               /\ \A o : Queued(o) => Queued(o)'
    <2>1. Block(op) \in Blocks /\ Block(op).op = op
      BY DEF Block, Blocks, Items
    <2> QED
      BY <1>2, <2>1, AsyncKeeps DEF IInv
  <1>3. ASSUME UNCHANGED <<mainQueue, phase>>
        PROVE  /\ mainQueue' \in Seq(Blocks)
               /\ QueueInv'
               /\ \A o : Queued(o) => Queued(o)'
    BY <1>3 DEF IInv, TypeOK, QueueInv, Queued
  <1>4. {"pause", "resume", "route", "reachability"} \subseteq Ops \ LoadOps
    BY DEF Ops, LoadOps
  <1>5. ASSUME UNCHANGED <<radio, rechecks>>, \A o : Queued(o) => Queued(o)'
        PROVE  SilentPlayingHasCause'
    BY <1>5 DEF IInv, SilentPlayingHasCause, Queued
  <1>6. ASSUME UNCHANGED networkVars, \A o : Queued(o) => Queued(o)'
        PROVE  ConnectivityViewSettles'
    BY <1>6 DEF IInv, ConnectivityViewSettles, Queued
  <1>7. CASE InterruptionBegan
    <2>1. /\ mainQueue' \in Seq(Blocks)
          /\ QueueInv'
          /\ Queued("pause")'
          /\ \A o : Queued(o) => Queued(o)'
      BY <1>2, <1>4, <1>7 DEF InterruptionBegan
    <2>2. RadioInv(radio') /\ radio'.playerItem = radio.playerItem
      BY <1>7, AvPauseKeeps DEF InterruptionBegan, IInv
    <2>3. SilentPlayingHasCause'
      BY <2>1 DEF SilentPlayingHasCause, Queued
    <2> QED
      BY <1>1, <1>6, <1>7, <2>1, <2>2, <2>3 DEF InterruptionBegan, IInv, TypeOK
  <1>8. CASE InterruptionEnded
    <2>1. /\ mainQueue' \in Seq(Blocks)
          /\ QueueInv'
          /\ \A o : Queued(o) => Queued(o)'
      BY <1>2, <1>3, <1>4, <1>8 DEF InterruptionEnded
    <2> QED
      BY <1>1, <1>5, <1>6, <1>8, <2>1 DEF InterruptionEnded, IInv, TypeOK
  <1>9. CASE handleRouteChange
    <2>1. /\ mainQueue' \in Seq(Blocks)
          /\ QueueInv'
          /\ \A o : Queued(o) => Queued(o)'
      BY <1>2, <1>3, <1>4, <1>9 DEF handleRouteChange
    <2> QED
      BY <1>1, <1>5, <1>6, <1>9, <2>1 DEF handleRouteChange, checkHeadphonesConnection, IInv, TypeOK
  <1>10. CASE FlagsChange
    <2>1. /\ mainQueue' \in Seq(Blocks)
          /\ QueueInv'
          /\ Queued("reachability")'
          /\ \A o : Queued(o) => Queued(o)'
      BY <1>2, <1>4, <1>10 DEF FlagsChange
    <2>2. ConnectivityViewSettles'
      BY <2>1 DEF ConnectivityViewSettles, Queued
    <2> QED
      BY <1>1, <1>5, <1>10, <2>1, <2>2 DEF FlagsChange, IInv, TypeOK
  <1>11. ASSUME NEW a \in Assets, preparePlayer(a) PROVE IInv'
    <2> SUFFICES ASSUME NEW op \in LoadOps, Async([op |-> op, asset |-> a]), preparePlayer(a)
                 PROVE  IInv'
      BY <1>11 DEF preparePlayer, LoadOps
    <2> DEFINE b == [op |-> op, asset |-> a]
    <2>1. mainQueue \in Seq(Blocks) /\ b \in Blocks /\ mainQueue' = Append(mainQueue, b)
      BY DEF IInv, TypeOK, Async, Blocks, LoadOps, Ops, Items
    <2>2. /\ mainQueue' \in Seq(Blocks)
          /\ Len(mainQueue) \in Nat
          /\ Len(mainQueue') = Len(mainQueue) + 1
          /\ \A i \in 1..Len(mainQueue) : mainQueue'[i] = mainQueue[i]
          /\ mainQueue'[Len(mainQueue) + 1] = b
          /\ DOMAIN mainQueue = 1..Len(mainQueue)
          /\ DOMAIN mainQueue' = 1..(Len(mainQueue) + 1)
      BY <2>1, AppendFacts
    <2>3. /\ phase[a] = "loading"
          /\ phase' \in [Assets -> {"fresh", "loading", "loaded", "done"}]
          /\ phase'[a] = "loaded"
          /\ \A c \in Assets \ {a} : phase'[c] = phase[c]
      BY DEF preparePlayer, IInv, TypeOK
    <2>4. TypeOK'
      BY <2>2, <2>3 DEF preparePlayer, IInv, TypeOK
    <2>5. \A i \in 1..Len(mainQueue') :
              \/ i \in 1..Len(mainQueue) /\ mainQueue'[i] = mainQueue[i]
              \/ i = Len(mainQueue) + 1 /\ mainQueue'[i] = b
      BY <2>2
    <2>6. \A i \in 1..Len(mainQueue) : mainQueue[i].op \in LoadOps =>
              /\ mainQueue[i].asset \in Assets \ {a}
              /\ phase'[mainQueue[i].asset] = "loaded"
      BY <2>3 DEF IInv, QueueInv
    <2>7. QueueInv'
      <3>1. ASSUME NEW i \in 1..Len(mainQueue'), mainQueue'[i].op \in LoadOps
            PROVE  mainQueue'[i].asset \in Assets /\ phase'[mainQueue'[i].asset] = "loaded"
        BY <2>3, <2>5, <2>6, <3>1
      <3>2. ASSUME NEW i \in 1..Len(mainQueue'), NEW j \in 1..Len(mainQueue'),
                   mainQueue'[i].op \in LoadOps, mainQueue'[j].op \in LoadOps,
                   mainQueue'[i].asset = mainQueue'[j].asset
            PROVE  i = j
        BY <2>5, <2>6, <3>2 DEF IInv, QueueInv
      <3> QED
        BY <3>1, <3>2 DEF QueueInv
    <2>8. LoadInv'
      BY <2>3 DEF preparePlayer, IInv, LoadInv, InFlight, TypeOK, Fields, Items
    <2>9. RadioInv(radio') /\ OnlyOverlapPlaysAnotherStation' /\ headphonesConnected' = FALSE
      BY DEF preparePlayer, IInv, OnlyOverlapPlaysAnotherStation
    <2>10. SilentPlayingHasCause'
      BY <2>2 DEF preparePlayer, IInv, SilentPlayingHasCause
    <2>11. ConnectivityViewSettles'
      BY <2>2 DEF preparePlayer, IInv, ConnectivityViewSettles
    <2> QED
      BY <2>4, <2>7, <2>8, <2>9, <2>10, <2>11 DEF IInv
  <1> QED
    BY <1>7, <1>8, <1>9, <1>10, <1>11 DEF Background

\* The completion handler of a load.
LEMMA LoadCompletesStep == IInv /\ LoadCompletes => IInv'
  <1> SUFFICES ASSUME IInv, LoadCompletes PROVE IInv'
    OBVIOUS
  <1> USE DEF loadVars, networkVars, sessionVars
  <1> DEFINE a == Head(mainQueue).asset
  <1>1. /\ Dequeue(LoadOps)
        /\ phase' = [phase EXCEPT ![a] = "done"]
        /\ radio' = IF Head(mainQueue).op = "playable"
                    THEN setupPlayer(self, a) ELSE setState(resetPlayer(self), "error")
    BY DEF LoadCompletes, LoadOps
  <1>2. Head(mainQueue).op \in LoadOps
    BY <1>1 DEF Dequeue
  <1>3. /\ mainQueue' \in Seq(Blocks)
        /\ QueueInv'
        /\ a \in Assets
        /\ phase[a] = "loaded"
        /\ \A op : Queued(op) /\ op # Head(mainQueue).op => Queued(op)'
    BY <1>1, <1>2, DequeueKeeps DEF IInv
  <1>4. /\ RadioInv(self)
        /\ self.playerItem = radio.playerItem
        /\ radio.playerItem # a
    BY <1>3, SelfKeeps, ItemAssumption DEF IInv, LoadInv
  <1>5. /\ RadioInv(radio')
        /\ radio'.playerItem \in {a, NoItem}
        /\ isPlaying(radio') => radio'.rate = 1
    <2>1. CASE Head(mainQueue).op = "playable"
      BY <1>1, <1>3, <1>4, <2>1, SetupInstalls
    <2>2. CASE Head(mainQueue).op # "playable"
      <3>1. RadioInv(resetPlayer(self)) /\ resetPlayer(self).playerItem = NoItem
            /\ ~isPlaying(resetPlayer(self))
        BY <1>4, ResetEmpties
      <3> QED
        BY <1>1, <2>2, <3>1, SetStateKeeps DEF FRadioPlayerState, isPlaying
    <2> QED
      BY <2>1, <2>2
  <1>6. /\ phase' \in [Assets -> {"fresh", "loading", "loaded", "done"}]
        /\ phase'[a] = "done"
        /\ \A c \in Assets : c # a => phase'[c] = phase[c]
    BY <1>1, <1>3 DEF IInv, TypeOK
  <1>7. TypeOK'
    BY <1>3, <1>5, <1>6 DEF LoadCompletes, IInv, TypeOK, RadioInv
  <1>8. LoadInv'
    BY <1>5, <1>6 DEF LoadCompletes, IInv, LoadInv, InFlight
  <1>9. OnlyOverlapPlaysAnotherStation'
    BY <1>3, <1>5 DEF LoadCompletes, IInv, LoadInv, InFlight, OnlyOverlapPlaysAnotherStation
  <1>10. SilentPlayingHasCause'
    BY <1>5 DEF SilentPlayingHasCause, isPlaying
  <1>11. ConnectivityViewSettles'
    BY <1>2, <1>3 DEF LoadCompletes, IInv, ConnectivityViewSettles, Queued, LoadOps
  <1> QED
    BY <1>3, <1>5, <1>7, <1>8, <1>9, <1>10, <1>11 DEF LoadCompletes, IInv

\* The blocks that end no load: an interruption, a lost output device, and the
\* three reads of the reachability handler, which answers for the record until
\* its last line.
LEMMA NotificationStep ==
    ASSUME IInv, \/ InterruptionBlock \/ RouteBlock
                 \/ reachabilityChanged \/ CheckInterruption \/ RecordConnection
    PROVE  IInv'
  <1>1. ASSUME InterruptionBlock \/ RouteBlock PROVE IInv'
    <2> SUFFICES ASSUME NEW ops, Dequeue(ops), "reachability" \notin ops,
                        radio' \in {play(self), pause(self)},
                        UNCHANGED <<loadVars, keepsUp, rechecks, networkVars, sessionVars>>
                 PROVE  IInv'
      BY <1>1 DEF InterruptionBlock, RouteBlock, IInv
    <2> USE DEF loadVars, networkVars, sessionVars
    <2>1. /\ mainQueue' \in Seq(Blocks)
          /\ QueueInv'
          /\ Head(mainQueue).op \in ops
          /\ \A op : Queued(op) /\ op # Head(mainQueue).op => Queued(op)'
      BY DequeueKeeps DEF IInv
    <2>2. /\ RadioInv(radio')
          /\ radio'.playerItem = radio.playerItem
          /\ isPlaying(radio') => radio'.rate = 1
      <3>1. RadioInv(self) /\ self.playerItem = radio.playerItem
        BY SelfKeeps DEF IInv
      <3> QED
        BY <3>1, PlayKeeps, PauseKeeps
    <2>3. TypeOK'
      BY <2>1, <2>2 DEF IInv, TypeOK, RadioInv
    <2>4. LoadInv' /\ OnlyOverlapPlaysAnotherStation'
      BY <2>2 DEF IInv, LoadInv, OnlyOverlapPlaysAnotherStation, InFlight
    <2>5. SilentPlayingHasCause'
      BY <2>2 DEF SilentPlayingHasCause, isPlaying
    <2>6. ConnectivityViewSettles'
      BY <2>1 DEF IInv, ConnectivityViewSettles, Queued
    <2> QED
      BY <2>1, <2>2, <2>3, <2>4, <2>5, <2>6 DEF IInv
  <1>2. ASSUME reachabilityChanged \/ CheckInterruption \/ RecordConnection PROVE IInv'
    <2> USE DEF loadVars, networkVars, sessionVars
    <2>1. ASSUME RadioInv(radio'), radio'.playerItem = radio.playerItem,
                 UNCHANGED <<loadVars, keepsUp, connection, sessionVars>>,
                 isConnected' \in BOOLEAN, handling' \in {"idle", "check", "record"},
                 rechecks' \in [Assets -> 0..MaxRechecks], mainQueue' \in Seq(Blocks),
                 QueueInv', SilentPlayingHasCause',
                 handling' # "idle" \/ isConnected' = (connection' # "none")
          PROVE  IInv'
      <3>1. TypeOK'
        BY <2>1 DEF IInv, TypeOK, RadioInv
      <3>2. LoadInv' /\ OnlyOverlapPlaysAnotherStation'
        BY <2>1 DEF IInv, LoadInv, OnlyOverlapPlaysAnotherStation, InFlight
      <3>3. ConnectivityViewSettles'
        BY <2>1 DEF ConnectivityViewSettles
      <3> QED
        BY <2>1, <3>1, <3>2, <3>3 DEF IInv
    <2>2. /\ RadioInv(self)
          /\ self.playerItem = radio.playerItem
          /\ self.playbackState = radio.playbackState
          /\ self.rate = radio.rate
      BY SelfKeeps DEF IInv
    <2>3. ASSUME UNCHANGED <<mainQueue, phase>>
          PROVE  /\ mainQueue' \in Seq(Blocks)
                 /\ QueueInv'
                 /\ \A op : Queued(op) => Queued(op)'
      BY <2>3 DEF IInv, TypeOK, QueueInv, Queued
    <2>4. rechecks \in [Assets -> 0..MaxRechecks] /\ isConnected \in BOOLEAN
      BY DEF IInv, TypeOK
    <2>5. CASE reachabilityChanged
      <3>1. /\ mainQueue' \in Seq(Blocks)
            /\ QueueInv'
            /\ Head(mainQueue).op = "reachability"
            /\ \A op : Queued(op) /\ op # Head(mainQueue).op => Queued(op)'
        BY <2>5, DequeueKeeps DEF IInv, reachabilityChanged
      <3>2. handling' \in {"check", "record"} /\ radio' = self /\ UNCHANGED rechecks
        BY <2>5 DEF reachabilityChanged
      <3>3. SilentPlayingHasCause'
        BY <2>2, <3>1, <3>2 DEF IInv, SilentPlayingHasCause, Queued, isPlaying
      <3> QED
        BY <2>1, <2>2, <2>4, <2>5, <3>1, <3>2, <3>3 DEF reachabilityChanged
    <2>6. CASE CheckInterruption
      <3>1. /\ mainQueue' \in Seq(Blocks)
            /\ QueueInv'
            /\ \A op : Queued(op) => Queued(op)'
        BY <2>3, <2>6 DEF CheckInterruption
      <3>2. /\ RadioInv(radio')
            /\ radio'.playerItem = radio.playerItem
            /\ radio'.playbackState = radio.playbackState
            /\ rechecks' \in [Assets -> 0..MaxRechecks]
            /\ \A a \in Assets : rechecks[a] > 0 => rechecks'[a] > 0
            /\ radio'.rate = radio.rate \/ \E a \in Assets : rechecks'[a] > 0
        BY <2>2, <2>6, CheckNetworkKeeps DEF CheckInterruption
      <3>3. SilentPlayingHasCause'
        BY <3>1, <3>2 DEF IInv, SilentPlayingHasCause, Queued, isPlaying
      <3> QED
        BY <2>1, <2>4, <2>6, <3>1, <3>2, <3>3 DEF CheckInterruption
    <2>7. CASE RecordConnection
      <3>1. /\ mainQueue' \in Seq(Blocks)
            /\ QueueInv'
            /\ \A op : Queued(op) => Queued(op)'
        BY <2>3, <2>7 DEF RecordConnection
      <3>2. /\ isConnected' = (connection' # "none")
            /\ isConnected' \in BOOLEAN
            /\ handling' = "idle" /\ radio' = self /\ UNCHANGED rechecks
        BY <2>7 DEF RecordConnection
      <3>3. SilentPlayingHasCause'
        BY <2>2, <3>1, <3>2 DEF IInv, SilentPlayingHasCause, Queued, isPlaying
      <3> QED
        BY <2>1, <2>2, <2>4, <2>7, <3>1, <3>2, <3>3 DEF RecordConnection
    <2> QED
      BY <1>2, <2>5, <2>6, <2>7
  <1> QED
    BY <1>1, <1>2

\* Every step of the engine keeps the invariant.
LEMMA StepKeeps == IInv /\ [Next]_vars => IInv'
  <1> SUFFICES ASSUME IInv, [Next]_vars PROVE IInv'
    OBVIOUS
  <1>1. CASE Client
    BY <1>1, SetRadioURLStep, LocalStep DEF Client
  <1>2. CASE Background
    BY <1>2, BackgroundStep
  <1>3. CASE MainThread
    BY <1>3, LoadCompletesStep, NotificationStep, LocalStep
       DEF MainThread, MainQueueBlock
  <1>4. CASE UNCHANGED vars
    <2>1. keepsUp' \in [Assets -> BOOLEAN] /\ rechecks' \in [Assets -> 0..MaxRechecks]
      BY <1>4 DEF vars, IInv, TypeOK
    <2>2. SilentPlayingHasCause'
      BY <1>4 DEF vars, IInv, SilentPlayingHasCause
    <2>3. RadioInv(radio') /\ radio'.playerItem = radio.playerItem
      BY <1>4 DEF vars, IInv
    <2> QED
      BY <1>4, <2>1, <2>2, <2>3, FieldStep DEF vars
  <1> QED
    BY <1>1, <1>2, <1>3, <1>4 DEF Next

\* The inductive invariant holds in every reachable state.
THEOREM Invariance == Spec => []IInv
  <1>1. Init => IInv
    BY InitEstablishes
  <1>2. IInv /\ [Next]_vars => IInv'
    BY StepKeeps
  <1> QED
    BY <1>1, <1>2, PTL DEF Spec

\* The fields agree with each other and with the sound, for any addresses, loads
\* and bounds: every variable keeps its type, exactly the installed item is
\* observed (removing observers cannot raise), playing means an AVPlayer with
\* the item, sound means playing, and silence while playing has one of two causes.
THEOREM SoundAgreesWithState ==
    Spec => /\ []TypeOK
            /\ []ObserversBalanced
            /\ []PlayingHasItem
            /\ []AudibleOnlyWhenPlaying
            /\ []SilentPlayingHasCause
  <1>1. IInv => TypeOK /\ ObserversBalanced
    BY DEF IInv, RadioInv, ObserversBalanced
  <1>2. IInv => PlayingHasItem /\ AudibleOnlyWhenPlaying /\ SilentPlayingHasCause
    BY DEF IInv, RadioInv, PlayingHasItem, AudibleOnlyWhenPlaying
  <1> QED
    BY <1>1, <1>2, Invariance, PTL

\* What the player records about the world is right or explained: only assigning
\* radioURL over an unfinished load can leave another station in the player, and
\* the record of the connection is right, or its correction is queued or at work.
THEOREM RecordsAreExplained ==
    Spec => []OnlyOverlapPlaysAnotherStation /\ []ConnectivityViewSettles
  <1>1. IInv => OnlyOverlapPlaysAnotherStation /\ ConnectivityViewSettles
    BY DEF IInv
  <1> QED
    BY <1>1, Invariance, PTL
=============================================================================
