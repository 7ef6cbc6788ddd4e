# PB Live Radio: a verification project

TLA+ models of the iOS app in `src/Main/RockRadio` and of the playback engine it
is built on, the pod `FRadioPlayer` (`src/Main/Pods/FRadioPlayer`), with TLC runs
on small instances and TLAPS proofs for all instances. Below, F is
`FRadioPlayer.swift`, M is `MainViewController.swift`, S is
`SideMenuController.swift`, N is the pod's `Reachability.swift`; `F:330` is a line.

## 1. Inventory

The app plays one internet radio. It has no tests (both test targets are empty
templates) and its README is a title, so the statements it can be held to are the
doc comments and comments of the source.

| Component | State | Operations | What makes it correct |
|---|---|---|---|
| `FRadioPlayer` (F) | `radioURL`, `state`, `playbackState`, the `AVPlayer` with its rate and current item, `playerItem`, `lastPlayerItem`, KVO observers, `isConnected`, `headphonesConnected` | assign `radioURL`; `play`, `pause`, `stop`, `togglePlaying`; load completion; interruption, route and reachability handlers; KVO; a closure one second later | observers balanced; sound and reported state agree; the station that plays is the one asked for; every load settles; a stall after an outage is rechecked |
| Metadata and artwork (F, `FRadioAPI.swift`) | unanswered iTunes lookups | `timedMetadataDidChange`, `getArtwork` | the picture belongs to the song |
| `Reachability.swift` of the pod (N) | `flags`, `notifierRunning`, callback and queue of SystemConfiguration | `startNotifier`, `stopNotifier`, callback on a serial queue, `setReachabilityFlags`, post on main | no change is lost, a failed start is deaf, the engine's record follows the connection |
| SDWebImage, as the banner uses it | operation of the view, caches, failed addresses | `sd_setImage`, cache query, download, their blocks, memory warning | the view shows what it was last asked for |
| `MainViewController` (M) | button image, `track`, cover, lock-screen info, `adsArray`, timer, slider | `viewDidLoad`, `playTap`, remote commands, Firestore answers, delegate callbacks | button, cover and lock screen follow the player |
| `SideMenuController` (S) | `socialArray`, table rows | `socialData`, `viewWillAppear`, `cellForRowAt`, `didSelectRowAt` | rows match the data |
| `AppDelegate`, CarPlay | shared `socialArray`, CarPlay's now-playing identifier | launch, remote control, `initiatePlayback` | what is reported plays |
| `PushNotificationManager` with Firebase Messaging | the token in memory, in the keychain and in Firestore | register, token callbacks, fetch | the last token is stored |
| globals (`AppConstants.swift`) | the stream address and links | overwritten by M:198, S:288, S:330 | the address in use is the last one |

**Interaction.** Everything that changes state runs on the main thread, in turns:
taps and remote commands, blocks sent by `DispatchQueue.main.async`, delayed
closures, KVO and Firestore callbacks. Other threads only send blocks: an
`AVURLAsset` that has loaded its `playable` key (F:397), audio-session
notifications (F:473, F:531), the reachability callback (F:493 through
N:240), iTunes answers (F:428), disk and network answers of SDWebImage. The
exception is `Reachability.flags`, written on a serial queue and read on the main
thread, by `reachabilityChanged` up to three times in one turn (F:498, F:510, F:502).
So the hard part is what happens *between* a decision and its effect: a load that
comes back after the address has changed, a recheck that wakes up for an item
that is gone, a notification that runs when the network has changed again, an
artwork answer for the last song. `PROJECT.json` lists these hazards line by line.

## 2. Modules

| Module | Models | Kind |
|---|---|---|
| `RadioPlayer` | the engine, its main queue, loads, network and audio session | specification |
| `Playback` | what the engine promises a client: loaded, playback state, audible | abstract specification |
| `MainView` | `MainViewController`, remote commands and Firestore's address on top of `RadioPlayer` (extends it) | composition |
| `NowPlaying` | track, cover, lock-screen info, artwork lookups | specification |
| `SocialMenu` | the links of the menu: three arrays, three queries, one table | specification |
| `Reachability` | starting the notifier, the serial queue, flags, posts and the engine's record | specification |
| `ConnectionFeed` | what `RadioPlayer` assumes of `Reachability` | abstract specification |
| `WebImage` | SDWebImage's loads into one image view | component |
| `AdBanner` | the rotating ads (extends `WebImage`) | component |
| `VolumeSlider` | slider, setter and the AVPlayer's volume | component |
| `MainScreen` | banner and volume together | composition |
| `PushToken` | the push token from Messaging to Firestore, with restarts of the app | specification |
| `MCRadioPlayer`, `MCMainView`, `MCNowPlaying`, `MCSocialMenu`, `MCReachability`, `MCMainScreen` | symmetry and constants for TLC | model checking |
| `QueueLemmas` | sending and running blocks of a queue | proofs |
| `RadioPlayerProofs` | inductive invariant and safety theorems of `RadioPlayer` | proofs |
| `PlaybackRefinement` | `RadioPlayer` implements `Playback`; action properties of `RadioPlayer` | proofs |
| `MainViewProofs` | invariants of `MainView`, and that it implements `RadioPlayer` | proofs |
| `ReachabilityProofs` | invariants of `Reachability`, and that it implements `ConnectionFeed` | proofs |
| `MainScreenProofs`, `NowPlayingProofs`, `SocialMenuProofs` | invariants of these modules | proofs |

Operators named `x_something` with a comment "Mutant" are variants of `x` with a
plausible bug. No specification uses them; `PROJECT.json` pairs each with the
property that tells it from the code.

### RadioPlayer

Methods of the class call one another and `didSet` observers run inside
assignments, so a method is an operator from fields to fields (`play(r)`,
`resetPlayer(r)`, ...) and an action applies one entry point as a whole: a main
thread turn is atomic, because other threads only send blocks. The exception is
`reachabilityChanged`, whose reads of the connection may each find something else:
it is three steps, one per read, between which other threads run and the main thread
does nothing else (`handling`, `MainIdle`). `radio` holds the synchronous fields (`Fields`). The other
variables are:

- `radioURL`, `assetURL`, `phase`: the address, and for each `AVURLAsset` ever
  created the address it was created for and how far its load is (`fresh`, not
  created; `loading`; `loaded`, its block is queued; `done`);
- `keepsUp`, `rechecks`: each item's `isPlaybackLikelyToKeepUp`, and how many
  delayed closures have captured the item;
- `connection`, `isConnected`, `handling`: what `Reachability` answers now, what the
  engine wrote down, and which read of `reachabilityChanged` is next ("check", the one
  of `checkNetworkInterruption`; "record", the last; "idle", outside the handler);
- `interrupted`, `headphonesConnected`, `mainQueue`;
- `overlap`, a history variable: the last assignment of `radioURL` came while a
  load was unfinished. The code does not have it; properties use it to say when
  the wrong station is excused.

| Code | Action |
|---|---|
| `radioURL.didSet`, `radioURLDidChange` | `SetRadioURL` (`radioURLDidChange` for the fields, `BeginLoad` for the load) |
| `play`, `pause`, `stop`, `togglePlaying` | `Play`, `Pause`, `Stop`, `Toggle` |
| `preparePlayer`, its completion handler | `preparePlayer(a)` on another thread, `LoadCompletes` on main |
| `handleInterruption` | `InterruptionBegan`, `InterruptionEnded`, and `InterruptionBlock` on main |
| `handleRouteChange` | `handleRouteChange`, and `RouteBlock` on main |
| `flags.didSet` | `FlagsChange`: the flags and the post, in one step |
| `reachabilityChanged` on main | `reachabilityChanged` (F:498), `CheckInterruption` (F:499) if it has to, `RecordConnection` (F:502) |
| `checkNetworkInterruption` and its closure | operator of `CheckInterruption` and `ObserveBufferEmpty`; `Recheck(a)` |
| `observeValue` | `ObserveStatus`, `ObserveBufferEmpty`, `ObserveLikelyToKeepUp` |

What is assumed of the system: `AVPlayer.rate` is the requested rate, changed by
`play` and `pause` (an interruption may also set it to 0 before its notification
is handled); `replaceCurrentItem` keeps it; dropping the player drops both. KVO
callbacks come on the main thread between turns and only for observed items; an
item's `keepsUp` may flip whenever it is observed. The main queue is first in,
first out; delayed closures fire in any order. The connection kind is read when
the code reads it. (`observeValue` reads it once, so its callback is one step.) The flags may change without changing the
connection; the post is sent all the same.

`headphonesConnected` is always false: the loop of `checkHeadphonesConnection`
sets it and F:528 clears it again. The model says so, and `PauseBlocksSilence`
depends on it: with the loop's answer kept, unplugging headphones would not pause.

### Playback

Three variables and seven steps. `audible` is mapped to "rate 1 and an item in
the AVPlayer", `loaded` to "playerItem is not nil". It says that sound starts only
by `Play`, `Install` or `Resume`, that `Resume` needs the state to say playing,
that controls without a station do nothing, and, with its fairness, that silence
under "playing" does not last.

### MainView

Extends `RadioPlayer` with the button's image, the global address (`stream`, as
`URL(string:)` sees it: `NoURL` when it cannot be parsed), the addresses that
arrived in radio documents (`listed`) and the unanswered queries. `viewDidLoad`
and `tapToPlay` are one main-thread turn each: select the station (which assigns
`radioURL`), then play or toggle. The delegate callback
`playbackStateDidChange` is applied to the fields a turn ends with; `notified`
says that it was called at all, because it is called for changes only and
`playTap` paints the image afterwards. The lock-screen commands compare
`rate` with 0 and 1, so that without a player neither succeeds. Drawing a row of
the menu overwrites the address (S:330): any address that has arrived may be
written again at any time, which is a superset of what the rows do. `stopTap` and
`changeVolume` are not connected in the xib.

### NowPlaying

A song is one value; splitting the metadata into artist and name and removing
brackets are abstracted, because no property tells songs apart by their text. A
picture is named by its song. A lookup may be answered at any time, in any order,
by a picture or by nothing; the picture may fail to download or to decode. The
artwork handler that the system calls puts the picture it captured on the cover
through the main queue. `overlapped` (the track changed over an unanswered lookup)
and `outdated` (the last to paint the cover was a handler with an old picture) are
history variables.

### SocialMenu

`MainViewController` asks for the collection "social" twice (M:100 and, after the
ads, M:181) and `SideMenuController` once, ordered by "sort", which leaves out
documents without that field. Each appends the answer to its own array and
overwrites the app delegate's. The menu copies that array when it loads and when
it appears (S:37, S:49); only loading and its own answer reload the table. `shown`
is the table: the link drawn in each row. An answer may be complete, may miss
documents (Firestore answers from its cache when offline, and the collection may
be edited between queries) or may be an error; what it holds is in the query's
order, each document once (`Answers`). The controllers may load in either
order. `short` and `overwritten` are history variables: some answer missed
documents; `MainViewController` wrote the shared array since the last reload.
Reading out of range would end the program, so that drawing and tapping exist only
for rows with data, and `OnlyShortAnswersLoseRows` says when there are others.

### Reachability

The initialiser of `FRadioPlayer` (F:266) is a program counter: set the callback,
set the dispatch queue, send the initial check with `sync` and wait for it, set
`notifierRunning`, read the connection. The first two steps and the check may fail,
which stops the notifier; `try?` throws the error away. From the second step on a
change of the network puts a callback on the serial queue, before or after the
check, so that callbacks run while the initialiser waits. The check reads the flags
of the moment (`network`), a callback those it was sent with. A callback that finds
the notifier stopped does nothing. Assigning `flags` counts a post if they differ;
`reachabilityChanged` is the last line of the engine's handler, which writes the
record; the post counts until then. Reading the
connection without flags asks for them again (N:98), which happens only after a
failed start. `connectionOf` is the table N:252 for a device.

`ConnectionFeed` is the part of this that `RadioPlayer` models as `FlagsChange`
and `reachabilityChanged`: any change is followed by a notification, and the record
is written from the connection of that moment. `ImplementsFeed` shows that the
start-up, with its failures and early callbacks, gives no more than that.

### WebImage, AdBanner, VolumeSlider, MainScreen

A load of SDWebImage is a record: its address, its stage (`querying` on the I/O
queue; `hit` or `miss`, the cache's block is on the main queue; `downloading`;
`loaded`, `bad`, `unreachable`, the loader's block is on the main queue) and whether
it was cancelled. `sd_setImage` is one main-thread turn: cancel the view's
operation, clear the view (there is no placeholder), refuse an address that failed,
show a picture from memory, or start a load. A cancelled cache query is answered at
once and its block does nothing; a cancelled download may have its block queued or
its data in the decoder. `bad` stands for the errors that put an address on the list
of failures, `unreachable` for those of the network, which do not. A picture from the
network enters both caches in the block that shows it. The manager, its caches and its
list of failures are shared with the icons of the menu (S:335, S:348); the model assumes
that no icon has the address of an ad's picture, so that the banner sees only its own
loads. An address that cannot be parsed behaves as a blank one and is left out.

`AdBanner` has the query's answer, the timer and its captured index. Firestore
is asked once (M:98), so `adsData` fires once; an error leaves no timer. An ad
without an image changes the link and not the picture (M:284), which is why
`PictureBelongsToAd` speaks of ads with one.

Volumes are numerators over the slider's width. A finger may end a drag anywhere
(`Reach`); the position is clamped to the margins, and the setter refuses what is
out of range and has no effect without an AVPlayer. `viewDidLoad` sets 100, which is
refused. `renewed` is a history variable: the AVPlayer is newer than the last drag.

### PushToken

`didFinishLaunching` creates the manager, lets it register and returns; the local
constant was its only owner, so `delegate` becomes false. Messaging finds a
token in the keychain when it starts, or fetches one; either is announced to the
delegate if there is one. The app may be terminated after its launch and launched
again; keychain and document survive.

## 3. Runs

| Run | Question | Result |
|---|---|---|
| `radio_safety` | do fields, observers, sound and reported state stay consistent, and does the engine implement `Playback`? | holds, 2.31 million states |
| `radio_liveness` | do loads settle, does silence under "playing" get resolved, does a connection that comes while an outage is on record lead to a recheck? | holds, 317 thousand states |
| `main_view` | does the button follow the player, does the view use the engine correctly? | holds, 1.44 million states |
| `social_menu` | when can a row have no data, a tap open another link, a link appear twice? | holds, 25846 states |
| `now_playing` | who can mislabel the track or the cover, do the cover and the lock screen agree? | holds, 4380 states |
| `reachability` | is a change lost while the notifier starts or fails to, does the record catch up, does it implement `ConnectionFeed`? | holds, 30426 states |
| `main_screen` | does the picture belong to the ad, does every ad come round, is the volume the slider's? | holds, 45408 states |
| `stale_station` | is the station in the player the one `radioURL` names? (F:150) | no |
| `reload_needed` | is the item reloaded by a recheck the one that needed it? (F:514) | no |
| `loss_noticed` | is a stall in an outage rechecked once the network is back? (F:497, F:505) | no |
| `artwork_late` | is the picture the playing song's? (F:122) | no |
| `push_token` | is the token callback called at startup and for new tokens? (`PushNotificationManager.swift:60`) | no |

**Findings.** The five violations are short. `stale_station`: the view loads,
Firestore changes the address, a tap starts the second load, and the first load
finishes while the second is unfinished: `setupPlayer` installs the station of the old
address. The second load, when it finishes, replaces it; had it finished before the
first, the old station would stay. The invariant
`OnlyOverlapPlaysAnotherStation` shows that this is the only way. `reload_needed`:
an item stalls, is replaced within the second, and the closure, which captured the
old item, reloads the new one. `loss_noticed`: an outage is on record; a handler reads
"none" at F:498, the network comes back, and the same handler reads a connection at
F:502 and records it. The notification of the recovery finds `isConnected` true, and nobody
rechecks the stalled item. The property has another way to fail that needs no second
read: the network goes and comes back before the first notification runs, and both
notifications find a connection and `isConnected` true. `RecoveryIsNoticed` (in
`radio_liveness`) says what is left: with an outage on record, a connection and no
handler past its first read, a stalled item is rechecked unless it recovers or the
connection goes again. `artwork_late`: the lookup of one song is answered after the
track has changed (in TLC's trace, to one without a song). `push_token`: the launch returns, then a token is fetched;
the weak delegate is gone and the document is not written before the next launch.

`StartsAreAskedFor` (in `radio_safety`) is the other side of the engine's automatic
calls: a recheck, a reload, a change of the network or of an item never makes the
radio play that did not; only `play`, a toggle, a finished load and the end of an
interruption do.

**Bounds.** Two assets give two overlapping loads in either order, which all
stale-load behaviours need; a third adds only a repetition. Two addresses tell the
stations apart; where no property compares stations one is enough. Two connection
kinds (safety) let the connection change without an outage. `MaxQueue` 2 lets two
notifications coalesce and a block wait behind another one; finished loads are not
limited by it. In `radio_liveness` and the view runs it is 1, next to the loads'
blocks; the flags still change while a handler reads them. `loss_noticed` has 2, for the
notifications of the loss and of the recovery, and one asset.
`MaxRechecks` 1 is one pending closure per item, two in all. Three songs with two
lookups each allow an answer for neither the last nor the current song. Three
links in two orders make every row differ between the queries. In `reachability`
four callbacks and posts may wait, which lets callbacks stand before and after the
check and posts coalesce. In `main_screen` there are three ads, the second without an
image, and two operations, so that a cancelled load overlaps the current one; a
third operation takes TLC twelve times the states and adds a second cancelled load.
The slider's width and margin leave room on both sides of the margins. Symmetry is
used for assets, addresses and songs in safety runs only (in `MCMainView` only for
assets, as `DefaultURL` names an address). Deadlock is checked in every run.

The number of assets also bounds how often an address can be assigned; when all
are used the engine goes on without new loads.

**Fairness.** `Fairness` is weak for the callbacks of asset loads, which the system
delivers, and strong for blocks of the main queue and for delayed closures. The run
loop really runs every block and every closure that is due. The strong form is there
because a closure cannot run while the main thread is in `reachabilityChanged`, and
because the bound `MaxRechecks` can hold a reachability block back until a closure
has fired. Nothing is assumed of taps, the network, interruptions or Firestore.

In `reachability` the initialiser, the serial queue and the posts are weakly fair:
the main thread and the dispatch queues run. In `main_screen` the timer is (a
repeating `Timer` on the main run loop), and so is each step of a load: queues run
their blocks and a request ends, by its time limit at the latest.

## 4. Proofs

Every invariant that a run checks is proved, for arbitrary sets and every bound, and
so are both action properties and the three refinements without their fairness. The
assumptions are the named ones of the modules, and TLC evaluates them on the
instances: in `RadioPlayer`, `NoURL`, `NoItem` and "none" are not members of the sets
they extend, `isAutoPlay` is Boolean, the bounds are positive; the other modules say
the same of their constants.

`RadioPlayerProofs`: `Spec => []IInv`, and from it `TypeOK`, `ObserversBalanced`,
`PlayingHasItem`, `AudibleOnlyWhenPlaying`, `SilentPlayingHasCause`,
`OnlyOverlapPlaysAnotherStation` and `ConnectivityViewSettles`. The properties are
not inductive by themselves. `IInv` adds

- `RadioInv`: a player exists exactly when there is an item, and the AVPlayer holds
  that item or nothing. Without it, `reloadItem` in a stale recheck could put
  back an item that was let go of;
- `QueueInv`: a queued load block is for a load that came back and is not handled
  yet, and no load has two blocks. Without it a load could complete twice, and
  `setupPlayer` with the installed item would be a silent no-op;
- `LoadInv`: the installed item's load is done, so that the next completion is for
  another item; without an overlap unfinished loads are for the current address,
  which is what makes `OnlyOverlapPlaysAnotherStation` survive `LoadCompletes`;
- `headphonesConnected = FALSE`.

`ConnectivityViewSettles` says that the record is right, or a notification is queued, or
a handler has not come to its last line; it survives the three reads, since only the
last one writes.

One lemma per method says what it does to consistent fields, one per action that
the invariant survives.

`PlaybackRefinement`: `Spec => ImplementsPlayback`. A relation `Moves` on fields
lists the abstract steps; each method is shown to move, then each action, then the
relation is matched with `Playback`'s actions. `PauseBlocksDoSilence` proves the
action property that a pause block leaves the AVPlayer silent. `StartsHaveACause`
proves `StartsAreAskedFor` action by action: outside the client's calls, finished
loads and resumes, the fields never go from not playing to playing; the case that
takes an argument is the recheck, whose `reloadItem` touches the item and not the state.

`MainViewProofs` builds on the invariant of the engine. The button is painted when the
delegate is told of a change, so the engine must never change `playbackState`
silently: `Quiet(r, t)` says that a method which leaves `notified` unset has left
`playbackState` as it was, the relation is transitive, and every method and every
step of the engine is shown to be quiet. From this

- `PlayingIsShown` proves `PlayingShowsPause` and `ViewTypeOK` with the inductive
  `ViewInv`. It adds `QueriesBounded`: the ads' answer sends one more query, so as
  long as it is out at most two of the three others are;
- `IdlePauseHasCause` proves `PauseImageExplained` from `IdlePauseExplained`: under a
  pause image that nothing plays for, the player is empty. Otherwise an item could
  change `state` from "error" without a repaint. The theorem has the hypothesis
  `isAutoPlay`, which `FRadioPlayer` initialises to true and the app never changes;
  without it the property is false, since a finished load would not start;
- `ViewDrivesEngine` proves `ImplementsRadioPlayer`. Selecting a station and then
  playing or toggling are two calls of the engine in one turn; they are one
  `SetRadioURL`, because the reset leaves no player for the second call
  (`SelectingEmpties`). What is proved of the engine therefore holds in the app.

`ReachabilityProofs`: `Spec => []IInv` for any sets of flags, then
`TypeOK`, `FlagsFollowNetwork`, `FailedStartIsDeaf`, `RecordFollowsFlags` and
`ImplementsFeed`. `FlagsFollowNetwork` speaks of the time after the check; `IInv`
adds what makes it true there, and `TypeOK` with it: the check is in the queue once and exactly while the
initialiser waits, and while callbacks come the last entry of the queue is the check
or the network. So when the check runs, whatever stands behind it ends with the
network; when nothing does, the check itself has read it.

`MainScreenProofs`: `PictureBelongsToAd`, `FailedNeverShown` and the range of the
index from `BannerInv`: a load that nobody cancelled is the view's own, it is for
the address last asked for, and the view is blank until it ends; and that address is
the ad's. `OnlyNewPlayerForgetsVolume` is inductive with its types; with the banner's
it gives `TypeOK` of the whole screen.

`NowPlayingProofs`: all invariants of `NowPlaying`, from `LookupsAreCurrent` (without an
overlap only the current song has been looked up) and `InfoMatchesTrack` (the lock screen
has what `updateNowPlaying` makes of the track, so that a handler captures the track's
picture). `ScreensAgree` needs neither: until a new song's lookup is answered there is
one outstanding, and every answer that paints a picture also puts it on the track.

`SocialMenuProofs`: `TapOpensLinkShown`, from `RowsAreCurrent`: until
`MainViewController` publishes again, the menu's array is the shared one and the rows
show it. `LinksComeFromAnswers` proves the other invariants from `MenuInv`:

- `RowsAreBacked`: as long as every answer was complete, the table is no longer than
  the menu's array, than the shared array that `viewWillAppear` may put in its place,
  and than the main controller's array with `MenuOrder` added. So the main controller's
  next answer publishes enough for every row, by `SortAssumption`: the ordered query
  returns no more documents than the plain one, as Firestore leaves out those without
  the field;
- `CopiesBounded`: each of the three arrays has a link at most once for each query that
  could have reached it and is not outstanding, because appending an answer, which has a document once
  (`DocumentAssumption`), adds at most one copy (`AppendedCopies`).

Only model-checked: the temporal properties that rest on fairness, which is beyond the
prover (`LoadSettles`, `RecoveryIsNoticed`, `ImplementsFairPlayback`,
`RecordCatchesUp`, `EveryAdComesRound`). The violated properties of the findings have
no theorems, as they are false.

## 5. Not modelled

Drawing, layout and gestures; the text of metadata, requests and notifications;
opening links, mail and telephone; `PushNotificationSender`, the song response
classes and the helpers `Reachability` and `AVPlayer` under `Extensions`, which
nothing uses; the audio-session category calls, whose failures are ignored; the
library pods except for what the banner uses of SDWebImage and what the push manager
uses of Messaging. They are most of the repository's lines (Firestore, gRPC,
BoringSSL, abseil, leveldb), vendored unchanged and seen by the app only through a
few calls. `deinit` of the singleton cannot run. `enableArtwork` and `isAutoPlay` are
never changed by the app; `isAutoPlay` is a constant of the model.

CarPlay: its content items are constants, and initiating playback sets
`nowPlayingIdentifiers` and completes the request without a call to the player
(`AppDelegate+CarPlay.swift:40`). There is no state to model and no statement to
hold it to; the hazard is listed.

Not reached by the app: `changeVolume`, `refreshData` and `stopTap` of M (nothing is
wired to them), the empty `execute()`, `notifications()`. The volume slider is wired but
sits in a stack view that `MainViewController.xib:215` hides, so that no finger reaches it
as long as the view stays hidden; `VolumeSlider` models what its gesture would do. While a finger moves
(`.changed`) the slider only draws; the handle may stay behind the clamped position
at either end.

## 6. Plan

What is left, in order of importance:

1. The delegate callbacks of `NowPlaying` driven by the engine's item changes instead
   of by any metadata at any time (a composition of `NowPlaying` and `RadioPlayer`).
2. The menu's icons next to the banner, sharing SDWebImage's manager and addresses.
