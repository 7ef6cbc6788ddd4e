------------------------------ MODULE MainView ------------------------------
(***************************************************************************)
(* MainViewController on top of FRadioPlayer: the play button and what it  *)
(* shows, the lock-screen commands, and the global stream address that     *)
(* Firestore answers overwrite while the player runs.                      *)
(***************************************************************************)
EXTENDS RadioPlayer

CONSTANT DefaultURL     \* the address compiled into AppConstants.swift

ASSUME DefaultAssumption == DefaultURL \in URLs

VARIABLES
    viewLoaded,   \* viewDidLoad has run
    stream,       \* URL(string: radioURL) of the global: NoURL if unparsable
    listed,       \* addresses in the radio documents answered so far
    adsAsked,     \* the query for the ads is unanswered
    socialAsked,  \* number of unanswered queries for the social links
    image         \* the image of the play button: "play" or "pause"

dataVars == <<stream, listed, adsAsked, socialAsked>>
viewVars == <<viewLoaded, dataVars, image>>
appVars  == <<vars, viewVars>>

AppInit ==
    /\ Init
    /\ viewLoaded = FALSE
    /\ stream = DefaultURL
    /\ listed = {}
    /\ adsAsked = FALSE
    /\ socialAsked = 0
    /\ image = "play"

\* Mutant: the handler forgets the other branch.
playbackStateDidChange_onlyPauses(r) == IF r.notified THEN "play" ELSE image

\* radioPlayer(_:playbackStateDidChange:) repaints the button; the delegate
\* is called only for a change, and last for the state the step ends in.
playbackStateDidChange(r) ==
    IF r.notified THEN (IF isPlaying(r) THEN "pause" ELSE "play") ELSE image

\* Assigning selectedIndex assigns the player's radioURL the global address.
selectStation(r) == radioURLDidChange(r, stream)

----------------------------------------------------------------------------
\* Sends the queries (the side menu, loaded with the view, sends its own),
\* selects station 0, which assigns radioURL, and calls play.
viewDidLoad ==
    /\ ~viewLoaded
    /\ viewLoaded' = TRUE
    /\ adsAsked' = TRUE
    /\ socialAsked' = 2
    /\ BeginLoad(stream)
    /\ radio' = play(selectStation(self))
    /\ image' = playbackStateDidChange(radio')
    /\ UNCHANGED <<stream, listed>>

\* Mutant: a tap reuses the installed item instead of selecting the station.
tapToPlay_keepsItem ==
    /\ ~isPlaying(radio)
    /\ BeginLoad(stream)
    /\ radio' = togglePlaying(self)
    /\ image' = "pause"

\* The two branches of playTap; each paints the button after the calls.
tapToPlay ==
    /\ ~isPlaying(radio)
    /\ BeginLoad(stream)
    /\ radio' = togglePlaying(selectStation(self))
    /\ image' = "pause"

\* Mutant: both branches end with the same image.
tapToPause_paintsPause ==
    /\ isPlaying(radio)
    /\ Pause
    /\ image' = "pause"

tapToPause ==
    /\ isPlaying(radio)
    /\ Pause
    /\ image' = "play"

playTap ==
    /\ viewLoaded
    /\ tapToPlay \/ tapToPause
    /\ UNCHANGED <<viewLoaded, dataVars>>

\* The lock screen's commands compare the optional rate: nil is neither.
playCommand  == radio.player /\ radio.rate = 0 /\ Play
pauseCommand == radio.player /\ radio.rate = 1 /\ Pause

\* Remote-control events reach the player through the responder chain.
remoteControlReceived == Play \/ Pause \/ Toggle

Remote ==
    /\ viewLoaded
    /\ playCommand \/ pauseCommand \/ remoteControlReceived
    /\ image' = playbackStateDidChange(radio')
    /\ UNCHANGED <<viewLoaded, dataVars>>

----------------------------------------------------------------------------
(* Firestore answers, on the main queue, in any order.                     *)

\* Mutant: an answer asks for the ads again.
adsData_asksAgain ==
    /\ MainIdle /\ adsAsked
    /\ socialAsked' = socialAsked + 1
    /\ UNCHANGED <<vars, viewLoaded, stream, listed, adsAsked, image>>

\* After the ads the social links are asked for again; an error ends it.
adsData ==
    /\ MainIdle /\ adsAsked
    /\ adsAsked' = FALSE
    /\ socialAsked' \in {socialAsked, socialAsked + 1}
    /\ UNCHANGED <<vars, viewLoaded, stream, listed, image>>

\* Documents marked isRadio overwrite the global address, the last one wins,
\* and the menu keeps them; an error, or an answer without one, does neither.
socialData ==
    /\ MainIdle /\ socialAsked > 0
    /\ socialAsked' = socialAsked - 1
    /\ \E docs \in SUBSET (URLs \cup {NoURL}) :
          /\ listed' = listed \cup docs
          /\ stream' \in IF docs = {} THEN {stream} ELSE docs
    /\ UNCHANGED <<vars, viewLoaded, adsAsked, image>>

\* Drawing a row of the menu overwrites it too, with that row's address.
cellForRowAt ==
    /\ MainIdle
    /\ stream' \in listed
    /\ UNCHANGED <<vars, viewLoaded, listed, adsAsked, socialAsked, image>>

----------------------------------------------------------------------------
\* Everything the engine does by itself.
EngineOnMain ==
    /\ MainThread
    /\ image' = playbackStateDidChange(radio')
    /\ UNCHANGED <<viewLoaded, dataVars>>

EngineInBackground == Background /\ UNCHANGED viewVars

AppNext ==
    \/ viewDidLoad \/ playTap \/ Remote
    \/ adsData \/ socialData \/ cellForRowAt
    \/ EngineOnMain \/ EngineInBackground

AppSpec == AppInit /\ [][AppNext]_appVars

----------------------------------------------------------------------------
\* The type of the view's variables.
ViewTypeOK ==
    /\ viewLoaded \in BOOLEAN
    /\ stream \in URLs \cup {NoURL}
    /\ listed \in SUBSET (URLs \cup {NoURL})
    /\ adsAsked \in BOOLEAN
    /\ socialAsked \in 0..3
    /\ image \in {"play", "pause"}

\* While the radio plays the button offers pause, whoever started it: the
\* tap, the lock screen, a late load or the end of an interruption.
PlayingShowsPause == isPlaying(radio) => image = "pause"

\* A button that offers pause for a radio that does not play has an
\* explanation: a load is unfinished, or the last one failed or had no
\* address (playTap paints "pause" before it knows, and a failure of a load
\* without an item changes no playback state that would repaint it).
PauseImageExplained ==
    image = "pause" /\ ~isPlaying(radio) =>
        InFlight # {} \/ radio.state \in {"error", "urlNotSet"}

\* The view drives the engine only through its calls: tapping assigns
\* radioURL and toggles in one step, and that step is one of the engine's.
ImplementsRadioPlayer == Spec

\* "The player current radio URL" is the property radioURL: the item in the
\* player was loaded from it.  The code breaks this.
CurrentStationPlays ==
    radio.playerItem # NoItem => assetURL[radio.playerItem] = radioURL
=============================================================================
