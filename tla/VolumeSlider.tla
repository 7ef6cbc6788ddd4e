---------------------------- MODULE VolumeSlider ----------------------------
(***************************************************************************)
(* The volume: MainViewController's home-made slider, the setter of        *)
(* FRadioPlayer and the AVPlayer of the moment, which is created by a      *)
(* finished load and dropped by the next one.  Volumes are numerators over *)
(* the width of the slider: Width is full volume.                          *)
(***************************************************************************)
EXTENDS Integers

CONSTANTS
    Width,     \* slideView.frame.width
    Offset,    \* the margin at both ends, 18 in the code
    Reach,     \* how far a finger may drag beyond either end
    NoPlayer   \* volume == nil: there is no AVPlayer

\* A slider narrower than both margins traps when the range is formed.
ASSUME WidthAssumption ==
    /\ Width \in Nat /\ Offset \in Nat /\ Reach \in Nat
    /\ Width > 0 /\ 2 * Offset <= Width
ASSUME PlayerAssumption == NoPlayer \notin Int

VARIABLES
    currentPosition,  \* where the last drag ended
    volume,           \* player?.volume
    renewed           \* history: the AVPlayer is newer than the last drag

volumeVars == <<currentPosition, volume, renewed>>

\* FRadioPlayer.volume's setter: out of range or without an AVPlayer, nothing.
setVolume(v) ==
    volume' = IF v \in 0..Width /\ volume # NoPlayer THEN v ELSE volume

\* viewDidLoad has set the volume to 100, before there is a player.
InitVolume ==
    /\ currentPosition = 0
    /\ volume = NoPlayer
    /\ renewed = FALSE

\* Mutant: the volume is taken from the finger, the position from the range.
slidePanGesture_unclamped ==
    \E nextPosition \in -Reach..(Width + Reach) :
        /\ currentPosition' = IF nextPosition < Offset THEN Offset
                              ELSE IF nextPosition > Width - Offset THEN Width - Offset
                              ELSE nextPosition
        /\ setVolume(nextPosition)
        /\ renewed' = (renewed /\ volume = NoPlayer)

\* A drag ends (.ended); .changed and .cancelled move the drawing only.
slidePanGesture ==
    \E nextPosition \in -Reach..(Width + Reach) :
        /\ currentPosition' = IF nextPosition < Offset THEN Offset
                              ELSE IF nextPosition > Width - Offset THEN Width - Offset
                              ELSE nextPosition
        /\ setVolume(currentPosition')
        /\ renewed' = (renewed /\ volume = NoPlayer)

\* A load finishes: setupPlayer makes an AVPlayer, at full volume, if there
\* is none.
setupPlayer ==
    /\ volume = NoPlayer
    /\ volume' = Width
    /\ renewed' = TRUE
    /\ UNCHANGED currentPosition

\* Assigning radioURL, or a failed load, drops the AVPlayer.
resetPlayer ==
    /\ volume # NoPlayer
    /\ volume' = NoPlayer
    /\ renewed' = FALSE
    /\ UNCHANGED currentPosition

VolumeStep == slidePanGesture \/ setupPlayer \/ resetPlayer

----------------------------------------------------------------------------
VolumeTypeOK ==
    /\ currentPosition \in 0..Width
    /\ volume \in 0..Width \cup {NoPlayer}
    /\ renewed \in BOOLEAN

\* The radio is as loud as the slider says, unless its AVPlayer was created
\* after the last drag, and is then at full volume: the setter never refuses
\* what the slider sends, and nothing else changes the volume.
OnlyNewPlayerForgetsVolume ==
    volume # NoPlayer => volume = IF renewed THEN Width ELSE currentPosition
=============================================================================
