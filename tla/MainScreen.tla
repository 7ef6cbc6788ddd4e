----------------------------- MODULE MainScreen -----------------------------
(***************************************************************************)
(* The two parts of MainViewController's screen besides the play button    *)
(* and the song: the banner and the volume slider.  They share the main    *)
(* thread and no state.                                                    *)
(***************************************************************************)
EXTENDS AdBanner, VolumeSlider

vars == <<adVars, imageVars, volumeVars>>

Init == InitAds /\ InitImage /\ InitVolume

Next ==
    \/ AdStep /\ UNCHANGED volumeVars
    \/ VolumeStep /\ UNCHANGED <<adVars, imageVars>>

\* The timer fires and SDWebImage's queues run; nobody has to touch the
\* slider, load a station or answer the query.
Fairness == WF_vars(Tick /\ UNCHANGED volumeVars) /\ ImageFairness

Spec == Init /\ [][Next]_vars /\ Fairness

\* The type of every variable, the index within the ads among them.
TypeOK == AdTypeOK /\ VolumeTypeOK
=============================================================================
