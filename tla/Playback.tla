------------------------------ MODULE Playback ------------------------------
(***************************************************************************)
(* What a radio player promises its clients, without AVPlayer, items,      *)
(* queues or the network: whether a station is loaded, the playback state  *)
(* the delegate hears of, and whether it can be heard.                     *)
(***************************************************************************)
VARIABLES
    loaded,      \* a station is installed
    playback,    \* the state reported to the client
    audible      \* the station is being played

vars == <<loaded, playback, audible>>

TypeOK ==
    /\ loaded \in BOOLEAN
    /\ playback \in {"playing", "paused", "stopped"}
    /\ audible \in BOOLEAN

Init == loaded = FALSE /\ playback = "stopped" /\ audible = FALSE

\* A loaded station obeys its controls; without one the controls do nothing.
Play  == loaded /\ playback' = "playing" /\ audible' = TRUE /\ UNCHANGED loaded
Pause == loaded /\ playback' = "paused" /\ audible' = FALSE /\ UNCHANGED loaded
Stop  == loaded /\ playback' = "stopped" /\ audible' = FALSE /\ UNCHANGED loaded

\* A station is installed, replacing a loaded one after pausing it; playing
\* starts at once or waits for Play.
Install ==
    /\ loaded' = TRUE
    /\ \/ playback' = "playing" /\ audible' = TRUE
       \/ /\ playback' = IF loaded THEN "paused" ELSE playback
          /\ audible' = FALSE

\* The station is let go of, which leaves the player paused.
Unload == loaded /\ loaded' = FALSE /\ playback' = "paused" /\ audible' = FALSE

\* The network or the audio session silences the station, the state stays.
Stall == loaded /\ audible /\ audible' = FALSE /\ UNCHANGED <<loaded, playback>>

\* It comes back by itself, but only if the state still says playing.
Resume ==
    /\ loaded /\ playback = "playing" /\ ~audible
    /\ audible' = TRUE
    /\ UNCHANGED <<loaded, playback>>

Next == Play \/ Pause \/ Stop \/ Install \/ Unload \/ Stall \/ Resume

Spec == Init /\ [][Next]_vars

\* Silence under "playing" does not last: the station resumes or the state
\* is corrected.
Settle == Resume \/ (playback = "playing" /\ ~audible /\ Pause)

FairSpec == Spec /\ WF_vars(Settle)
=============================================================================
