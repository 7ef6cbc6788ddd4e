----------------------------- MODULE NowPlaying -----------------------------
(***************************************************************************)
(* What the listener sees of the song: MainViewController's track, the     *)
(* album cover on the screen and the lock screen's now-playing info, fed   *)
(* by the stream's timed metadata, by artwork lookups whose answers come   *)
(* back in any order, and by the artwork handlers the system calls.        *)
(* A picture is named by the song it belongs to.                           *)
(***************************************************************************)
EXTENDS Naturals

CONSTANTS
    Songs,      \* raw metadata values a stream sends
    NoSong,     \* metadata nil: artist and name are nil
    NoImage,    \* image nil
    Station,    \* the station's own name and picture
    NoTrack,    \* track == nil
    MaxAsks     \* bound on unanswered lookups of one song

ASSUME NameAssumption ==
    {NoSong, NoImage, Station, NoTrack} \cap Songs = {} /\ NoImage # Station
ASSUME AskAssumption == MaxAsks \in Nat \ {0}

VARIABLES
    track,        \* NoTrack, or a song and the picture found for it
    cover,        \* albumCoverImage.image
    info,         \* MPNowPlayingInfoCenter's title and artwork
    asked,        \* unanswered artwork lookups of each song
    handlers,     \* pictures that artwork handlers are about to put on the cover
    overlapped,   \* history: the track changed over an unanswered lookup
    outdated      \* history: a handler painted the cover with an old picture

vars == <<track, cover, info, asked, handlers, overlapped, outdated>>

Pictures == Songs \cup {NoImage, Station}
Tracks   == [song : Songs \cup {NoSong}, image : Songs \cup {NoImage}]

ASSUME TrackAssumption == NoTrack \notin Tracks

Outstanding == {s \in Songs : asked[s] > 0}

\* Mutant: no picture falls back to nothing.
updateNowPlaying_noFallback(t) ==
    [ title |-> IF t = NoTrack \/ t.song = NoSong THEN Station ELSE t.song,
      art   |-> IF t = NoTrack THEN Station ELSE t.image ]

\* The dictionary updateNowPlaying sends to the lock screen.
updateNowPlaying(t) ==
    [ title |-> IF t = NoTrack \/ t.song = NoSong THEN Station ELSE t.song,
      art   |-> IF t = NoTrack \/ t.image = NoImage THEN Station ELSE t.image ]

\* Mutant: track's didSet does not refresh the lock screen.
setTrack_keepsInfo(t) == track' = t /\ UNCHANGED info

\* Assigning track runs its didSet.
setTrack(t) == track' = t /\ info' = updateNowPlaying(t)

Init ==
    /\ track = NoTrack
    /\ cover = Station
    /\ info = updateNowPlaying(NoTrack)
    /\ asked = [s \in Songs |-> 0]
    /\ handlers = {}
    /\ overlapped = FALSE
    /\ outdated = FALSE

----------------------------------------------------------------------------
\* The cover is painted with the picture of the moment.
setCover(image) == cover' = image /\ outdated' = FALSE

\* Mutant: without metadata the delegate is not told about the artwork.
shouldGetArtwork_silent(s) ==
    \/ s = NoSong /\ UNCHANGED <<cover, outdated, asked>>
    \/ /\ s # NoSong /\ asked[s] < MaxAsks
       /\ asked' = [asked EXCEPT ![s] = @ + 1]
       /\ UNCHANGED <<cover, outdated>>

\* Without metadata artworkDidChange(nil) shows the station at once; with it
\* a lookup starts.
shouldGetArtwork(s) ==
    \/ s = NoSong /\ setCover(Station) /\ UNCHANGED asked
    \/ /\ s # NoSong /\ asked[s] < MaxAsks
       /\ asked' = [asked EXCEPT ![s] = @ + 1]
       /\ UNCHANGED <<cover, outdated>>

\* Mutant: the old picture is kept for the new song.
newTrack_keepsImage(s) ==
    [song |-> s, image |-> IF track = NoTrack THEN NoImage ELSE track.image]

\* metadataDidChange makes a track without a picture.
newTrack(s) == [song |-> s, image |-> NoImage]

\* The stream sends metadata, or stop clears it.
timedMetadataDidChange ==
    /\ \E s \in Songs \cup {NoSong} : setTrack(newTrack(s)) /\ shouldGetArtwork(s)
    /\ overlapped' = (Outstanding # {})
    /\ UNCHANGED handlers

\* playerItemDidChange clears the metadata, then itemDidChange the track.
itemDidChange ==
    /\ setTrack(NoTrack)
    /\ shouldGetArtwork(NoSong)
    /\ overlapped' = (Outstanding # {})
    /\ UNCHANGED handlers

\* What a lookup may answer: the address of the picture, named by the song it
\* was asked for, or nil (no result, bad metadata, no network).
getArtwork(s) == {s, NoImage}

\* Mutant: an answer that brings no picture leaves the cover alone.
artworkDidChange_keepsCover ==
    /\ \E s \in Outstanding : \E artworkURL \in getArtwork(s) :
          /\ asked' = [asked EXCEPT ![s] = @ - 1]
          /\ \/ UNCHANGED <<track, info, cover, outdated>>
             \/ /\ artworkURL # NoImage /\ track # NoTrack
                /\ setTrack([track EXCEPT !.image = artworkURL])
                /\ setCover(artworkURL)
    /\ UNCHANGED <<handlers, overlapped>>

\* An answer arrives.  No address, or one that cannot be fetched, shows the
\* station; otherwise track?.image gets the picture (or nil, if it does not
\* decode) and the cover shows what track?.image then is.
artworkDidChange ==
    /\ \E s \in Outstanding : \E artworkURL \in getArtwork(s) :
          /\ asked' = [asked EXCEPT ![s] = @ - 1]
          /\ \/ setCover(Station) /\ UNCHANGED <<track, info>>
             \/ /\ artworkURL # NoImage
                /\ track = NoTrack
                /\ setTrack(NoTrack)
                /\ setCover(NoImage)
             \/ /\ artworkURL # NoImage
                /\ track # NoTrack
                /\ \E image \in {artworkURL, NoImage} :
                      /\ setTrack([track EXCEPT !.image = image])
                      /\ setCover(image)
    /\ UNCHANGED <<handlers, overlapped>>

\* The system asks the info's MPMediaItemArtwork for its picture; the handler
\* sends a block that puts the picture it captured on the cover.
requestHandler ==
    /\ handlers' = handlers \cup {info.art}
    /\ UNCHANGED <<track, cover, info, asked, overlapped, outdated>>

CoverBlock ==
    /\ \E image \in handlers :
          /\ cover' = image
          /\ outdated' = (image # info.art)
          /\ handlers' = handlers \ {image}
    /\ UNCHANGED <<track, info, asked, overlapped>>

Next ==
    \/ timedMetadataDidChange \/ itemDidChange \/ artworkDidChange
    \/ requestHandler \/ CoverBlock

Spec == Init /\ [][Next]_vars

----------------------------------------------------------------------------
\* The type of every variable.
TypeOK ==
    /\ track \in Tracks \cup {NoTrack}
    /\ cover \in Pictures
    /\ info \in [title : Songs \cup {Station}, art : Songs \cup {Station}]
    /\ asked \in [Songs -> 0..MaxAsks]
    /\ handlers \in SUBSET (Songs \cup {Station})
    /\ overlapped \in BOOLEAN
    /\ outdated \in BOOLEAN

\* Only a lookup that was unanswered when the track changed can put another
\* song's picture on the track: artworkDidChange does not ask which song an
\* answer is for.
OnlyOverlapMislabels ==
    ~overlapped /\ track # NoTrack => track.image \in {NoImage, track.song}

\* Without a track the cover is blank only by such a late answer.
OnlyOverlapBlanksCover == ~overlapped /\ track = NoTrack => cover # NoImage

\* Once every lookup is answered the cover shows the station, nothing, or the
\* picture of the song that plays, with two causes for another one: a lookup
\* that was unanswered when the track changed, and a handler of the system
\* that ran after the picture it captured had been replaced.
OnlyLateBlocksMiscover ==
    Outstanding = {} /\ ~overlapped /\ ~outdated =>
        \/ cover \in {Station, NoImage}
        \/ track # NoTrack /\ cover = track.song

\* Once every lookup is answered, a song's picture on the cover is also the one
\* on the lock screen, however late the answers came, unless a handler painted
\* it that had captured an older one: the app and the lock screen may be wrong
\* together, but do not contradict each other.
ScreensAgree == Outstanding = {} /\ ~outdated /\ cover \in Songs => info.art = cover

\* "Called when the player gets the artwork for the playing song": the picture
\* on the track is the track's.  The code breaks this.
ArtworkOfPlayingSong ==
    track # NoTrack => track.image \in {NoImage, track.song}
=============================================================================
