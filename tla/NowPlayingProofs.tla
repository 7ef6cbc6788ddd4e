-------------------------- MODULE NowPlayingProofs --------------------------
(***************************************************************************)
(* Proofs about NowPlaying, for any songs and any number of lookups.       *)
(***************************************************************************)
EXTENDS NowPlaying, TLAPS

\* Without an overlap only the song that plays has been looked up.
LookupsAreCurrent ==
    ~overlapped => \A s \in Outstanding : track # NoTrack /\ s = track.song

\* What a handler captures is the picture of the track, or the station's.
InfoMatchesTrack == info = updateNowPlaying(track)

Promises ==
    /\ OnlyOverlapMislabels
    /\ OnlyOverlapBlanksCover
    /\ OnlyLateBlocksMiscover
    /\ ScreensAgree

IInv == TypeOK /\ InfoMatchesTrack /\ LookupsAreCurrent /\ Promises

\* A wrong or blank picture on the track or on the cover needs a lookup that was
\* unanswered when the track changed, or a handler that ran late, and after late
\* answers the cover and the lock screen still agree: in every order of
\* metadata, answers and handlers.
THEOREM OnlyLateAnswersMislead ==
    Spec => [](/\ TypeOK /\ OnlyOverlapMislabels /\ OnlyOverlapBlanksCover
               /\ OnlyLateBlocksMiscover /\ ScreensAgree)
<1> USE NameAssumption, AskAssumption, TrackAssumption
<1>1. Init => IInv
  <2> SUFFICES ASSUME Init PROVE IInv
    OBVIOUS
  <2>1. Outstanding = {}
    BY DEF Init, Outstanding
  <2>2. TypeOK
    <3>1. info \in [title : Songs \cup {Station}, art : Songs \cup {Station}]
      BY DEF Init, updateNowPlaying
    <3>2. asked \in [Songs -> 0..MaxAsks]
      BY DEF Init
    <3> QED
      BY <3>1, <3>2 DEF Init, TypeOK, Pictures
  <2> QED
    BY <2>1, <2>2 DEF Init, IInv, Promises, InfoMatchesTrack, OnlyOverlapMislabels,
       OnlyOverlapBlanksCover, OnlyLateBlocksMiscover, ScreensAgree, LookupsAreCurrent
<1>2. IInv /\ [Next]_vars => IInv'
  <2> SUFFICES ASSUME IInv, [Next]_vars PROVE IInv'
    OBVIOUS
  <2> USE DEF Promises
  <2>0. /\ TypeOK
        /\ \A s \in Songs : asked[s] \in Nat
        /\ \A s \in Songs : s \in Outstanding <=> asked[s] > 0
        /\ \A s \in Songs : s \in Outstanding' <=> asked'[s] > 0
        /\ Outstanding \subseteq Songs /\ Outstanding' \subseteq Songs
    BY DEF IInv, TypeOK, Outstanding
  <2>1. \A t \in Tracks \cup {NoTrack} :
           updateNowPlaying(t) \in [title : Songs \cup {Station}, art : Songs \cup {Station}]
    BY DEF updateNowPlaying, Tracks
  <2>2. ASSUME NEW s \in Songs \cup {NoSong}, NEW t \in Tracks \cup {NoTrack},
               t \in Tracks => t.song = s /\ t.image = NoImage,
               t = NoTrack => s = NoSong,
               setTrack(t), shouldGetArtwork(s),
               overlapped' = (Outstanding # {}), UNCHANGED handlers
        PROVE  IInv'
    <3>1. track' = t /\ info' = updateNowPlaying(t)
      BY <2>2 DEF setTrack
    <3>2. CASE s = NoSong
      <4>1. cover' = Station /\ outdated' = FALSE /\ asked' = asked
        BY <2>2, <3>2 DEF shouldGetArtwork, setCover
      <4>2. Outstanding' = Outstanding
        BY <4>1 DEF Outstanding
      <4>3. TypeOK'
        BY <2>0, <2>1, <2>2, <3>1, <4>1 DEF TypeOK, Pictures
      <4> QED
        BY <2>2, <3>1, <4>1, <4>2, <4>3 DEF IInv, InfoMatchesTrack, OnlyOverlapMislabels,
           OnlyOverlapBlanksCover, OnlyLateBlocksMiscover, ScreensAgree, LookupsAreCurrent
    <3>3. CASE s # NoSong
      <4>1. s \in Songs /\ asked[s] < MaxAsks /\ asked' = [asked EXCEPT ![s] = @ + 1]
            /\ UNCHANGED <<cover, outdated>>
        BY <2>2, <3>3 DEF shouldGetArtwork
      <4>2. asked' \in [Songs -> 0..MaxAsks]
        BY <2>0, <4>1 DEF TypeOK
      <4>3. asked'[s] > 0 /\ \A p \in Songs \ {s} : asked'[p] = asked[p]
        BY <2>0, <4>1 DEF TypeOK
      <4>4. s \in Outstanding' /\ \A p \in Outstanding' : p = s \/ p \in Outstanding
        BY <2>0, <4>1, <4>3
      <4>5. TypeOK'
        BY <2>0, <2>1, <2>2, <3>1, <4>1, <4>2 DEF TypeOK
      <4>6. t # NoTrack /\ t.song = s /\ t.image = NoImage
        BY <2>2, <3>3
      <4> QED
        BY <2>2, <3>1, <4>4, <4>5, <4>6 DEF IInv, InfoMatchesTrack, OnlyOverlapMislabels,
           OnlyOverlapBlanksCover, OnlyLateBlocksMiscover, ScreensAgree, LookupsAreCurrent
    <3> QED
      BY <3>2, <3>3
  <2>3. CASE timedMetadataDidChange
    <3>1. PICK s \in Songs \cup {NoSong} : setTrack(newTrack(s)) /\ shouldGetArtwork(s)
      BY <2>3 DEF timedMetadataDidChange
    <3>2. newTrack(s) \in Tracks /\ newTrack(s).song = s /\ newTrack(s).image = NoImage
      BY DEF newTrack, Tracks
    <3> QED
      BY <2>2, <2>3, <3>1, <3>2 DEF timedMetadataDidChange
  <2>4. CASE itemDidChange
    BY <2>2, <2>4 DEF itemDidChange
  <2>5. CASE artworkDidChange
    <3> DEFINE Answer(artworkURL) ==
            \/ setCover(Station) /\ UNCHANGED <<track, info>>
            \/ /\ artworkURL # NoImage
               /\ track = NoTrack
               /\ setTrack(NoTrack)
               /\ setCover(NoImage)
            \/ /\ artworkURL # NoImage
               /\ track # NoTrack
               /\ \E image \in {artworkURL, NoImage} :
                     /\ setTrack([track EXCEPT !.image = image])
                     /\ setCover(image)
    <3>0. PICK s \in Outstanding : \E artworkURL \in getArtwork(s) :
             asked' = [asked EXCEPT ![s] = @ - 1] /\ Answer(artworkURL)
      BY <2>5 DEF artworkDidChange
    <3>1. PICK artworkURL \in getArtwork(s) :
             asked' = [asked EXCEPT ![s] = @ - 1] /\ Answer(artworkURL)
      BY <3>0
    <3>2. UNCHANGED <<handlers, overlapped>>
      BY <2>5 DEF artworkDidChange
    <3>3. s \in Songs /\ artworkURL \in {s, NoImage}
      BY <2>0 DEF getArtwork
    <3>4. asked' \in [Songs -> 0..MaxAsks]
      BY <2>0, <3>1, <3>3 DEF TypeOK
    <3>5. \A p \in Outstanding' : p \in Outstanding
      <4>1. \A p \in Songs : asked'[p] = IF p = s THEN asked[p] - 1 ELSE asked[p]
        BY <2>0, <3>1, <3>3 DEF TypeOK
      <4> QED
        BY <2>0, <4>1
    <3>6. ~overlapped => track # NoTrack /\ s = track.song
      BY DEF IInv, LookupsAreCurrent
    <3>7. CASE cover' = Station /\ UNCHANGED <<track, info>> /\ outdated' = FALSE
      <4>1. TypeOK'
        BY <2>0, <3>2, <3>4, <3>7 DEF TypeOK, Pictures
      <4> QED
        BY <3>2, <3>5, <3>7, <4>1 DEF IInv, InfoMatchesTrack, OnlyOverlapMislabels,
           OnlyOverlapBlanksCover, OnlyLateBlocksMiscover, ScreensAgree, LookupsAreCurrent
    <3>8. CASE track = NoTrack /\ setTrack(NoTrack) /\ setCover(NoImage)
      <4>1. track' = NoTrack /\ info' = updateNowPlaying(NoTrack) /\ cover' = NoImage
            /\ outdated' = FALSE
        BY <3>8 DEF setTrack, setCover
      <4>2. TypeOK'
        BY <2>0, <2>1, <3>2, <3>4, <4>1 DEF TypeOK, Pictures
      <4> QED
        BY <3>2, <3>5, <3>6, <3>8, <4>1, <4>2 DEF IInv, InfoMatchesTrack, OnlyOverlapMislabels,
           OnlyOverlapBlanksCover, OnlyLateBlocksMiscover, ScreensAgree, LookupsAreCurrent
    <3>9. ASSUME NEW image \in {artworkURL, NoImage}, track # NoTrack,
                 setTrack([track EXCEPT !.image = image]), setCover(image)
          PROVE  IInv'
      <4> DEFINE t == [track EXCEPT !.image = image]
      <4>1. t \in Tracks /\ t.song = track.song /\ t.image = image
        BY <2>0, <3>3, <3>9 DEF TypeOK, Tracks
      <4>2. track' = t /\ info' = updateNowPlaying(t) /\ cover' = image /\ outdated' = FALSE
        BY <3>9 DEF setTrack, setCover
      <4> HIDE DEF t
      <4>3. TypeOK'
        BY <2>0, <2>1, <3>2, <3>3, <3>4, <4>1, <4>2 DEF TypeOK, Pictures
      <4>4. ScreensAgree'
        BY <2>0, <3>3, <4>1, <4>2 DEF ScreensAgree, updateNowPlaying
      <4> QED
        BY <3>2, <3>3, <3>5, <3>6, <3>9, <4>1, <4>2, <4>3, <4>4 DEF IInv, InfoMatchesTrack,
           OnlyOverlapMislabels, OnlyOverlapBlanksCover, OnlyLateBlocksMiscover, LookupsAreCurrent
    <3> QED
      BY <3>1, <3>7, <3>8, <3>9 DEF setCover
  <2>6. CASE requestHandler
    <3>1. TypeOK'
      BY <2>0, <2>6 DEF requestHandler, TypeOK
    <3> QED
      BY <2>6, <3>1 DEF requestHandler, IInv, InfoMatchesTrack, OnlyOverlapMislabels,
         OnlyOverlapBlanksCover, OnlyLateBlocksMiscover, ScreensAgree, LookupsAreCurrent, Outstanding
  <2>7. CASE CoverBlock
    <3>1. PICK image \in handlers : cover' = image /\ outdated' = (image # info.art)
                                    /\ handlers' = handlers \ {image}
      BY <2>7 DEF CoverBlock
    <3>2. UNCHANGED <<track, info, asked, overlapped>> /\ Outstanding' = Outstanding
      BY <2>7 DEF CoverBlock, Outstanding
    <3>3. image \in Songs \cup {Station}
      BY <2>0 DEF TypeOK
    <3>4. TypeOK'
      BY <2>0, <3>1, <3>2, <3>3 DEF TypeOK, Pictures
    <3>5. ~overlapped => info.art = Station \/ (track # NoTrack /\ info.art = track.song)
      BY DEF IInv, InfoMatchesTrack, OnlyOverlapMislabels, updateNowPlaying
    <3>6. OnlyLateBlocksMiscover' /\ ScreensAgree'
      BY <3>1, <3>2, <3>5 DEF OnlyLateBlocksMiscover, ScreensAgree
    <3> QED
      BY <3>1, <3>2, <3>3, <3>4, <3>6 DEF IInv, InfoMatchesTrack, OnlyOverlapMislabels,
         OnlyOverlapBlanksCover, LookupsAreCurrent
  <2>8. CASE UNCHANGED vars
    BY <2>8 DEF vars, IInv, TypeOK, InfoMatchesTrack, OnlyOverlapMislabels,
       OnlyOverlapBlanksCover, OnlyLateBlocksMiscover, ScreensAgree, LookupsAreCurrent, Outstanding
  <2> QED
    BY <2>3, <2>4, <2>5, <2>6, <2>7, <2>8 DEF Next
<1>3. IInv => /\ TypeOK /\ OnlyOverlapMislabels /\ OnlyOverlapBlanksCover
              /\ OnlyLateBlocksMiscover /\ ScreensAgree
  BY DEF IInv, Promises
<1> QED
  BY <1>1, <1>2, <1>3, PTL DEF Spec
=============================================================================
