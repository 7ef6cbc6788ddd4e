-------------------------- MODULE MainScreenProofs --------------------------
(***************************************************************************)
(* Proofs about the banner and the volume, for any ads, any number of      *)
(* loads and any slider.                                                   *)
(***************************************************************************)
EXTENDS MainScreen, SequenceTheorems, TLAPS

\* A load that nobody cancelled is the view's own, it is for the address the
\* view was last asked for, and the view is blank until it ends.
LiveLoadIsCurrent ==
    /\ \A o \in Operations : load[o].stage # "free" /\ ~load[o].cancelled => o = operation
    /\ \A o \in Operations : load[o].stage \in {"querying", "hit", "miss"} => ~load[o].cancelled
    /\ \A o \in Operations : load[o].stage # "free" => load[o].url \in Pictures
    /\ operation # NoOperation =>
          /\ load[operation].url = imageURL /\ ~load[operation].cancelled
          /\ image = NoImage
          /\ imageURL \notin failedURLs

\* What the view was last asked for is the picture of the ad on the banner.
AskedForAd == adObject \in Pictures => imageURL = adObject

BannerInv ==
    AdTypeOK /\ ShowsWhatWasAsked /\ FailedNeverShown /\ LiveLoadIsCurrent /\ AskedForAd

\* The part of it that SDWebImage keeps by itself.
ViewInv == ImageTypeOK /\ ShowsWhatWasAsked /\ FailedNeverShown /\ LiveLoadIsCurrent

\* Every step of SDWebImage, sd_setImage included, keeps its part.
LEMMA ViewStep ==
    ViewInv /\ (ImageStep \/ \E url \in Pictures : sd_setImage(url)) => ViewInv'
<1> SUFFICES ASSUME ViewInv, ImageStep \/ \E url \in Pictures : sd_setImage(url)
             PROVE  ViewInv'
  OBVIOUS
<1> USE PictureAssumption, OperationAssumption
<1>0. ImageTypeOK /\ \A o \in Operations : load[o] \in Loads
  BY DEF ViewInv, ImageTypeOK
<1>1. ASSUME NEW o \in Operations, NEW stage \in Stages \ {"free"}, load[o].stage # "free",
             stage \in {"querying", "hit", "miss"} => load[o].stage \in {"querying", "hit", "miss"},
             load' = [load EXCEPT ![o].stage = stage],
             UNCHANGED <<image, imageURL, operation, failedURLs>>
      PROVE  /\ load' \in [Operations -> Loads]
             /\ ShowsWhatWasAsked' /\ FailedNeverShown' /\ LiveLoadIsCurrent'
  <2>1. load' \in [Operations -> Loads]
    BY <1>0, <1>1 DEF ImageTypeOK, Loads
  <2>2. \A p \in Operations : /\ load'[p].url = load[p].url
                              /\ load'[p].cancelled = load[p].cancelled
                              /\ load'[p].stage = IF p = o THEN stage ELSE load[p].stage
    BY <1>0, <1>1 DEF ImageTypeOK, Loads
  <2>3. operation \in Operations \cup {NoOperation}
    BY <1>0 DEF ImageTypeOK
  <2>4. LiveLoadIsCurrent'
    BY <1>1, <2>2, <2>3 DEF ViewInv, LiveLoadIsCurrent
  <2> QED
    BY <1>1, <2>1, <2>4 DEF ViewInv, ShowsWhatWasAsked, FailedNeverShown
<1>2. ASSUME NEW o \in Operations, Release(o)
      PROVE  /\ load' \in [Operations -> Loads]
             /\ load'[o] = Free
             /\ \A p \in Operations \ {o} : load'[p] = load[p]
             /\ operation' \in Operations \cup {NoOperation}
             /\ operation' = IF operation = o THEN NoOperation ELSE operation
  BY <1>0, <1>2 DEF Release, ImageTypeOK, Loads, Free, Stages
<1>3. ASSUME NEW o \in Operations, queryCache(o) PROVE ViewInv'
  <2>1. load[o].stage = "querying" /\ load[o].url \in Pictures
    BY <1>3 DEF queryCache, ViewInv, LiveLoadIsCurrent
  <2>2. PICK stage \in {"hit", "miss"} : load' = [load EXCEPT ![o].stage = stage]
    BY <1>3 DEF queryCache
  <2>3. UNCHANGED <<image, imageURL, operation, failedURLs, diskCache>>
    BY <1>3 DEF queryCache
  <2>4. memoryCache' \in SUBSET Pictures
    BY <1>0, <1>3, <2>1 DEF queryCache, ImageTypeOK
  <2>5. /\ load' \in [Operations -> Loads]
        /\ ShowsWhatWasAsked' /\ FailedNeverShown' /\ LiveLoadIsCurrent'
    BY <1>1, <2>1, <2>2, <2>3 DEF Stages
  <2> QED
    BY <1>0, <2>3, <2>4, <2>5 DEF ViewInv, ImageTypeOK
<1>4. ASSUME NEW o \in Operations, callCacheProcess(o) PROVE ViewInv'
  <2>1. UNCHANGED <<imageURL, memoryCache, diskCache, failedURLs>>
    BY <1>4 DEF callCacheProcess
  <2>2. CASE load[o].stage = "miss" /\ load' = [load EXCEPT ![o].stage = "downloading"]
             /\ UNCHANGED <<image, operation>>
    <3>1. /\ load' \in [Operations -> Loads]
          /\ ShowsWhatWasAsked' /\ FailedNeverShown' /\ LiveLoadIsCurrent'
      BY <1>1, <2>1, <2>2 DEF Stages
    <3> QED
      BY <1>0, <2>1, <2>2, <3>1 DEF ViewInv, ImageTypeOK
  <2>3. CASE load[o].stage = "hit" /\ image' = load[o].url /\ Release(o)
    <3>1. o = operation /\ o # NoOperation
      BY <2>3 DEF ViewInv, LiveLoadIsCurrent
    <3>2. load[o].url = imageURL /\ imageURL \notin failedURLs /\ imageURL \in Pictures
      BY <2>3, <3>1 DEF ViewInv, LiveLoadIsCurrent
    <3>3. operation' = NoOperation
      BY <1>2, <2>3, <3>1
    <3>4. LiveLoadIsCurrent'
      BY <1>2, <2>3, <3>1, <3>3 DEF ViewInv, LiveLoadIsCurrent, Free
    <3>5. ImageTypeOK'
      BY <1>0, <1>2, <2>1, <2>3, <3>2 DEF ImageTypeOK
    <3> QED
      BY <2>1, <2>3, <3>2, <3>4, <3>5 DEF ViewInv, ShowsWhatWasAsked, FailedNeverShown
  <2> QED
    BY <1>4, <2>2, <2>3 DEF callCacheProcess
<1>5. ASSUME NEW o \in Operations, download(o) PROVE ViewInv'
  <2>1. load[o].stage = "downloading"
        /\ UNCHANGED <<image, imageURL, operation, memoryCache, diskCache, failedURLs>>
    BY <1>5 DEF download
  <2>2. CASE \E end \in {"loaded", "bad", "unreachable"} : load' = [load EXCEPT ![o].stage = end]
    <3>1. /\ load' \in [Operations -> Loads]
          /\ ShowsWhatWasAsked' /\ FailedNeverShown' /\ LiveLoadIsCurrent'
      BY <1>1, <2>1, <2>2 DEF Stages
    <3> QED
      BY <1>0, <2>1, <3>1 DEF ViewInv, ImageTypeOK
  <2>3. CASE load[o].cancelled /\ load' = [load EXCEPT ![o] = Free]
    <3>1. load' \in [Operations -> Loads] /\ load'[o] = Free
          /\ \A p \in Operations \ {o} : load'[p] = load[p]
      BY <1>0, <2>3 DEF ImageTypeOK, Loads, Free, Stages
    <3>2. o # operation
      BY <2>1, <2>3 DEF ViewInv, LiveLoadIsCurrent
    <3>3. LiveLoadIsCurrent'
      BY <1>0, <2>1, <3>1, <3>2 DEF ViewInv, LiveLoadIsCurrent, Free, ImageTypeOK
    <3> QED
      BY <1>0, <2>1, <3>1, <3>3 DEF ViewInv, ImageTypeOK, ShowsWhatWasAsked, FailedNeverShown
  <2> QED
    BY <1>5, <2>2, <2>3 DEF download
<1>6. ASSUME NEW o \in Operations, callDownloadProcess(o) PROVE ViewInv'
  <2>1. Release(o) /\ imageURL' = imageURL /\ load[o].stage # "free" /\ load[o].url \in Pictures
    BY <1>6 DEF callDownloadProcess, ViewInv, LiveLoadIsCurrent
  <2>2. CASE load[o].cancelled
    <3>1. UNCHANGED <<image, memoryCache, diskCache, failedURLs>>
      BY <1>6, <2>2 DEF callDownloadProcess
    <3>2. o # operation
      BY <2>2 DEF ViewInv, LiveLoadIsCurrent
    <3>3. LiveLoadIsCurrent'
      BY <1>0, <1>2, <2>1, <3>1, <3>2 DEF ViewInv, LiveLoadIsCurrent, Free, ImageTypeOK
    <3> QED
      BY <1>0, <1>2, <2>1, <3>1, <3>3 DEF ViewInv, ImageTypeOK, ShowsWhatWasAsked, FailedNeverShown
  <2>3. CASE ~load[o].cancelled
    <3>1. o = operation /\ o # NoOperation
      BY <2>1, <2>3 DEF ViewInv, LiveLoadIsCurrent
    <3>2. load[o].url = imageURL /\ imageURL \notin failedURLs /\ image = NoImage
      BY <3>1 DEF ViewInv, LiveLoadIsCurrent
    <3>3. operation' = NoOperation
      BY <1>2, <2>1, <3>1
    <3>4. LiveLoadIsCurrent'
      BY <1>2, <2>1, <3>1, <3>3 DEF ViewInv, LiveLoadIsCurrent, Free
    <3>5. image' = IF load[o].stage = "loaded" THEN imageURL ELSE NoImage
      BY <1>6, <2>3, <3>2 DEF callDownloadProcess
    <3>6. failedURLs' = IF load[o].stage = "bad" THEN failedURLs \cup {imageURL} ELSE failedURLs
      BY <1>6, <2>3, <3>2 DEF callDownloadProcess
    <3>7. memoryCache' \in SUBSET Pictures /\ diskCache' \in SUBSET Pictures
      BY <1>0, <1>6, <2>1 DEF callDownloadProcess, ImageTypeOK
    <3>8. ImageTypeOK'
      BY <1>0, <1>2, <2>1, <3>2, <3>5, <3>6, <3>7 DEF ImageTypeOK
    <3>9. ShowsWhatWasAsked' /\ FailedNeverShown'
      BY <1>0, <2>1, <3>2, <3>5, <3>6 DEF ImageTypeOK, ShowsWhatWasAsked, FailedNeverShown
    <3> QED
      BY <3>4, <3>8, <3>9 DEF ViewInv
  <2> QED
    BY <2>2, <2>3
<1>7. ASSUME removeAllObjects PROVE ViewInv'
  BY <1>7 DEF removeAllObjects, ViewInv, ImageTypeOK, ShowsWhatWasAsked, FailedNeverShown,
              LiveLoadIsCurrent
<1>8. ASSUME NEW url \in Pictures, sd_setImage(url) PROVE ViewInv'
  <2> DEFINE rest == Cancelled(operation)
  <2>1. rest \in [Operations -> Loads]
    BY <1>0 DEF Cancelled, ImageTypeOK, Loads, Free, Stages
  <2>2. \A p \in Operations :
           /\ rest[p].stage # "free" => rest[p].cancelled /\ rest[p].url \in Pictures
           /\ rest[p].stage \notin {"querying", "hit", "miss"}
    <3>1. CASE operation = NoOperation
      BY <3>1 DEF Cancelled, ViewInv, LiveLoadIsCurrent
    <3>2. CASE operation # NoOperation
      BY <1>0, <3>2 DEF Cancelled, ViewInv, LiveLoadIsCurrent, ImageTypeOK, Loads, Free
    <3> QED
      BY <3>1, <3>2
  <2> HIDE DEF rest
  <2>3. UNCHANGED <<memoryCache, diskCache, failedURLs>> /\ imageURL' = url
    BY <1>8 DEF sd_setImage
  <2>4. CASE /\ image' = IF url \in failedURLs THEN NoImage ELSE url
             /\ operation' = NoOperation
             /\ load' = rest
    <3>1. LiveLoadIsCurrent'
      BY <2>2, <2>4 DEF LiveLoadIsCurrent
    <3> QED
      BY <1>0, <2>1, <2>3, <2>4, <3>1 DEF ViewInv, ImageTypeOK, ShowsWhatWasAsked, FailedNeverShown
  <2>5. ASSUME NEW o \in Operations, url \notin failedURLs, image' = NoImage, operation' = o,
               load' = [rest EXCEPT ![o] = [url |-> url, stage |-> "querying", cancelled |-> FALSE]]
        PROVE  ViewInv'
    <3>1. load' \in [Operations -> Loads]
      BY <2>1, <2>5 DEF Loads, Stages
    <3>2. load'[o] = [url |-> url, stage |-> "querying", cancelled |-> FALSE]
          /\ \A p \in Operations \ {o} : load'[p] = rest[p]
      BY <2>1, <2>5
    <3>3. LiveLoadIsCurrent'
      BY <2>2, <2>3, <2>5, <3>2 DEF LiveLoadIsCurrent
    <3> QED
      BY <1>0, <2>3, <2>5, <3>1, <3>3 DEF ViewInv, ImageTypeOK, ShowsWhatWasAsked, FailedNeverShown
  <2> QED
    BY <1>8, <2>4, <2>5 DEF sd_setImage, rest
<1> QED
  BY <1>3, <1>4, <1>5, <1>6, <1>7, <1>8 DEF ImageStep

----------------------------------------------------------------------------
\* The picture on the banner belongs to the ad a tap opens whatever the order
\* of downloads, disk answers and timer ticks, the index of the rotation stays
\* within the ads, and an address that was given up is not shown.
THEOREM BannerIsRight ==
    Spec => [](AdTypeOK /\ PictureBelongsToAd /\ FailedNeverShown)
<1> USE PictureAssumption, OperationAssumption, AdAssumption
<1>1. Init => BannerInv
  <2> SUFFICES ASSUME Init PROVE BannerInv
    OBVIOUS
  <2>1. ImageTypeOK
    BY DEF Init, InitImage, ImageTypeOK, Loads, Free, Stages
  <2>2. AdTypeOK
    <3>1. 0 \in 0..Len(<<>>)
      BY EmptySeq
    <3> QED
      BY <2>1, <3>1 DEF Init, InitAds, AdTypeOK
  <2>3. LiveLoadIsCurrent
    BY DEF Init, InitImage, LiveLoadIsCurrent, Free
  <2> QED
    BY <2>2, <2>3 DEF Init, InitAds, InitImage, BannerInv, ShowsWhatWasAsked, FailedNeverShown,
                      AskedForAd
<1>2. BannerInv /\ [Next]_vars => BannerInv'
  <2> SUFFICES ASSUME BannerInv, [Next]_vars PROVE BannerInv'
    OBVIOUS
  <2>0. ViewInv /\ AskedForAd /\ AdTypeOK
    BY DEF BannerInv, ViewInv, AdTypeOK
  <2>1. UNCHANGED imageVars => ViewInv'
    BY <2>0 DEF imageVars, ViewInv, ImageTypeOK, ShowsWhatWasAsked, FailedNeverShown,
                LiveLoadIsCurrent
  <2>2. CASE UNCHANGED <<adVars, imageVars>>
    BY <2>0, <2>1, <2>2 DEF adVars, imageVars, BannerInv, ViewInv, AdTypeOK, AskedForAd
  <2>3. CASE ImageStep /\ UNCHANGED adVars
    <3>1. ViewInv'
      BY <2>0, <2>3, ViewStep
    <3>2. imageURL' = imageURL
      BY <2>3 DEF ImageStep, queryCache, callCacheProcess, download, callDownloadProcess,
                  removeAllObjects
    <3> QED
      BY <2>0, <2>3, <3>1, <3>2 DEF adVars, BannerInv, ViewInv, AdTypeOK, AskedForAd
  <2>4. CASE adsData
    <3>1. UNCHANGED <<adObject, imageVars>> /\ adsArray' \in AdLists /\ timer' = TRUE
          /\ selectedIndex' = 0
      BY <2>4 DEF adsData
    <3>2. ViewInv' /\ AskedForAd' /\ adObject' \in Ads \cup {NoAd}
      BY <2>0, <2>1, <3>1 DEF AskedForAd, imageVars, AdTypeOK
    <3>3. 0 \in 0..Len(adsArray')
      BY <3>1
    <3> QED
      BY <3>1, <3>2, <3>3 DEF BannerInv, ViewInv, AdTypeOK
  <2>5. CASE Tick
    <3>0. adsArray \in Seq(Ads) /\ selectedIndex \in 0..Len(adsArray)
          /\ UNCHANGED <<adsArray, timer>>
      <4>1. \A s \in AdLists \cup {<<>>} : s \in Seq(Ads)
        BY EmptySeq
      <4> QED
        BY <2>0, <2>5, <4>1 DEF AdTypeOK, Tick
    <3>1. CASE selectedIndex' = 0 /\ UNCHANGED <<adObject, imageVars>>
      <4>1. ViewInv' /\ AskedForAd' /\ adObject' \in Ads \cup {NoAd}
        BY <2>0, <2>1, <3>1 DEF AskedForAd, imageVars, AdTypeOK
      <4> QED
        BY <2>0, <3>0, <3>1, <4>1 DEF BannerInv, ViewInv, AdTypeOK
    <3>2. CASE /\ Len(adsArray) > selectedIndex
               /\ updateAdsUI(adsArray[selectedIndex + 1])
               /\ selectedIndex' = selectedIndex + 1
      <4> DEFINE ad == adsArray[selectedIndex + 1]
      <4>1. ad \in Ads /\ selectedIndex' \in 0..Len(adsArray)
        BY <3>0, <3>2
      <4> HIDE DEF ad
      <4>2. adObject' = ad
        BY <3>2 DEF updateAdsUI, ad
      <4>3. CASE ad \in Pictures /\ sd_setImage(ad)
        <5>1. ViewInv' /\ imageURL' = ad
          BY <2>0, <4>3, ViewStep DEF sd_setImage
        <5> QED
          BY <2>0, <3>0, <4>1, <4>2, <5>1 DEF BannerInv, ViewInv, AdTypeOK, AskedForAd
      <4>4. CASE ad \notin Pictures /\ UNCHANGED imageVars
        BY <2>0, <2>1, <3>0, <4>1, <4>2, <4>4 DEF BannerInv, ViewInv, AdTypeOK, AskedForAd
      <4> QED
        BY <3>2, <4>3, <4>4 DEF updateAdsUI, ad
    <3> QED
      BY <2>5, <3>1, <3>2 DEF Tick
  <2> QED
    BY <2>2, <2>3, <2>4, <2>5 DEF Next, AdStep, vars
<1>3. BannerInv => AdTypeOK /\ PictureBelongsToAd /\ FailedNeverShown
  BY DEF BannerInv, AskedForAd, ShowsWhatWasAsked, PictureBelongsToAd
<1> QED
  BY <1>1, <1>2, <1>3, PTL DEF Spec

\* The radio is as loud as the slider says unless its AVPlayer is newer than the
\* last drag, for every width, margin and drag; with the banner's part, every
\* variable of the screen keeps its type.
THEOREM VolumeIsRight == Spec => [](TypeOK /\ OnlyNewPlayerForgetsVolume)
<1> USE WidthAssumption, PlayerAssumption
<1> DEFINE VInv == VolumeTypeOK /\ OnlyNewPlayerForgetsVolume
<1>0. 0 \in 0..Width /\ Width \in 0..Width /\ NoPlayer \notin 0..Width
  OBVIOUS
<1>1. Init => VInv
  BY <1>0, Zenon DEF Init, InitVolume, VolumeTypeOK, OnlyNewPlayerForgetsVolume
<1>2. VInv /\ [Next]_vars => VInv'
  <2> SUFFICES ASSUME VInv, [Next]_vars PROVE VInv'
    OBVIOUS
  <2>1. CASE UNCHANGED volumeVars
    BY <2>1 DEF volumeVars, VolumeTypeOK, OnlyNewPlayerForgetsVolume
  <2>2. CASE slidePanGesture
    <3>1. currentPosition' \in 0..Width
      BY <2>2 DEF slidePanGesture
    <3>2. volume' = IF volume # NoPlayer THEN currentPosition' ELSE volume
      BY <2>2, <3>1 DEF slidePanGesture, setVolume
    <3>3. renewed' = (renewed /\ volume = NoPlayer)
      BY <2>2 DEF slidePanGesture
    <3> QED
      BY <3>1, <3>2, <3>3 DEF VolumeTypeOK, OnlyNewPlayerForgetsVolume
  <2>3. CASE setupPlayer \/ resetPlayer
    BY <1>0, <2>3, Zenon DEF setupPlayer, resetPlayer, VolumeTypeOK, OnlyNewPlayerForgetsVolume
  <2> QED
    BY <2>1, <2>2, <2>3 DEF Next, VolumeStep, vars
<1>3. AdTypeOK /\ VInv => TypeOK /\ OnlyNewPlayerForgetsVolume
  BY DEF TypeOK
<1> QED
  BY <1>1, <1>2, <1>3, BannerIsRight, PTL DEF Spec
=============================================================================
