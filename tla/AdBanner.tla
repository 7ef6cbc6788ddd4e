------------------------------ MODULE AdBanner ------------------------------
(***************************************************************************)
(* The banner of MainViewController: ads from one Firestore query, shown   *)
(* in turn by a timer, each with a link and perhaps a picture, which       *)
(* SDWebImage loads into adImageView (module WebImage).  The picture of an *)
(* ad is named by the ad.                                                  *)
(***************************************************************************)
EXTENDS WebImage, Sequences

CONSTANTS
    Ads,       \* documents of the collection, Pictures being those with an image
    AdLists,   \* what the query may answer, in order
    NoAd       \* adObject is empty

ASSUME AdAssumption ==
    Pictures \subseteq Ads /\ NoAd \notin Ads /\ AdLists \subseteq Seq(Ads)

VARIABLES
    adsArray,
    timer,          \* the timer runs
    selectedIndex,  \* the variable its closure captured
    adObject        \* the ad on the banner, whose link a tap opens

adVars == <<adsArray, timer, selectedIndex, adObject>>

InitAds ==
    /\ adsArray = <<>>
    /\ timer = FALSE
    /\ selectedIndex = 0
    /\ adObject = NoAd

\* The answer of the query: an error changes nothing.  viewDidLoad asks once.
adsData ==
    /\ ~timer
    /\ adsArray' \in AdLists
    /\ timer' = TRUE
    /\ selectedIndex' = 0
    /\ UNCHANGED <<adObject, imageVars>>

\* The ad on the banner changes; an ad without an image keeps the picture.
updateAdsUI(ad) ==
    /\ adObject' = ad
    /\ \/ ad \in Pictures /\ sd_setImage(ad)
       \/ ad \notin Pictures /\ UNCHANGED imageVars

\* Mutants: the last ad is left out; the index runs on.
Tick_stopsShort ==
    /\ timer
    /\ \/ /\ Len(adsArray) > selectedIndex + 1
          /\ updateAdsUI(adsArray[selectedIndex + 1])
          /\ selectedIndex' = selectedIndex + 1
       \/ /\ Len(adsArray) <= selectedIndex + 1
          /\ selectedIndex' = 0
          /\ UNCHANGED <<adObject, imageVars>>
    /\ UNCHANGED <<adsArray, timer>>

Tick_runsOn ==
    /\ timer
    /\ \/ Len(adsArray) > selectedIndex /\ updateAdsUI(adsArray[selectedIndex + 1])
       \/ Len(adsArray) <= selectedIndex /\ UNCHANGED <<adObject, imageVars>>
    /\ selectedIndex' = selectedIndex + 1
    /\ UNCHANGED <<adsArray, timer>>

\* The closure of startTimer: one tick past the last ad only resets the index.
Tick ==
    /\ timer
    /\ \/ /\ Len(adsArray) > selectedIndex
          /\ updateAdsUI(adsArray[selectedIndex + 1])
          /\ selectedIndex' = selectedIndex + 1
       \/ /\ Len(adsArray) <= selectedIndex
          /\ selectedIndex' = 0
          /\ UNCHANGED <<adObject, imageVars>>
    /\ UNCHANGED <<adsArray, timer>>

AdStep == adsData \/ Tick \/ (ImageStep /\ UNCHANGED adVars)

----------------------------------------------------------------------------
AdTypeOK ==
    /\ ImageTypeOK
    /\ adsArray \in AdLists \cup {<<>>}
    /\ timer \in BOOLEAN
    /\ selectedIndex \in 0..Len(adsArray)
    /\ adObject \in Ads \cup {NoAd}

\* The picture on the banner is that of the ad a tap opens, or there is none,
\* except under an ad that has no image: late downloads of the ads before it
\* never cover it.
PictureBelongsToAd == adObject \in Pictures => image \in {NoImage, adObject}

\* Every ad of the answer is shown again and again, the last one and those
\* without an image included.
EveryAdComesRound ==
    \A ad \in Ads : (\E i \in DOMAIN adsArray : adsArray[i] = ad) ~> (adObject = ad)
=============================================================================
