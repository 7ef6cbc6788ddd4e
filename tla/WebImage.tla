------------------------------ MODULE WebImage ------------------------------
(***************************************************************************)
(* SDWebImage as one image view of the app uses it: sd_setImage(with:)     *)
(* cancels the load before it, clears the view, and looks for the picture  *)
(* in memory at once, on disk from an I/O queue, on the network from a     *)
(* download queue.  Their answers are blocks on the main queue, some of    *)
(* which were sent before the cancellation and run after it.  A picture is *)
(* named by its address.  The manager with its caches is shared with the   *)
(* icons of the menu, whose addresses are assumed to be others.            *)
(***************************************************************************)
EXTENDS Naturals

CONSTANTS
    Pictures,    \* addresses the view is asked to show
    NoImage,     \* image nil
    Operations,  \* identities of SDWebImageCombinedOperations: bounds the loads
    NoOperation  \* the view has no operation

ASSUME PictureAssumption == NoImage \notin Pictures
ASSUME OperationAssumption == NoOperation \notin Operations

VARIABLES
    image,        \* what the view shows
    imageURL,     \* the address of its load state, that of the last sd_setImage
    operation,    \* the view's operation that is still running
    load,         \* every operation: its address, how far it is, whether cancelled
    memoryCache,  \* pictures in the memory cache
    diskCache,    \* pictures in the disk cache
    failedURLs    \* addresses the manager has given up

imageVars == <<image, imageURL, operation, load, memoryCache, diskCache, failedURLs>>

\* querying: the I/O queue looks; hit, miss: its block is on the main queue;
\* downloading; loaded, bad, unreachable: the loader's block is on the main queue.
Stages == {"free", "querying", "hit", "miss", "downloading", "loaded", "bad", "unreachable"}
Loads  == [url : Pictures \cup {NoImage}, stage : Stages, cancelled : BOOLEAN]

Free == [url |-> NoImage, stage |-> "free", cancelled |-> FALSE]

InitImage ==
    /\ image = NoImage
    /\ imageURL = NoImage
    /\ operation = NoOperation
    /\ load = [o \in Operations |-> Free]
    /\ memoryCache = {}
    /\ diskCache \in SUBSET Pictures
    /\ failedURLs = {}

----------------------------------------------------------------------------
\* SDWebImageCombinedOperation.cancel.  A cache query answers nil to the
\* cancelled operation on the spot and nothing more comes of it; a download
\* may have sent its block, or be decoding towards one.
Cancelled(o) ==
    IF o = NoOperation THEN load
    ELSE IF load[o].stage \in {"querying", "hit", "miss"}
    THEN [load EXCEPT ![o] = Free]
    ELSE [load EXCEPT ![o].cancelled = TRUE]

\* Mutant: an address that failed is asked for again.
sd_setImage_retries(url) ==
    /\ imageURL' = url
    /\ \/ /\ url \in memoryCache
          /\ image' = url /\ operation' = NoOperation /\ load' = Cancelled(operation)
       \/ /\ url \notin memoryCache
          /\ image' = NoImage
          /\ \E o \in Operations :
                /\ Cancelled(operation)[o] = Free
                /\ operation' = o
                /\ load' = [Cancelled(operation) EXCEPT
                              ![o] = [url |-> url, stage |-> "querying", cancelled |-> FALSE]]
    /\ UNCHANGED <<memoryCache, diskCache, failedURLs>>

\* sd_setImage(with:) on the main thread.  The view is cleared; an address that
\* failed ends there, a picture in memory is set before the call returns.
sd_setImage(url) ==
    /\ imageURL' = url
    /\ \/ /\ url \in failedURLs \cup memoryCache
          /\ image' = IF url \in failedURLs THEN NoImage ELSE url
          /\ operation' = NoOperation
          /\ load' = Cancelled(operation)
       \/ /\ url \notin failedURLs \cup memoryCache
          /\ image' = NoImage
          /\ \E o \in Operations :
                /\ Cancelled(operation)[o] = Free
                /\ operation' = o
                /\ load' = [Cancelled(operation) EXCEPT
                              ![o] = [url |-> url, stage |-> "querying", cancelled |-> FALSE]]
    /\ UNCHANGED <<memoryCache, diskCache, failedURLs>>

\* The I/O queue: a picture found on disk is put in memory there and then.
queryCache(o) ==
    /\ load[o].stage = "querying"
    /\ \/ /\ load[o].url \in diskCache
          /\ load' = [load EXCEPT ![o].stage = "hit"]
          /\ memoryCache' = memoryCache \cup {load[o].url}
       \/ /\ load[o].url \notin diskCache
          /\ load' = [load EXCEPT ![o].stage = "miss"]
          /\ UNCHANGED memoryCache
    /\ UNCHANGED <<image, imageURL, operation, diskCache, failedURLs>>

\* The operation ends: nobody holds it any longer.
Release(o) ==
    /\ load' = [load EXCEPT ![o] = Free]
    /\ operation' = IF operation = o THEN NoOperation ELSE operation

\* The cache's block on the main queue: show the picture, or download it.
callCacheProcess(o) ==
    /\ \/ load[o].stage = "hit" /\ image' = load[o].url /\ Release(o)
       \/ /\ load[o].stage = "miss"
          /\ load' = [load EXCEPT ![o].stage = "downloading"]
          /\ UNCHANGED <<image, operation>>
    /\ UNCHANGED <<imageURL, memoryCache, diskCache, failedURLs>>

\* The download ends and sends its block: with the picture, with an error that
\* condemns the address, or with one of the network.  A cancelled task is
\* dropped, unless its data were already being decoded.
download(o) ==
    /\ load[o].stage = "downloading"
    /\ \/ \E end \in {"loaded", "bad", "unreachable"} :
             load' = [load EXCEPT ![o].stage = end]
       \/ load[o].cancelled /\ load' = [load EXCEPT ![o] = Free]
    /\ UNCHANGED <<image, imageURL, operation, memoryCache, diskCache, failedURLs>>

\* Mutant: the block does not ask whether its operation was cancelled.
callDownloadProcess_asksNothing(o) ==
    /\ load[o].stage = "loaded"
    /\ Release(o)
    /\ image' = load[o].url
    /\ UNCHANGED <<imageURL, memoryCache, diskCache, failedURLs>>

\* The loader's block on the main queue.  Without a picture the view is left
\* as it is; with one the caches and the view get it in the same step.
callDownloadProcess(o) ==
    /\ load[o].stage \in {"loaded", "bad", "unreachable"}
    /\ Release(o)
    /\ LET live == ~load[o].cancelled
           got  == live /\ load[o].stage = "loaded"
           url  == load[o].url
       IN  /\ image' = IF got THEN url ELSE image
           /\ memoryCache' = IF got THEN memoryCache \cup {url} ELSE memoryCache
           /\ diskCache' = IF got THEN diskCache \cup {url} ELSE diskCache
           /\ failedURLs' = IF live /\ load[o].stage = "bad"
                            THEN failedURLs \cup {url} ELSE failedURLs
    /\ UNCHANGED imageURL

\* A memory warning empties the memory cache.
removeAllObjects ==
    /\ memoryCache # {}
    /\ memoryCache' = {}
    /\ UNCHANGED <<image, imageURL, operation, load, diskCache, failedURLs>>

ImageStep ==
    \/ \E o \in Operations : queryCache(o) \/ callCacheProcess(o) \/ download(o) \/ callDownloadProcess(o)
    \/ removeAllObjects

\* Queues run their blocks and requests end, if only by their time limit.
ImageFairness ==
    \A o \in Operations :
        /\ WF_imageVars(queryCache(o)) /\ WF_imageVars(callCacheProcess(o))
        /\ WF_imageVars(download(o)) /\ WF_imageVars(callDownloadProcess(o))

----------------------------------------------------------------------------
ImageTypeOK ==
    /\ image \in Pictures \cup {NoImage}
    /\ imageURL \in Pictures \cup {NoImage}
    /\ operation \in Operations \cup {NoOperation}
    /\ load \in [Operations -> Loads]
    /\ memoryCache \in SUBSET Pictures
    /\ diskCache \in SUBSET Pictures
    /\ failedURLs \in SUBSET Pictures

\* The view is blank or shows the picture it was last asked for: no block of a
\* cancelled load, in whichever order it comes, paints over a later one.
ShowsWhatWasAsked == image \in {NoImage, imageURL}

\* An address the manager has given up is not shown: sd_setImage asks
\* failedURLs before any cache, and only a live load can condemn an address.
FailedNeverShown == image \notin failedURLs
=============================================================================
