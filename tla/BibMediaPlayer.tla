---------------------------- MODULE BibMediaPlayer ----------------------------
(***************************************************************************)
(* The media bridge of ?media=1: the engine's player fetches a source      *)
(* through the guest's network stack and hands the bytes to an audio       *)
(* element of the host page, which plays them from a blob URL and sends    *)
(* its events back.                                                        *)
(*                                                                         *)
(* Both directions are asynchronous queues.  WebCore cancels and destroys  *)
(* a player when its source is replaced; it loads the next candidate into  *)
(* the same player when one failed before it had metadata.  Sources are    *)
(* numbered in the order of load().                                        *)
(***************************************************************************)
EXTENDS Integers, Sequences, FiniteSets

CONSTANTS
  MaxPlayers,    \* bound: players created
  MaxSources,    \* bound: calls of load
  MaxMediaCalls  \* bound: play, pause and seek

ASSUME MediaAssumption ==
  MaxPlayers \in Nat /\ MaxSources \in Nat /\ MaxMediaCalls \in Nat

VARIABLES
  \* engine
  m_id,            \* the player there is, 0 for none; ids are counted up
  playerRegistry,
  m_networkState, m_readyState, m_paused, m_ended, m_seeking,
  m_httpFailed,
  m_resource,      \* the fetch: none, started, receiving
  \* the two queues, and the page's elements
  toPage, toEngine,
  mediaPlayers,
  \* bookkeeping of the model
  nextID,
  loaded,          \* number of the current source
  failed,          \* sources that did fail: refused, broken off, not decoded, not played
  urls,            \* blob URLs created and not revoked
  mediaCalls

playerVars == <<m_id, playerRegistry, m_networkState, m_readyState, m_paused, m_ended,
                m_seeking, m_httpFailed, m_resource>>
mediaVars == <<playerVars, toPage, toEngine, mediaPlayers, nextID, loaded, failed, urls,
               mediaCalls>>

Ids == 1..MaxPlayers
Loads == 0..MaxSources
Failures == {"NetworkError", "FormatError", "DecodeError"}
Events == {"loadedmetadata", "canplay", "canplaythrough", "playing", "pause", "ended",
           "error", "seeked"}
HaveNothing == 0
HaveMetadata == 1
HaveFutureData == 3
HaveEnoughData == 4

\* An element of the page: what it plays, how far it has it, whether its blob URL
\* stands.  "gone" before it is created and after it is destroyed.
Gone == [at |-> "gone", source |-> 0, level |-> 0, playing |-> FALSE, seeking |-> FALSE,
         url |-> FALSE]
Elements == [at : {"gone", "empty", "loading", "failed"}, source : Loads, level : 0..4,
             playing : BOOLEAN, seeking : BOOLEAN, url : BOOLEAN]

MediaTypeOK ==
  /\ m_id \in 0..MaxPlayers /\ playerRegistry \subseteq Ids /\ nextID \in 0..MaxPlayers
  /\ m_networkState \in {"Empty", "Loading", "Idle"} \cup Failures
  /\ m_readyState \in {HaveNothing, HaveMetadata, HaveFutureData, HaveEnoughData}
  /\ m_paused \in BOOLEAN /\ m_ended \in BOOLEAN /\ m_seeking \in BOOLEAN
  /\ m_httpFailed \in BOOLEAN /\ m_resource \in {"none", "started", "receiving"}
  /\ toPage \in Seq([id : Ids, op : {"create", "bytes", "play", "pause", "seek", "unload",
                                     "destroy"}, source : Loads])
  /\ toEngine \in Seq([id : Ids, code : Events, source : Loads])
  /\ mediaPlayers \in [Ids -> Elements]
  /\ loaded \in Loads /\ failed \subseteq Loads
  /\ urls \in 0..MaxSources /\ mediaCalls \in 0..MaxMediaCalls

MediaInit ==
  /\ m_id = 0 /\ playerRegistry = {} /\ nextID = 0
  /\ m_networkState = "Empty" /\ m_readyState = HaveNothing
  /\ m_paused = TRUE /\ m_ended = FALSE /\ m_seeking = FALSE
  /\ m_httpFailed = FALSE /\ m_resource = "none"
  /\ toPage = <<>> /\ toEngine = <<>> /\ mediaPlayers = [i \in Ids |-> Gone]
  /\ loaded = 0 /\ failed = {} /\ urls = 0 /\ mediaCalls = 0

Message(id, op, source) == [id |-> id, op |-> op, source |-> source]

-----------------------------------------------------------------------------
(* The player *)

ClearedHttpFailed == FALSE

\* resetResourceState, with the network state that follows it.
Reset(state) ==
  /\ m_networkState' = state /\ m_readyState' = HaveNothing
  /\ m_paused' = TRUE /\ m_ended' = FALSE /\ m_seeking' = FALSE
  /\ m_httpFailed' = ClearedHttpFailed

\* load: the fetch is started, or the source is refused at once.
LoadSource ==
  /\ loaded < MaxSources
  /\ loaded' = loaded + 1
  /\ \/ Reset("Loading") /\ m_resource' = "started" /\ UNCHANGED failed
     \/ \E state \in {"FormatError", "NetworkError"} :
          Reset(state) /\ m_resource' = "none" /\ failed' = failed \cup {loaded'}

Unregistered(id) == playerRegistry \ {id}

\* A guest element gets a source: WebCore cancels and destroys the player it had,
\* and creates the next.
SetSource ==
  /\ nextID < MaxPlayers
  /\ nextID' = nextID + 1 /\ m_id' = nextID'
  /\ playerRegistry' = (IF m_id = 0 THEN playerRegistry ELSE Unregistered(m_id)) \cup {nextID'}
  /\ toPage' = toPage
                 \o (IF m_id = 0 THEN <<>>
                     ELSE <<Message(m_id, "unload", 0), Message(m_id, "destroy", 0)>>)
                 \o <<Message(nextID', "create", 0)>>
  /\ LoadSource
  /\ UNCHANGED <<toEngine, mediaPlayers, urls, mediaCalls>>

\* The next candidate, after one that failed without metadata.
NextCandidate ==
  /\ m_id # 0 /\ m_networkState \in Failures /\ m_readyState = HaveNothing
  /\ LoadSource
  /\ UNCHANGED <<m_id, playerRegistry, nextID, toPage, toEngine, mediaPlayers, urls, mediaCalls>>

\* The element goes away: cancelLoad, then the destructor.
Destroy ==
  /\ m_id # 0
  /\ m_id' = 0 /\ playerRegistry' = Unregistered(m_id)
  /\ toPage' = toPage \o <<Message(m_id, "unload", 0), Message(m_id, "destroy", 0)>>
  /\ Reset("Empty") /\ m_resource' = "none"
  /\ UNCHANGED <<toEngine, mediaPlayers, nextID, loaded, failed, urls, mediaCalls>>

\* WebCore plays what has data, pauses what plays, seeks what has metadata.
Control(op) ==
  /\ m_id # 0 /\ mediaCalls < MaxMediaCalls
  /\ mediaCalls' = mediaCalls + 1
  /\ toPage' = Append(toPage, Message(m_id, op, loaded))
  /\ UNCHANGED <<m_id, playerRegistry, m_networkState, m_readyState, m_httpFailed, m_resource,
                 toEngine, mediaPlayers, nextID, loaded, failed, urls>>

Play == /\ m_readyState >= HaveFutureData
        /\ Control("play") /\ m_paused' = FALSE /\ m_ended' = FALSE /\ UNCHANGED m_seeking
Pause == /\ ~m_paused
         /\ Control("pause") /\ m_paused' = TRUE /\ UNCHANGED <<m_ended, m_seeking>>
Seek == /\ m_readyState >= HaveMetadata
        /\ Control("seek") /\ m_seeking' = TRUE /\ UNCHANGED <<m_paused, m_ended>>

-----------------------------------------------------------------------------
(* The fetch: BibMediaResourceClient *)

FetchStep ==
  UNCHANGED <<m_id, playerRegistry, m_readyState, m_paused, m_ended, m_seeking, toEngine,
              mediaPlayers, nextID, loaded, urls, mediaCalls>>

\* The response; a status of 400 or more is judged at the end.
ResponseReceived ==
  /\ m_resource = "started"
  /\ m_resource' = "receiving"
  /\ \/ UNCHANGED <<m_httpFailed, failed>>
     \/ m_httpFailed' = TRUE /\ failed' = failed \cup {loaded}
  /\ UNCHANGED <<m_networkState, toPage>>
  /\ FetchStep

\* The fetch breaks, or the body is larger than kMaxMediaBytes.
LoadFailed ==
  /\ m_resource # "none"
  /\ m_resource' = "none"
  /\ m_networkState' = "NetworkError" /\ failed' = failed \cup {loaded}
  /\ UNCHANGED <<m_httpFailed, toPage>>
  /\ FetchStep

\* The last byte: the bytes go to the page, unless the status was bad.
LoadFinished ==
  /\ m_resource = "receiving"
  /\ m_resource' = "none"
  /\ IF m_httpFailed
     THEN m_networkState' = "NetworkError" /\ UNCHANGED toPage
     ELSE toPage' = Append(toPage, Message(m_id, "bytes", loaded)) /\ UNCHANGED m_networkState
  /\ UNCHANGED <<m_httpFailed, failed>>
  /\ FetchStep

-----------------------------------------------------------------------------
(* The page: bibMediaCreate, bibMediaLoadBytes, bibMediaCtl, bibMediaDestroy *)

PageStep == UNCHANGED <<playerVars, nextID, loaded, mediaCalls>>
Event(id, code) == [id |-> id, code |-> code, source |-> mediaPlayers[id].source]
SetElement(id, e) == mediaPlayers' = [mediaPlayers EXCEPT ![id] = e]

\* Number of URLs that go with the element's old source.
RevokeUrl(e) == IF e.url THEN 1 ELSE 0

\* One call from the engine.  Nothing happens to an element that is gone; a play
\* that the page's policy rejects is reported as an error.
PageMessage ==
  /\ toPage # <<>>
  /\ toPage' = Tail(toPage)
  /\ LET msg == Head(toPage)
         e   == mediaPlayers[msg.id]
     IN \/ /\ msg.op = "create"
           /\ SetElement(msg.id, [Gone EXCEPT !.at = "empty"])
           /\ UNCHANGED <<toEngine, urls, failed>>
        \/ /\ msg.op # "create" /\ e.at = "gone"
           /\ UNCHANGED <<mediaPlayers, toEngine, urls, failed>>
        \/ /\ msg.op = "bytes" /\ e.at # "gone"
           /\ urls' = urls - RevokeUrl(e) + 1
           /\ SetElement(msg.id, [Gone EXCEPT !.at = "loading", !.source = msg.source, !.url = TRUE])
           /\ UNCHANGED <<toEngine, failed>>
        \/ /\ msg.op = "play" /\ e.at # "gone"
           /\ \/ /\ e.at = "loading" /\ e.level >= HaveFutureData
                 /\ SetElement(msg.id, [e EXCEPT !.playing = TRUE])
                 /\ toEngine' = IF e.playing THEN toEngine
                                ELSE Append(toEngine, Event(msg.id, "playing"))
                 /\ UNCHANGED failed
              \/ /\ toEngine' = Append(toEngine, Event(msg.id, "error"))
                 /\ failed' = failed \cup {e.source}
                 /\ UNCHANGED mediaPlayers
           /\ UNCHANGED urls
        \/ /\ msg.op = "pause" /\ e.at # "gone"
           /\ SetElement(msg.id, [e EXCEPT !.playing = FALSE])
           /\ toEngine' = IF e.playing THEN Append(toEngine, Event(msg.id, "pause")) ELSE toEngine
           /\ UNCHANGED <<urls, failed>>
        \/ /\ msg.op = "seek" /\ e.at # "gone"
           /\ SetElement(msg.id, [e EXCEPT !.seeking = (e.at = "loading")])
           /\ UNCHANGED <<toEngine, urls, failed>>
        \/ /\ msg.op \in {"unload", "destroy"} /\ e.at # "gone"
           /\ urls' = urls - RevokeUrl(e)
           /\ SetElement(msg.id, IF msg.op = "unload" THEN [Gone EXCEPT !.at = "empty"] ELSE Gone)
           /\ toEngine' = IF e.playing THEN Append(toEngine, Event(msg.id, "pause")) ELSE toEngine
           /\ UNCHANGED failed
  /\ PageStep

\* The host browser's element works on its blob and says so.
ElementSays(id, e, codes) ==
  /\ SetElement(id, e)
  /\ toEngine' = toEngine \o [i \in DOMAIN codes |-> Event(id, codes[i])]
  /\ UNCHANGED <<toPage, urls>>
  /\ PageStep

ElementAdvances(id) ==
  LET e == mediaPlayers[id] IN
  /\ e.at = "loading"
  /\ \/ /\ e.level = HaveNothing
        /\ ElementSays(id, [e EXCEPT !.level = HaveMetadata], <<"loadedmetadata">>)
        /\ UNCHANGED failed
     \/ /\ e.level = HaveMetadata
        /\ ElementSays(id, [e EXCEPT !.level = HaveFutureData], <<"canplay">>)
        /\ UNCHANGED failed
     \/ /\ e.level < HaveFutureData
        /\ ElementSays(id, [e EXCEPT !.at = "failed"], <<"error">>)
        /\ failed' = failed \cup {e.source}

\* It may never be sure that it can play through.
ElementCanPlayThrough(id) ==
  LET e == mediaPlayers[id] IN
  /\ e.at = "loading" /\ e.level = HaveFutureData
  /\ ElementSays(id, [e EXCEPT !.level = HaveEnoughData], <<"canplaythrough">>)
  /\ UNCHANGED failed

ElementEnds(id) ==
  LET e == mediaPlayers[id] IN
  /\ e.at = "loading" /\ e.playing
  /\ ElementSays(id, [e EXCEPT !.playing = FALSE], <<"pause", "ended">>)
  /\ UNCHANGED failed

ElementSeeked(id) ==
  LET e == mediaPlayers[id] IN
  /\ e.at = "loading" /\ e.seeking
  /\ ElementSays(id, [e EXCEPT !.seeking = FALSE], <<"seeked">>)
  /\ UNCHANGED failed

-----------------------------------------------------------------------------
(* bib_media_event: the queue to the engine thread *)

\* A wrong form of the next: any player will do.
AnyPlayer(id) == m_id # 0
PlayerRegistered(id) == id \in playerRegistry

IdleIfLoading == IF m_networkState = "Loading" THEN "Idle" ELSE m_networkState
\* A wrong form of the next: only canplaythrough leaves Loading.
StillLoading == m_networkState
AfterCanPlay == IdleIfLoading

HandleEvent ==
  /\ toEngine # <<>>
  /\ toEngine' = Tail(toEngine)
  /\ LET code == Head(toEngine).code
     IN IF ~PlayerRegistered(Head(toEngine).id) THEN UNCHANGED playerVars
        ELSE
        /\ m_networkState' \in
             CASE code = "canplay"        -> {AfterCanPlay}
               [] code = "canplaythrough" -> {IdleIfLoading}
               [] code = "error"          -> Failures
               [] OTHER                   -> {m_networkState}
        /\ m_readyState' =
             CASE code = "loadedmetadata" -> HaveMetadata
               [] code = "canplay" /\ m_readyState < HaveFutureData -> HaveFutureData
               [] code = "canplaythrough" -> HaveEnoughData
               [] OTHER                   -> m_readyState
        /\ m_paused' = (code \in {"pause", "ended"} \/ (m_paused /\ code # "playing"))
        /\ m_ended' = (m_ended \/ code = "ended")
        /\ m_seeking' = (m_seeking /\ code # "seeked")
        /\ UNCHANGED <<m_id, playerRegistry, m_httpFailed, m_resource>>
  /\ UNCHANGED <<toPage, mediaPlayers, nextID, loaded, failed, urls, mediaCalls>>

-----------------------------------------------------------------------------
MediaCall == SetSource \/ NextCandidate \/ Destroy \/ Play \/ Pause \/ Seek
FetchProceeds == ResponseReceived \/ LoadFailed \/ LoadFinished
ElementProceeds == \E id \in Ids : ElementAdvances(id)
MediaStep ==
  \/ FetchProceeds \/ PageMessage \/ HandleEvent \/ ElementProceeds
  \/ \E id \in Ids : ElementCanPlayThrough(id) \/ ElementEnds(id) \/ ElementSeeked(id)

\* The guest's fetch ends (the loader strategy answers every load), the two event
\* queues are drained, and a browser decodes a blob or says that it cannot.
MediaFairness ==
  /\ WF_mediaVars(FetchProceeds) /\ WF_mediaVars(PageMessage) /\ WF_mediaVars(HandleEvent)
  /\ WF_mediaVars(ElementProceeds)

-----------------------------------------------------------------------------
(* Properties *)

\* "src change must not bleed prior state": what the player tells WebCore is about
\* its current source.  Its data are that source's, in the page's element, as far as
\* the element has them; and if it says that the source failed, that source did.
StateIsOfSource ==
  m_id # 0 =>
    /\ m_readyState # HaveNothing =>
         mediaPlayers[m_id].source = loaded /\ mediaPlayers[m_id].level >= m_readyState
    /\ m_networkState \in Failures => loaded \in failed

\* The bytes behind a blob URL stay in the browser's memory until it is revoked:
\* once the page has caught up, the only URL left is the current element's.
UrlsRevoked ==
  toPage = <<>> => urls = IF m_id # 0 /\ mediaPlayers[m_id].url THEN 1 ELSE 0

\* A change of source neither shows the state of the old one nor keeps its bytes.
MediaStateSound == StateIsOfSource /\ UrlsRevoked

\* The guest's element is not stranded in NETWORK_LOADING, even if the host never
\* announces that it can play through.
LoadingEnds == m_networkState = "Loading" ~> m_networkState # "Loading"
=============================================================================
