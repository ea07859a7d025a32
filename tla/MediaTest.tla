------------------------------ MODULE MediaTest ------------------------------
(***************************************************************************)
(* The media bridge under its acceptance test, tools/media-test.mjs: a     *)
(* page with one audio element (web/media/audio.html) is booted with       *)
(* ?media=1, played to its end and looked at from the host; then booted    *)
(* again without the flag, where the engine must say it cannot play.       *)
(*                                                                         *)
(* All the test knows it reads from the console, one list for both boots.  *)
(* The boot of the engine and the media clock are not modelled here.       *)
(***************************************************************************)
EXTENDS BibMediaPlayer

VARIABLES
  boot,      \* which of the two pages
  parsed,    \* the guest page has run its script
  wantsPlay, \* it was told to play, and waits for data
  console,   \* lines the test goes by, in order
  phase,     \* what the test does: boot, play, playing, ended, witness, PASS, FAIL
  hostEnded, \* an element of the host page has ended
  played,    \* the guest's element did end, on a source that never failed
  mediaLate  \* a deadline of the test has passed

mediaTestVars == <<boot, parsed, wantsPlay, console, phase, hostEnded, played, mediaLate>>

MediaTestInit ==
  /\ boot = 1 /\ parsed = FALSE /\ wantsPlay = FALSE /\ console = <<>> /\ phase = "boot"
  /\ hostEnded = FALSE /\ played = FALSE /\ mediaLate = FALSE

MediaFlag == boot = 1
CanPlay == {"canPlayType maybe", "canPlayType empty"}

\* waitConsole: the first line of a kind.
Heard(kind) == \E i \in DOMAIN console : console[i] \in kind
FirstLine(kind) == console[CHOOSE i \in DOMAIN console :
                             /\ console[i] \in kind
                             /\ \A j \in 1..(i - 1) : console[j] \notin kind]
Logs(line) == console' = Append(console, line)

-----------------------------------------------------------------------------
(* The guest page and the bridge *)

\* The parser meets the element; the script asks canPlayType.
PageParses ==
  /\ ~parsed
  /\ parsed' = TRUE
  /\ IF MediaFlag THEN SetSource /\ Logs("canPlayType maybe")
                  ELSE UNCHANGED mediaVars /\ Logs("canPlayType empty")
  /\ UNCHANGED <<boot, wantsPlay, phase, hostEnded, played, mediaLate>>

\* play() takes effect once there is data.
GuestPlays ==
  /\ wantsPlay /\ Play
  /\ wantsPlay' = FALSE
  /\ Logs("playing")
  /\ UNCHANGED <<boot, parsed, phase, hostEnded, played, mediaLate>>

\* The bridge works; of its steps the console shows two and the host page one.
EndedArrives ==
  /\ HandleEvent
  /\ IF Head(toEngine).code = "ended" /\ PlayerRegistered(Head(toEngine).id)
     THEN Logs("ended") /\ played' = (played \/ loaded \notin failed)
     ELSE UNCHANGED <<console, played>>
  /\ UNCHANGED <<boot, parsed, wantsPlay, phase, hostEnded, mediaLate>>

BlobArrives ==
  /\ PageMessage
  /\ IF Head(toPage).op = "bytes" /\ mediaPlayers[Head(toPage).id].at # "gone"
     THEN Logs("-> blob") ELSE UNCHANGED console
  /\ UNCHANGED <<boot, parsed, wantsPlay, phase, hostEnded, played, mediaLate>>

HostEnds ==
  /\ \E id \in Ids : ElementEnds(id)
  /\ hostEnded' = TRUE
  /\ UNCHANGED <<boot, parsed, wantsPlay, console, phase, played, mediaLate>>

OthersProceed ==
  /\ FetchProceeds \/ ElementProceeds \/ \E id \in Ids : ElementCanPlayThrough(id)
  /\ UNCHANGED mediaTestVars

-----------------------------------------------------------------------------
(* The test *)

TestOnly == UNCHANGED <<mediaVars, parsed, hostEnded, played>>

BootSeen ==
  /\ phase = "boot" /\ Heard(CanPlay)
  /\ LET empty == FirstLine(CanPlay) = "canPlayType empty"
     IN phase' = IF empty = MediaFlag THEN "FAIL" ELSE IF MediaFlag THEN "play" ELSE "PASS"
  /\ TestOnly /\ UNCHANGED <<boot, wantsPlay, console, mediaLate>>

\* bib_eval("window.mediaGatePlay()")
EvalPlay ==
  /\ phase = "play"
  /\ wantsPlay' = TRUE /\ phase' = "playing"
  /\ TestOnly /\ UNCHANGED <<boot, console, mediaLate>>

EventSeen ==
  /\ phase \in {"playing", "ended"} /\ Heard({phase})
  /\ phase' = IF phase = "playing" THEN "ended" ELSE "witness"
  /\ TestOnly /\ UNCHANGED <<boot, wantsPlay, console, mediaLate>>

\* A wrong form of the next: the second boot reads on in the same list.
KeptLines(lines) == lines
ClearedLines(lines) == <<>>

\* The host's own element and the blob are looked for; then the page is closed and
\* the next one booted.
Witness ==
  /\ phase = "witness"
  /\ IF hostEnded /\ Heard({"-> blob"})
     THEN /\ phase' = "boot" /\ boot' = 2 /\ console' = ClearedLines(console)
          /\ parsed' = FALSE /\ wantsPlay' = FALSE /\ hostEnded' = FALSE
          /\ m_id' = 0 /\ playerRegistry' = {} /\ nextID' = 0
          /\ Reset("Empty") /\ m_resource' = "none"
          /\ toPage' = <<>> /\ toEngine' = <<>> /\ mediaPlayers' = [i \in Ids |-> Gone]
          /\ loaded' = 0 /\ failed' = {} /\ urls' = 0 /\ mediaCalls' = 0
     ELSE phase' = "FAIL" /\ UNCHANGED <<mediaVars, boot, parsed, wantsPlay, console, hostEnded>>
  /\ UNCHANGED <<played, mediaLate>>

MediaTestTimesOut ==
  /\ \/ phase = "boot" /\ ~Heard(CanPlay)
     \/ phase \in {"playing", "ended"} /\ ~Heard({phase})
  /\ phase' = "FAIL" /\ mediaLate' = TRUE
  /\ TestOnly /\ UNCHANGED <<boot, wantsPlay, console>>

MediaTestStep ==
  \/ PageParses \/ GuestPlays \/ EndedArrives \/ BlobArrives \/ HostEnds \/ OthersProceed
  \/ BootSeen \/ EvalPlay \/ EventSeen \/ Witness \/ MediaTestTimesOut

-----------------------------------------------------------------------------
(* Properties *)

\* The media test passes only when the guest's element did play a sound source to its
\* end; it fails only because a deadline passed, never on what an earlier boot logged.
MediaTestTellsTheTruth ==
  /\ phase = "PASS" => played /\ boot = 2
  /\ phase = "FAIL" => mediaLate
=============================================================================
