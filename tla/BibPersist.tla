----------------------------- MODULE BibPersist -----------------------------
(***************************************************************************)
(* The browser profile: cookies and guest localStorage, dumped by the      *)
(* engine when they change, written to one OPFS file by the page, and read *)
(* back when the next page boots.                                          *)
(*                                                                         *)
(* The engine thread detects changes and sends a blob; the page debounces, *)
(* writes asynchronously and retries.  The page may be closed, reloaded or *)
(* crash between any two steps, and only the file survives.                *)
(***************************************************************************)
EXTENDS Integers, Sequences

CONSTANTS
  Origins,      \* guest origins with localStorage
  Values,       \* what an origin (or the cookie jar) can hold
  Empty,        \* the value of an origin that stores nothing
  NoBlob,       \* null: no blob pending, no profile, nothing dumped yet
  MaxChanges,   \* bound: guest writes
  MaxRestarts,  \* bound: times the page goes away
  MaxFaults,    \* bound: failures of the profile's read or write
  MaxMallocs    \* bound: dumps whose transfer buffer cannot be allocated

Blobs == [cookies : Values, storage : [Origins -> Values]]

ASSUME ValueAssumption == Empty \in Values /\ NoBlob \notin Blobs
ASSUME BoundAssumption ==
  /\ MaxChanges \in Nat /\ MaxRestarts \in Nat
  /\ MaxFaults \in Nat /\ MaxMallocs \in Nat

VARIABLES
  \* engine thread
  running,         \* main() has seeded the engine
  cookies,         \* the cookie jar
  opened,          \* origins in bibLocalAreaRegistry
  area,            \* their storage areas
  pendingImport,   \* bibPendingStorageImport: seeded, not opened yet
  lastJSON,        \* bibMaybePersist's change detector
  transit,         \* blobs on their way to Module.bibPersist
  \* page
  persistPending,
  persistTimer,    \* a debounce or retry timer is armed
  writing,         \* the blob persistWriteLoop is writing (persistWriting)
  \* OPFS
  stored,          \* PERSIST_FILE
  \* bookkeeping of the model
  seedLost,        \* this session could not read the file it found
  dumpLost,        \* what lastJSON holds was never sent
  changes, restarts, faults, mallocs

engineVars == <<running, cookies, opened, area, pendingImport, lastJSON>>
pageVars == <<persistPending, persistTimer, writing>>
bounds == <<changes, restarts, faults, mallocs>>
vars == <<engineVars, transit, pageVars, stored, seedLost, dumpLost, bounds>>

TypeOK ==
  /\ running \in BOOLEAN
  /\ cookies \in Values
  /\ opened \in SUBSET Origins
  /\ area \in [Origins -> Values]
  /\ pendingImport \in [Origins -> Values]
  /\ lastJSON \in Blobs \cup {NoBlob}
  /\ transit \in Seq(Blobs)
  /\ persistPending \in Blobs \cup {NoBlob}
  /\ persistTimer \in BOOLEAN
  /\ writing \in Blobs \cup {NoBlob}
  /\ stored \in Blobs \cup {NoBlob}
  /\ seedLost \in BOOLEAN /\ dumpLost \in BOOLEAN
  /\ changes \in 0..MaxChanges /\ restarts \in 0..MaxRestarts
  /\ faults \in 0..MaxFaults /\ mallocs \in 0..MaxMallocs

Nothing == [o \in Origins |-> Empty]

\* The first page of a fresh profile, before main().
Init ==
  /\ running = FALSE
  /\ cookies = Empty /\ opened = {} /\ area = Nothing /\ pendingImport = Nothing
  /\ lastJSON = NoBlob /\ transit = <<>>
  /\ persistPending = NoBlob /\ persistTimer = FALSE /\ writing = NoBlob
  /\ stored = NoBlob /\ seedLost = FALSE /\ dumpLost = FALSE
  /\ changes = 0 /\ restarts = 0 /\ faults = 0 /\ mallocs = 0

-----------------------------------------------------------------------------
(* Boot: persistSeedReady on the page, bibSeedPersistedState in main() *)

Seed(blob) ==
  /\ running' = TRUE
  /\ cookies' = IF blob = NoBlob THEN Empty ELSE blob.cookies
  /\ pendingImport' = IF blob = NoBlob THEN Nothing ELSE blob.storage
  /\ UNCHANGED <<opened, area, lastJSON, transit, pageVars, stored, dumpLost,
                 changes, restarts, mallocs>>

Boot == ~running /\ Seed(stored) /\ seedLost' = FALSE /\ UNCHANGED faults

\* Any failure on the way to the file's text: "first run - no profile yet".
BootWithoutSeed ==
  /\ ~running /\ stored # NoBlob
  /\ faults < MaxFaults /\ faults' = faults + 1
  /\ Seed(NoBlob)
  /\ seedLost' = TRUE

-----------------------------------------------------------------------------
(* The guest *)

SetCookie ==
  /\ running /\ changes < MaxChanges
  /\ changes' = changes + 1
  /\ cookies' \in Values \ {cookies}
  /\ UNCHANGED <<running, opened, area, pendingImport, lastJSON, transit, pageVars,
                 stored, seedLost, dumpLost, restarts, faults, mallocs>>

\* First touch of a local origin: hydrate from the seed, then register.
StorageArea(o) ==
  /\ running /\ o \notin opened
  /\ opened' = opened \cup {o}
  /\ area' = [area EXCEPT ![o] = pendingImport[o]]
  /\ pendingImport' = [pendingImport EXCEPT ![o] = Empty]
  /\ UNCHANGED <<running, cookies, lastJSON, transit, pageVars, stored, seedLost,
                 dumpLost, bounds>>

SetItem(o) ==
  /\ running /\ o \in opened /\ changes < MaxChanges
  /\ changes' = changes + 1
  /\ \E v \in Values \ {area[o]} : area' = [area EXCEPT ![o] = v]
  /\ UNCHANGED <<running, cookies, opened, pendingImport, lastJSON, transit,
                 pageVars, stored, seedLost, dumpLost, restarts, faults, mallocs>>

-----------------------------------------------------------------------------
(* The dump: bibMaybePersist, on a tick or forced by bib_persist_now *)

OpenedOnly ==
  [cookies |-> cookies,
   storage |-> [o \in Origins |-> IF o \in opened THEN area[o] ELSE Empty]]
\* bibBuildPersistJSON: the open areas, and what was seeded for the others.
\* (Two texts of one blob may differ in the order of their members; the push
\* that causes is of an equal blob and left out.)
BuildPersistJSON ==
  [cookies |-> cookies,
   storage |-> [o \in Origins |-> IF o \in opened THEN area[o] ELSE pendingImport[o]]]

MaybePersist ==
  /\ running
  /\ BuildPersistJSON # lastJSON
  /\ lastJSON' = BuildPersistJSON
  /\ transit' = Append(transit, BuildPersistJSON)
  /\ dumpLost' = FALSE
  /\ UNCHANGED <<running, cookies, opened, area, pendingImport, pageVars, stored,
                 seedLost, bounds>>

\* The same with malloc returning null: the detector has already advanced.
MaybePersistNoMemory ==
  /\ running
  /\ BuildPersistJSON # lastJSON
  /\ mallocs < MaxMallocs /\ mallocs' = mallocs + 1
  /\ lastJSON' = BuildPersistJSON
  /\ dumpLost' = TRUE
  /\ UNCHANGED <<running, cookies, opened, area, pendingImport, transit, pageVars,
                 stored, seedLost, changes, restarts, faults>>

-----------------------------------------------------------------------------
(* The page *)

\* Module.bibPersist
Persist ==
  /\ transit # <<>>
  /\ persistPending' = Head(transit)
  /\ transit' = Tail(transit)
  /\ persistTimer' = TRUE
  /\ UNCHANGED <<engineVars, writing, stored, seedLost, dumpLost, bounds>>

\* The timer: persistWriteLoop, which returns at once while another run of it
\* is waiting for OPFS.
TimerFires ==
  /\ persistTimer
  /\ persistTimer' = FALSE
  /\ IF writing = NoBlob
     THEN writing' = persistPending /\ persistPending' = NoBlob
     ELSE UNCHANGED <<writing, persistPending>>
  /\ UNCHANGED <<engineVars, transit, stored, seedLost, dumpLost, bounds>>

\* close() commits the file; the loop goes on with what came in meanwhile.
WriteSucceeds ==
  /\ writing # NoBlob
  /\ stored' = writing
  /\ writing' = persistPending
  /\ persistPending' = NoBlob
  /\ UNCHANGED <<engineVars, transit, persistTimer, seedLost, dumpLost, bounds>>

RequeuedOverNewer == writing
NotRequeued == persistPending
\* What is pending after a failed write: the blob again, unless a newer one is.
Requeued == IF persistPending = NoBlob THEN writing ELSE persistPending

\* persistWriteLoop's finally.
RetryArmed == persistTimer \/ persistPending' # NoBlob

WriteFails ==
  /\ writing # NoBlob
  /\ faults < MaxFaults /\ faults' = faults + 1
  /\ persistPending' = Requeued
  /\ writing' = NoBlob
  /\ persistTimer' = RetryArmed
  /\ UNCHANGED <<engineVars, transit, stored, seedLost, dumpLost, changes,
                 restarts, mallocs>>

\* The page goes away: reload, close and reopen, or a crash of the tab.
Restart ==
  /\ running
  /\ restarts < MaxRestarts /\ restarts' = restarts + 1
  /\ running' = FALSE
  /\ cookies' = Empty /\ opened' = {} /\ area' = Nothing /\ pendingImport' = Nothing
  /\ lastJSON' = NoBlob /\ transit' = <<>>
  /\ persistPending' = NoBlob /\ persistTimer' = FALSE /\ writing' = NoBlob
  /\ dumpLost' = FALSE
  /\ UNCHANGED <<stored, seedLost, changes, faults, mallocs>>

-----------------------------------------------------------------------------
Next ==
  \/ Boot \/ BootWithoutSeed
  \/ SetCookie
  \/ \E o \in Origins : StorageArea(o) \/ SetItem(o)
  \/ MaybePersist \/ MaybePersistNoMemory
  \/ Persist \/ TimerFires \/ WriteSucceeds \/ WriteFails
  \/ Restart

Spec == Init /\ [][Next]_vars

\* Ticks keep coming, timers fire, and OPFS answers.
Fairness ==
  /\ WF_vars(Boot) /\ WF_vars(MaybePersist) /\ WF_vars(Persist)
  /\ WF_vars(TimerFires) /\ WF_vars(WriteSucceeds)

FairSpec == Spec /\ Fairness

-----------------------------------------------------------------------------
(* Properties *)

\* The blob the file will hold once the pipeline has drained.
Newest ==
  IF transit # <<>> THEN transit[Len(transit)]
  ELSE IF persistPending # NoBlob THEN persistPending
  ELSE IF writing # NoBlob THEN writing
  ELSE stored

\* The change detector never runs ahead of the pipeline: what it last saw is on
\* its way or in the file.  Failed writes, newer blobs arriving during a write
\* and retries may neither drop it nor put an older one in its place.  dumpLost
\* names the one way out: a dump for which no buffer could be allocated.
DetectorNotAhead == lastJSON # NoBlob => dumpLost \/ Newest = lastJSON

\* A pending blob is never stranded without a timer or a running write loop.
NothingStranded == persistPending # NoBlob => persistTimer \/ writing # NoBlob

FileHolds(o) == IF stored = NoBlob THEN Empty ELSE stored.storage[o]

\* What earlier sessions stored for an origin changes only in a session that has
\* opened it: not visiting a site never erases its data, however often the page
\* restarts, unless the profile could not be read at boot.
UnopenedOriginKept ==
  [][\A o \in Origins :
       FileHolds(o)' # FileHolds(o) => o \in opened \/ seedLost]_vars

\* Once guest, restarts and faults come to rest, the file is the guest's state
\* (or the last dump was lost for want of memory, until the next change).
ProfileCatchesUp == <>[](running /\ (dumpLost \/ stored = BuildPersistJSON))

\* "Origins seeded from a previous session that the guest has not opened yet
\* THIS session still live in the pending map - dropping them here would erase a
\* prior session's data just by not visiting the site": the same without the
\* exception for a profile that could not be read.
UnvisitedNeverErased ==
  [][\A o \in Origins : FileHolds(o)' # FileHolds(o) => o \in opened]_vars

\* "The engine's change-detector already advanced - losing this blob here would
\* lose it FOREVER": the same for the engine's own end of the pipeline.
DetectorNeverAhead == lastJSON # NoBlob => Newest = lastJSON
=============================================================================
