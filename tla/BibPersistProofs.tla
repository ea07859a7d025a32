-------------------------- MODULE BibPersistProofs --------------------------
(***************************************************************************)
(* The profile for any set of origins, any values and any number of        *)
(* changes, failures and restarts.                                         *)
(*                                                                         *)
(* UnopenedOriginKept is not inductive: a write changes the file to a blob *)
(* dumped long before.  SeedKept follows what boot read through every      *)
(* place a blob can be, and Idle says that none survives the page.         *)
(***************************************************************************)
EXTENDS PersistTest, SequenceLemmas

\* Between two pages there is nothing but the file.
Idle ==
  ~running => /\ transit = <<>> /\ persistPending = NoBlob /\ writing = NoBlob
              /\ opened = {} /\ lastJSON = NoBlob /\ ~persistTimer

FromSeed(blob) == \A o \in Origins \ opened : blob.storage[o] = pendingImport[o]

\* For an origin not opened yet, the import map, every blob under way and the
\* file agree with what boot read.
SeedKept ==
  running /\ ~seedLost =>
    /\ \A o \in Origins \ opened : FileHolds(o) = pendingImport[o]
    /\ \A i \in 1..Len(transit) : FromSeed(transit[i])
    /\ persistPending # NoBlob => FromSeed(persistPending)
    /\ writing # NoBlob => FromSeed(writing)

IInv == TypeOK /\ Idle /\ NothingStranded /\ DetectorNotAhead /\ SeedKept

LEMMA BlobFacts ==
  ASSUME NEW b \in Blobs
  PROVE  b # NoBlob /\ b.cookies \in Values /\ b.storage \in [Origins -> Values]
BY ValueAssumption DEF Blobs

LEMMA NothingFacts == Nothing \in [Origins -> Values] /\ \A o \in Origins : Nothing[o] = Empty
BY ValueAssumption DEF Nothing

\* A dump carries the seed of every origin not opened.
LEMMA DumpFacts ==
  ASSUME TypeOK
  PROVE  BuildPersistJSON \in Blobs /\ FromSeed(BuildPersistJSON)
<1> DEFINE storage == [o \in Origins |-> IF o \in opened THEN area[o] ELSE pendingImport[o]]
<1>1. storage \in [Origins -> Values]
  BY DEF TypeOK
<1>2. \A o \in Origins \ opened : storage[o] = pendingImport[o]
  OBVIOUS
<1>3. BuildPersistJSON = [cookies |-> cookies, storage |-> storage]
  BY DEF BuildPersistJSON
<1> QED
  BY <1>1, <1>2, <1>3 DEF TypeOK, Blobs, FromSeed

LEMMA InitIInv == Init => IInv
<1> SUFFICES ASSUME Init PROVE IInv
  OBVIOUS
<1>1. TypeOK
  <2>1. transit \in Seq(Blobs)
    BY EmptySeq DEF Init
  <2>2. changes \in 0..MaxChanges /\ restarts \in 0..MaxRestarts
        /\ faults \in 0..MaxFaults /\ mallocs \in 0..MaxMallocs
    BY BoundAssumption DEF Init
  <2> QED
    BY <2>1, <2>2, NothingFacts, ValueAssumption, Zenon DEF Init, TypeOK
<1>2. Idle /\ NothingStranded /\ DetectorNotAhead /\ SeedKept
  BY DEF Init, Idle, NothingStranded, DetectorNotAhead, SeedKept
<1> QED
  BY <1>1, <1>2 DEF IInv

LEMMA StepTypeOK == TypeOK /\ [Next]_vars => TypeOK'
<1> SUFFICES ASSUME TypeOK, [Next]_vars PROVE TypeOK'
  OBVIOUS
<1> USE BoundAssumption, ValueAssumption
    DEF vars, engineVars, pageVars, bounds
<1>1. ASSUME NEW blob \in Blobs \cup {NoBlob}, Seed(blob), seedLost' \in BOOLEAN,
             faults' \in 0..MaxFaults
      PROVE  TypeOK'
  <2>1. cookies' \in Values /\ pendingImport' \in [Origins -> Values]
    BY <1>1, BlobFacts, NothingFacts DEF Seed
  <2> QED
    BY <1>1, <2>1, Zenon DEF Seed, TypeOK
<1>2. CASE Boot
  BY <1>1, <1>2 DEF Boot, TypeOK
<1>3. CASE BootWithoutSeed
  <2>1. faults' \in 0..MaxFaults
    BY <1>3 DEF BootWithoutSeed, TypeOK
  <2> QED
    BY <1>1, <1>3, <2>1 DEF BootWithoutSeed
<1>4. CASE SetCookie
  BY <1>4 DEF SetCookie, TypeOK
<1>5. ASSUME NEW o \in Origins, StorageArea(o) PROVE TypeOK'
  <2>1. /\ opened' \in SUBSET Origins
        /\ area' \in [Origins -> Values] /\ pendingImport' \in [Origins -> Values]
    BY <1>5 DEF StorageArea, TypeOK
  <2> QED
    BY <1>5, <2>1, Zenon DEF StorageArea, TypeOK
<1>6. ASSUME NEW o \in Origins, SetItem(o) PROVE TypeOK'
  <2>1. area' \in [Origins -> Values] /\ changes' \in 0..MaxChanges
    BY <1>6 DEF SetItem, TypeOK
  <2> QED
    BY <1>6, <2>1, Zenon DEF SetItem, TypeOK
<1>7. CASE MaybePersist
  <2>1. lastJSON' \in Blobs /\ transit' \in Seq(Blobs)
    BY <1>7, DumpFacts, AppendFacts DEF MaybePersist, TypeOK
  <2> QED
    BY <1>7, <2>1, Zenon DEF MaybePersist, TypeOK
<1>8. CASE MaybePersistNoMemory
  <2>1. lastJSON' \in Blobs /\ mallocs' \in 0..MaxMallocs
    BY <1>8, DumpFacts DEF MaybePersistNoMemory, TypeOK
  <2> QED
    BY <1>8, <2>1, Zenon DEF MaybePersistNoMemory, TypeOK
<1>9. CASE Persist
  <2>1. persistPending' \in Blobs /\ transit' \in Seq(Blobs)
    BY <1>9, TailFacts DEF Persist, TypeOK
  <2> QED
    BY <1>9, <2>1, Zenon DEF Persist, TypeOK
<1>10. CASE TimerFires
  BY <1>10 DEF TimerFires, TypeOK
<1>11. CASE WriteSucceeds
  BY <1>11 DEF WriteSucceeds, TypeOK
<1>12. CASE WriteFails
  <2>1. faults' \in 0..MaxFaults
    BY <1>12 DEF WriteFails, TypeOK
  <2>2. persistPending' \in Blobs \cup {NoBlob} /\ persistTimer' \in BOOLEAN
    BY <1>12, Zenon DEF WriteFails, Requeued, RetryArmed, TypeOK
  <2> QED
    BY <1>12, <2>1, <2>2, Zenon DEF WriteFails, TypeOK
<1>13. CASE Restart
  <2>1. transit' \in Seq(Blobs) /\ restarts' \in 0..MaxRestarts
    BY <1>13, EmptySeq DEF Restart, TypeOK
  <2> QED
    BY <1>13, <2>1, NothingFacts, Zenon DEF Restart, TypeOK
<1>14. CASE UNCHANGED vars
  BY <1>14 DEF TypeOK
<1> QED
  BY <1>2, <1>3, <1>4, <1>5, <1>6, <1>7, <1>8, <1>9, <1>10, <1>11, <1>12, <1>13, <1>14
     DEF Next

LEMMA StepIdle == TypeOK /\ Idle /\ [Next]_vars => Idle'
<1> SUFFICES ASSUME TypeOK, Idle, [Next]_vars PROVE Idle'
  OBVIOUS
<1> USE DEF vars, engineVars, pageVars, bounds, Idle
<1>1. CASE Boot \/ BootWithoutSeed
  BY <1>1 DEF Boot, BootWithoutSeed, Seed
<1>2. CASE SetCookie \/ MaybePersist \/ MaybePersistNoMemory
  BY <1>2 DEF SetCookie, MaybePersist, MaybePersistNoMemory
<1>3. ASSUME NEW o \in Origins, StorageArea(o) \/ SetItem(o) PROVE Idle'
  BY <1>3 DEF StorageArea, SetItem
<1>4. CASE Persist
  BY <1>4 DEF Persist
<1>5. CASE TimerFires
  BY <1>5 DEF TimerFires
<1>6. CASE WriteSucceeds \/ WriteFails
  BY <1>6 DEF WriteSucceeds, WriteFails
<1>7. CASE Restart
  BY <1>7 DEF Restart
<1>8. CASE UNCHANGED vars
  BY <1>8
<1> QED
  BY <1>1, <1>2, <1>3, <1>4, <1>5, <1>6, <1>7, <1>8 DEF Next

LEMMA StepNothingStranded ==
  TypeOK /\ Idle /\ NothingStranded /\ [Next]_vars => NothingStranded'
<1> SUFFICES ASSUME TypeOK, Idle, NothingStranded, [Next]_vars PROVE NothingStranded'
  OBVIOUS
<1> USE DEF vars, engineVars, pageVars, bounds, NothingStranded
<1>1. CASE Boot \/ BootWithoutSeed
  BY <1>1 DEF Boot, BootWithoutSeed, Seed
<1>2. CASE SetCookie \/ MaybePersist \/ MaybePersistNoMemory
  BY <1>2 DEF SetCookie, MaybePersist, MaybePersistNoMemory
<1>3. ASSUME NEW o \in Origins, StorageArea(o) \/ SetItem(o) PROVE NothingStranded'
  BY <1>3 DEF StorageArea, SetItem
<1>4. CASE Persist
  BY <1>4 DEF Persist
<1>5. CASE TimerFires
  BY <1>5 DEF TimerFires
<1>6. CASE WriteSucceeds
  BY <1>6 DEF WriteSucceeds
<1>7. CASE WriteFails
  BY <1>7 DEF WriteFails, RetryArmed
<1>8. CASE Restart
  BY <1>8 DEF Restart
<1>9. CASE UNCHANGED vars
  BY <1>9
<1> QED
  BY <1>1, <1>2, <1>3, <1>4, <1>5, <1>6, <1>7, <1>8, <1>9 DEF Next

\* What a dump, a delivery and the end of a write do to the newest blob.
LEMMA StepDetectorNotAhead ==
  TypeOK /\ Idle /\ DetectorNotAhead /\ [Next]_vars => DetectorNotAhead'
<1> SUFFICES ASSUME TypeOK, Idle, DetectorNotAhead, [Next]_vars PROVE DetectorNotAhead'
  OBVIOUS
<1> USE DEF vars, engineVars, pageVars, bounds, DetectorNotAhead
<1>1. CASE Boot \/ BootWithoutSeed
  BY <1>1 DEF Boot, BootWithoutSeed, Seed, Idle
<1>2. CASE SetCookie
  BY <1>2 DEF SetCookie, Newest
<1>3. ASSUME NEW o \in Origins, StorageArea(o) \/ SetItem(o) PROVE DetectorNotAhead'
  BY <1>3 DEF StorageArea, SetItem, Newest
<1>4. CASE MaybePersist
  <2>1. transit' # <<>> /\ transit'[Len(transit')] = BuildPersistJSON
    BY <1>4, DumpFacts, AppendFacts DEF MaybePersist, TypeOK
  <2> QED
    BY <1>4, <2>1 DEF MaybePersist, Newest
<1>5. CASE MaybePersistNoMemory
  BY <1>5 DEF MaybePersistNoMemory
<1>6. CASE Persist
  <2>1. /\ Len(transit) \in Nat \ {0} /\ Len(Tail(transit)) = Len(transit) - 1
        /\ Tail(transit) = <<>> <=> Len(transit) = 1
        /\ Head(transit) = transit[1] /\ Head(transit) \in Blobs
        /\ \A i \in 1..Len(Tail(transit)) : Tail(transit)[i] = transit[i + 1]
    BY <1>6, TailFacts DEF Persist, TypeOK
  <2>2. Newest' = transit[Len(transit)]
    <3>1. CASE Len(transit) = 1
      BY <1>6, <2>1, <3>1, BlobFacts DEF Persist, Newest
    <3>2. CASE Len(transit) # 1
      <4>1. Tail(transit)[Len(Tail(transit))] = transit[Len(transit)]
        BY <2>1, <3>2
      <4> QED
        BY <1>6, <2>1, <3>2, <4>1 DEF Persist, Newest
    <3> QED
      BY <3>1, <3>2
  <2> QED
    BY <1>6, <2>2 DEF Persist, Newest
<1>7. CASE TimerFires
  BY <1>7 DEF TimerFires, Newest
<1>8. CASE WriteSucceeds
  BY <1>8 DEF WriteSucceeds, Newest
<1>9. CASE WriteFails
  BY <1>9 DEF WriteFails, Requeued, Newest
<1>10. CASE Restart
  BY <1>10 DEF Restart
<1>11. CASE UNCHANGED vars
  BY <1>11 DEF Newest
<1> QED
  BY <1>1, <1>2, <1>3, <1>4, <1>5, <1>6, <1>7, <1>8, <1>9, <1>10, <1>11 DEF Next

LEMMA StepSeedKept == TypeOK /\ Idle /\ SeedKept /\ [Next]_vars => SeedKept'
<1> SUFFICES ASSUME TypeOK, Idle, SeedKept, [Next]_vars, running', ~seedLost'
             PROVE  /\ \A o \in Origins \ opened' : FileHolds(o)' = pendingImport'[o]
                    /\ \A i \in 1..Len(transit') : FromSeed(transit[i])'
                    /\ persistPending' # NoBlob => FromSeed(persistPending)'
                    /\ writing' # NoBlob => FromSeed(writing)'
  BY DEF SeedKept
<1> USE DEF vars, engineVars, pageVars, bounds, FromSeed, FileHolds
<1>1. CASE Boot
  BY <1>1, NothingFacts DEF Boot, Seed, Idle
<1>2. CASE BootWithoutSeed
  BY <1>2 DEF BootWithoutSeed
<1>3. CASE SetCookie
  BY <1>3 DEF SetCookie, SeedKept
<1>4. ASSUME NEW o \in Origins, StorageArea(o), running PROVE SeedKept'
  <2>1. \A p \in Origins \ opened' : p \in Origins \ opened /\ pendingImport'[p] = pendingImport[p]
    BY <1>4 DEF StorageArea, TypeOK
  <2> QED
    BY <1>4, <2>1 DEF StorageArea, SeedKept
<1>5. ASSUME NEW o \in Origins, SetItem(o) PROVE SeedKept'
  BY <1>5 DEF SetItem, SeedKept
<1>6. CASE MaybePersist
  <2>1. /\ Len(transit) \in Nat /\ Len(transit') = Len(transit) + 1
        /\ transit'[Len(transit) + 1] = BuildPersistJSON
        /\ \A i \in 1..Len(transit) : transit'[i] = transit[i]
    BY <1>6, DumpFacts, AppendFacts, LenProperties DEF MaybePersist, TypeOK
  <2>2. \A i \in 1..Len(transit') : FromSeed(transit'[i])
    BY <1>6, <2>1, DumpFacts DEF MaybePersist, SeedKept
  <2> QED
    BY <1>6, <2>2 DEF MaybePersist, SeedKept
<1>7. CASE MaybePersistNoMemory
  BY <1>7 DEF MaybePersistNoMemory, SeedKept
<1>8. CASE Persist
  <2>1. /\ Len(transit) \in Nat \ {0} /\ Len(transit') = Len(transit) - 1
        /\ Head(transit) = transit[1]
        /\ \A i \in 1..Len(transit') : transit'[i] = transit[i + 1]
    BY <1>8, TailFacts DEF Persist, TypeOK
  <2>2. running /\ ~seedLost
    BY <1>8 DEF Persist
  <2>3. \A i \in 1..Len(transit') : FromSeed(transit'[i])
    BY <2>1, <2>2 DEF SeedKept
  <2>4. FromSeed(persistPending')
    <3>1. 1 \in 1..Len(transit)
      BY <2>1
    <3>2. persistPending' = transit[1]
      BY <1>8, <2>1, Zenon DEF Persist
    <3> HIDE DEF FromSeed
    <3> QED
      BY <2>2, <3>1, <3>2 DEF SeedKept
  <2> QED
    BY <1>8, <2>2, <2>3, <2>4 DEF Persist, SeedKept
<1>9. CASE TimerFires
  BY <1>9 DEF TimerFires, SeedKept
<1>10. CASE WriteSucceeds
  BY <1>10 DEF WriteSucceeds, SeedKept
<1>11. CASE WriteFails
  BY <1>11 DEF WriteFails, Requeued, SeedKept
<1>12. CASE Restart
  BY <1>12 DEF Restart
<1>13. CASE UNCHANGED vars
  BY <1>13 DEF SeedKept
<1>14. ASSUME NEW o \in Origins, StorageArea(o) PROVE running
  BY <1>14 DEF StorageArea
<1> QED
  BY <1>1, <1>2, <1>3, <1>4, <1>5, <1>6, <1>7, <1>8, <1>9, <1>10, <1>11, <1>12, <1>13,
     <1>14 DEF Next, SeedKept

LEMMA Invariance == Spec => []IInv
<1>1. IInv /\ [Next]_vars => IInv'
  BY StepTypeOK, StepIdle, StepNothingStranded, StepDetectorNotAhead, StepSeedKept DEF IInv
<1> QED
  BY <1>1, InitIInv, PTL DEF Spec

\* The variables of the model keep their types.
THEOREM PersistTypeCorrect == Spec => []TypeOK
<1>1. IInv => TypeOK
  BY DEF IInv
<1> QED
  BY <1>1, Invariance, PTL

\* No failed write, retry or newer blob makes the page lose what the engine's
\* change detector believes it has handed over.
THEOREM PersistDetectorNotAhead == Spec => []DetectorNotAhead
<1>1. IInv => DetectorNotAhead
  BY DEF IInv
<1> QED
  BY <1>1, Invariance, PTL

\* A pending blob always has a timer or a running write loop to take it.
THEOREM PersistNothingStranded == Spec => []NothingStranded
<1>1. IInv => NothingStranded
  BY DEF IInv
<1> QED
  BY <1>1, Invariance, PTL

\* Not visiting a site never erases what earlier sessions stored for it.
THEOREM PersistUnopenedOriginKept == Spec => UnopenedOriginKept
<1> DEFINE Kept == \A o \in Origins : FileHolds(o)' # FileHolds(o) => o \in opened \/ seedLost
<1>1. IInv /\ [Next]_vars => [Kept]_vars
  <2> SUFFICES ASSUME IInv, Next, stored' # stored, ~seedLost,
                      NEW o \in Origins, o \notin opened
               PROVE  FileHolds(o)' = FileHolds(o)
    BY DEF FileHolds
  <2>1. WriteSucceeds
    BY DEF Next, vars, engineVars, pageVars, bounds, Boot, BootWithoutSeed, Seed, SetCookie,
           StorageArea, SetItem, MaybePersist, MaybePersistNoMemory, Persist, TimerFires,
           WriteFails, Restart
  <2>2. running /\ writing # NoBlob /\ stored' = writing
    BY <2>1 DEF WriteSucceeds, IInv, Idle
  <2> QED
    BY <2>2 DEF IInv, SeedKept, FromSeed, FileHolds
<1>2. Spec => [][Kept]_vars
  BY <1>1, Invariance, PTL DEF Spec
<1> QED
  BY <1>2 DEF UnopenedOriginKept

-----------------------------------------------------------------------------
(* The acceptance test over it *)

HasState(blob) == blob.cookies = Alive /\ blob.storage[Site] = Alive
Carries(blob) == blob # NoBlob => HasState(blob)

LiveState == running /\ cookies = Alive /\ AtSite = Alive

\* A blob that comes after one with the state has it too: the test may have seen
\* the file too early, but then it can only get better.
InOrder ==
  /\ BlobHasState => Carries(writing)
  /\ BlobHasState \/ (writing # NoBlob /\ HasState(writing)) => Carries(persistPending)
  /\ \/ BlobHasState
     \/ writing # NoBlob /\ HasState(writing)
     \/ persistPending # NoBlob /\ HasState(persistPending)
     => \A i \in 1..Len(transit) : HasState(transit[i])
  /\ \A i, j \in 1..Len(transit) : i < j /\ HasState(transit[i]) => HasState(transit[j])

AllHave ==
  /\ BlobHasState /\ Carries(writing) /\ Carries(persistPending)
  /\ \A i \in 1..Len(transit) : HasState(transit[i])

NoneHas ==
  /\ stored # NoBlob => ~HasState(stored)
  /\ writing # NoBlob => ~HasState(writing)
  /\ persistPending # NoBlob => ~HasState(persistPending)
  /\ \A i \in 1..Len(transit) : ~HasState(transit[i])

\* What a page that was reloaded and seeded has.
Survived == restarts > 0 /\ ~seedLost /\ LiveState /\ AllHave

Phases == {"A boot", "A set", "B goto", "B boot", "B seeded", "B check", "done"}

TestIInv ==
  /\ TypeOK /\ Idle
  /\ tested \in BOOLEAN /\ phase \in Phases /\ timeouts \in Nat
  /\ ~tested => phase = "done" /\ verdict = "none"
  /\ phase # "done" => verdict = "none"
  /\ phase = "A boot" => cookies = Empty /\ NoneHas /\ (~running => stored = NoBlob)
  /\ phase = "A set" => LiveState /\ InOrder
  /\ phase = "B goto" => LiveState /\ AllHave
  /\ phase = "B boot" =>
       /\ restarts > 0 /\ console \in {{}, {"seed"}}
       /\ ~running => console = {} /\ BlobHasState
       /\ console # {} => Survived
  /\ phase = "B seeded" => Survived
  /\ phase = "B check" => Survived /\ "alive" \in console
  /\ verdict = "PASS" => Survived
  /\ verdict = "FAIL" => timeouts > 0

LEMMA DumpHasState ==
  ASSUME TypeOK
  PROVE  /\ BuildPersistJSON \in Blobs
         /\ HasState(BuildPersistJSON) <=> cookies = Alive /\ AtSite = Alive
<1>1. /\ BuildPersistJSON.cookies = cookies
      /\ BuildPersistJSON.storage[Site] = AtSite
  BY TestAssumption DEF BuildPersistJSON, AtSite
<1> QED
  BY <1>1, DumpFacts DEF HasState

\* What each step of the pipeline does to it.
Moves ==
  \/ MaybePersist \/ MaybePersistNoMemory \/ Persist \/ TimerFires \/ WriteSucceeds \/ WriteFails

LEMMA MovesKeep ==
  ASSUME Moves
  PROVE  UNCHANGED <<running, cookies, opened, area, pendingImport, seedLost, restarts>>
BY DEF Moves, MaybePersist, MaybePersistNoMemory, Persist, TimerFires, WriteSucceeds, WriteFails,
       engineVars, pageVars, bounds

\* A queue that a dump joins, and one whose first blob the page takes.
LEMMA Joined ==
  ASSUME TypeOK, MaybePersist
  PROVE  /\ Len(transit) \in Nat /\ Len(transit') = Len(transit) + 1
         /\ \A i \in 1..Len(transit) : transit'[i] = transit[i]
         /\ transit'[Len(transit) + 1] = BuildPersistJSON
         /\ UNCHANGED <<stored, writing, persistPending>>
BY DumpFacts, OneMore DEF MaybePersist, TypeOK, pageVars

LEMMA Taken ==
  ASSUME TypeOK, Persist
  PROVE  /\ Len(transit) \in Nat \ {0} /\ Len(transit') = Len(transit) - 1
         /\ \A i \in 1..Len(transit') : transit'[i] = transit[i + 1]
         /\ persistPending' = transit[1] /\ transit[1] \in Blobs
         /\ UNCHANGED <<stored, writing>>
BY OneLess DEF Persist, TypeOK

LEMMA StayInOrder ==
  ASSUME TypeOK, LiveState, InOrder, Moves
  PROVE  InOrder'
<1>1. CASE MaybePersist
  <2>1. HasState(BuildPersistJSON)
    BY DumpHasState DEF LiveState
  <2>2. \A i \in 1..Len(transit') :
          (i \in 1..Len(transit) /\ transit'[i] = transit[i]) \/ HasState(transit'[i])
    BY <1>1, <2>1, Joined
  <2>3. \A i, j \in 1..Len(transit') :
          i < j /\ HasState(transit'[i]) => HasState(transit'[j])
    <3>1. ASSUME NEW i \in 1..Len(transit'), NEW j \in 1..Len(transit'),
                 i < j, HasState(transit'[i])
          PROVE  HasState(transit'[j])
      <4>1. CASE j \in 1..Len(transit)
        <5>1. i \in 1..Len(transit)
          BY <1>1, <3>1, <4>1, Joined
        <5>2. transit'[i] = transit[i] /\ transit'[j] = transit[j]
          BY <1>1, <4>1, <5>1, Joined
        <5> QED
          BY <3>1, <4>1, <5>1, <5>2 DEF InOrder
      <4> QED
        BY <2>2, <3>1, <4>1
    <3> QED
      BY <3>1
  <2>4. BlobHasState' <=> BlobHasState
    BY <1>1, Joined DEF BlobHasState
  <2>5. (\A i \in 1..Len(transit) : HasState(transit[i])) =>
          \A i \in 1..Len(transit') : HasState(transit'[i])
    BY <2>2
  <2> QED
    BY <1>1, Joined, <2>3, <2>4, <2>5 DEF InOrder, Carries, HasState
<1>2. CASE MaybePersistNoMemory
  BY <1>2 DEF MaybePersistNoMemory, InOrder, Carries, HasState, BlobHasState, pageVars
<1>3. CASE Persist
  <2>1. BlobHasState' <=> BlobHasState
    BY <1>3, Taken DEF BlobHasState
  <2>2. 1 \in 1..Len(transit) /\ transit[1] # NoBlob
    BY <1>3, Taken, ValueAssumption
  <2>3. \A i \in 1..Len(transit') :
          i + 1 \in 1..Len(transit) /\ 1 < i + 1 /\ transit'[i] = transit[i + 1]
    BY <1>3, Taken
  <2>4. \A i, j \in 1..Len(transit') :
          i < j /\ HasState(transit'[i]) => HasState(transit'[j])
    <3>1. ASSUME NEW i \in 1..Len(transit'), NEW j \in 1..Len(transit'),
                 i < j, HasState(transit'[i])
          PROVE  HasState(transit'[j])
      <4>1. i + 1 < j + 1
        BY <3>1, <1>3, Taken
      <4> QED
        BY <2>3, <3>1, <4>1 DEF InOrder
    <3> QED
      BY <3>1
  <2>5. HasState(transit[1]) => \A i \in 1..Len(transit') : HasState(transit'[i])
    BY <2>2, <2>3 DEF InOrder
  <2>6. BlobHasState \/ (writing # NoBlob /\ HasState(writing)) => HasState(transit[1])
    BY <2>2 DEF InOrder
  <2>7. persistPending' = transit[1] /\ writing' = writing
    BY <1>3, Taken
  <2>8. /\ BlobHasState' => Carries(writing)'
        /\ BlobHasState' \/ (writing' # NoBlob /\ HasState(writing')) => HasState(transit[1])
    BY <2>1, <2>6, <2>7 DEF InOrder, Carries, HasState
  <2> QED
    BY <2>4, <2>5, <2>7, <2>8 DEF InOrder, Carries, HasState
<1>4. CASE TimerFires
  BY <1>4 DEF TimerFires, InOrder, Carries, HasState, BlobHasState, engineVars, bounds
<1>5. CASE WriteSucceeds
  BY <1>5 DEF WriteSucceeds, InOrder, Carries, HasState, BlobHasState, engineVars, bounds
<1>6. CASE WriteFails
  BY <1>6 DEF WriteFails, Requeued, InOrder, Carries, HasState, BlobHasState, engineVars
<1> QED
  BY <1>1, <1>2, <1>3, <1>4, <1>5, <1>6 DEF Moves

LEMMA StayAllHave ==
  ASSUME TypeOK, LiveState, AllHave, Moves
  PROVE  AllHave'
<1>1. CASE MaybePersist
  <2>1. HasState(BuildPersistJSON)
    BY DumpHasState DEF LiveState
  <2>2. \A i \in 1..Len(transit') : HasState(transit'[i])
    BY <1>1, <2>1, Joined DEF AllHave
  <2> QED
    BY <1>1, <2>2, Joined DEF AllHave, Carries, HasState, BlobHasState
<1>2. CASE MaybePersistNoMemory
  BY <1>2 DEF MaybePersistNoMemory, AllHave, Carries, HasState, BlobHasState, pageVars
<1>3. CASE Persist
  <2>1. 1 \in 1..Len(transit) /\ \A i \in 1..Len(transit') : i + 1 \in 1..Len(transit)
    BY <1>3, Taken
  <2>2. HasState(persistPending') /\ \A i \in 1..Len(transit') : HasState(transit'[i])
    BY <1>3, <2>1, Taken DEF AllHave
  <2> QED
    BY <1>3, <2>2, Taken DEF AllHave, Carries, HasState, BlobHasState
<1>4. CASE TimerFires
  BY <1>4 DEF TimerFires, AllHave, Carries, HasState, BlobHasState, engineVars, bounds
<1>5. CASE WriteSucceeds
  BY <1>5 DEF WriteSucceeds, AllHave, Carries, HasState, BlobHasState, engineVars, bounds
<1>6. CASE WriteFails
  BY <1>6 DEF WriteFails, Requeued, AllHave, Carries, HasState, BlobHasState, engineVars
<1> QED
  BY <1>1, <1>2, <1>3, <1>4, <1>5, <1>6 DEF Moves

LEMMA StayNoneHas ==
  ASSUME TypeOK, cookies = Empty, NoneHas, Moves
  PROVE  NoneHas'
<1>1. CASE MaybePersist
  <2>1. ~HasState(BuildPersistJSON)
    BY DumpHasState, TestAssumption
  <2>2. \A i \in 1..Len(transit') : ~HasState(transit'[i])
    BY <1>1, <2>1, Joined DEF NoneHas
  <2> QED
    BY <1>1, <2>2, Joined DEF NoneHas, HasState
<1>2. CASE MaybePersistNoMemory
  BY <1>2 DEF MaybePersistNoMemory, NoneHas, HasState, pageVars
<1>3. CASE Persist
  <2>1. 1 \in 1..Len(transit) /\ \A i \in 1..Len(transit') : i + 1 \in 1..Len(transit)
    BY <1>3, Taken
  <2>2. ~HasState(persistPending') /\ \A i \in 1..Len(transit') : ~HasState(transit'[i])
    BY <1>3, <2>1, Taken DEF NoneHas
  <2> QED
    BY <1>3, <2>2, Taken DEF NoneHas, HasState
<1>4. CASE TimerFires
  BY <1>4 DEF TimerFires, NoneHas, HasState, engineVars, bounds
<1>5. CASE WriteSucceeds
  BY <1>5 DEF WriteSucceeds, NoneHas, HasState, engineVars, bounds
<1>6. CASE WriteFails
  BY <1>6 DEF WriteFails, Requeued, NoneHas, HasState, engineVars
<1> QED
  BY <1>1, <1>2, <1>3, <1>4, <1>5, <1>6 DEF Moves


LEMMA LiveKeeps ==
  ASSUME LiveState, UNCHANGED <<running, cookies, opened, area, pendingImport>>
  PROVE  LiveState'
BY DEF LiveState, AtSite

LEMMA MovesSurvive ==
  ASSUME TypeOK, Moves
  PROVE  /\ LiveState => LiveState'
         /\ LiveState /\ AllHave => AllHave'
         /\ Survived => Survived'
BY MovesKeep, LiveKeeps, StayAllHave DEF Survived

\* Seeding a page gives it what the file has.
LEMMA SeededHas ==
  ASSUME TypeOK, Idle, Boot, BlobHasState
  PROVE  LiveState' /\ AllHave' /\ ~seedLost' /\ restarts' = restarts
<1>1. /\ running' = TRUE /\ cookies' = Alive /\ pendingImport'[Site] = Alive
      /\ UNCHANGED <<opened, area, transit, stored, writing, persistPending, restarts>>
      /\ ~seedLost'
  BY DEF Boot, Seed, BlobHasState, pageVars
<1>2. opened = {} /\ transit = <<>> /\ writing = NoBlob /\ persistPending = NoBlob
  BY DEF Idle, Boot
<1>3. LiveState'
  BY <1>1, <1>2 DEF LiveState, AtSite
<1>4. AllHave'
  BY <1>1, <1>2 DEF AllHave, BlobHasState, Carries
<1> QED
  BY <1>1, <1>3, <1>4

LEMMA InitTestIInv == TestInit => TestIInv
<1> SUFFICES ASSUME TestInit PROVE TestIInv
  OBVIOUS
<1>1. TypeOK /\ Idle
  BY InitIInv DEF TestInit, IInv
<1>2. cookies = Empty /\ stored = NoBlob /\ NoneHas
  <2>1. /\ cookies = Empty /\ stored = NoBlob /\ writing = NoBlob /\ persistPending = NoBlob
        /\ transit = <<>>
    BY DEF TestInit, Init
  <2>2. \A i \in 1..Len(transit) : FALSE
    BY <2>1, EmptySeq
  <2> QED
    BY <2>1, <2>2 DEF NoneHas
<1>3. phase \in {"A boot", "done"} /\ verdict = "none" /\ timeouts \in Nat
      /\ (~tested => phase = "done") /\ tested \in BOOLEAN
  BY DEF TestInit
<1> QED
  BY <1>1, <1>2, <1>3 DEF TestIInv, Phases

\* The types, and the empty pipeline between two pages, are kept by the test too.
LEMMA TestTypes ==
  ASSUME TypeOK, Idle, phase = "B seeded" => running, [TestNext]_<<vars, testVars>>
  PROVE  TypeOK' /\ Idle'
<1> USE DEF vars, engineVars, pageVars, bounds, testVars
<1>1. CASE [Next]_vars
  BY <1>1, StepTypeOK, StepIdle
<1>2. ASSUME NEW value \in Values, running, Opened(value), cookies' \in Values,
             UNCHANGED <<running, lastJSON, transit, pageVars, stored, seedLost, dumpLost, bounds>>
      PROVE  TypeOK' /\ Idle'
  <2>1. /\ opened' \in SUBSET Origins
        /\ area' \in [Origins -> Values] /\ pendingImport' \in [Origins -> Values]
    BY <1>2, TestAssumption, ValueAssumption DEF Opened, TypeOK
  <2>2. TypeOK'
    BY <1>2, <2>1, Zenon DEF TypeOK
  <2> QED
    BY <1>2, <2>2 DEF Idle
<1>3. CASE SetState
  BY <1>2, <1>3, TestAssumption DEF SetState
<1>4. CASE CheckState
  <2>1. AtSite \in Values /\ cookies' \in Values
    BY <1>4, TestAssumption DEF AtSite, TypeOK, CheckState
  <2>2. running
    BY <1>4 DEF CheckState, Proceed
  <2> QED
    BY <1>2, <1>4, <2>1, <2>2 DEF CheckState
<1>5. CASE SystemStep
  <2>1. Next
    BY <1>5 DEF SystemStep, Next
  <2> QED
    BY <1>1, <2>1
<1>6. CASE BlobSeen \/ SeedSeen \/ CheckSeen \/ TimesOut \/ UNCHANGED <<vars, testVars>>
  <2>1. UNCHANGED vars
    BY <1>6 DEF BlobSeen, SeedSeen, CheckSeen, TimesOut
  <2> QED
    BY <1>1, <2>1
<1>7. CASE Reload
  <2>1. Next
    BY <1>7 DEF Reload, Next
  <2> QED
    BY <1>1, <2>1
<1> QED
  BY <1>1, <1>3, <1>4, <1>5, <1>6, <1>7 DEF TestNext


LEMMA StepTestIInv == TestIInv /\ [TestNext]_<<vars, testVars>> => TestIInv'
<1> SUFFICES ASSUME TestIInv, [TestNext]_<<vars, testVars>> PROVE TestIInv'
  OBVIOUS
<1> USE DEF Phases
<1>0. TypeOK' /\ Idle' /\ TypeOK /\ Idle
  <2>1. phase = "B seeded" => running
    BY DEF TestIInv, Survived, LiveState
  <2> QED
    BY <2>1, TestTypes DEF TestIInv
<1>1. CASE ~tested /\ Next /\ UNCHANGED testVars
  BY <1>0, <1>1 DEF TestIInv, testVars
<1>2. CASE tested /\ SystemStep
  <2>1. UNCHANGED <<tested, phase, verdict, timeouts>>
    BY <1>2 DEF SystemStep
  <2>2. CASE Moves /\ UNCHANGED console
    <3>1. /\ LiveState => LiveState'
          /\ LiveState /\ AllHave => AllHave'
          /\ Survived => Survived'
          /\ UNCHANGED <<running, cookies, opened, area, pendingImport, seedLost, restarts>>
      BY <1>0, <2>2, MovesSurvive, MovesKeep
    <3>2. phase = "A boot" => cookies' = Empty /\ NoneHas' /\ (~running' => stored' = NoBlob)
      <4>1. phase = "A boot" => cookies' = Empty /\ NoneHas'
        BY <1>0, <2>2, <3>1, StayNoneHas DEF TestIInv
      <4>2. phase = "A boot" /\ ~running => stored' = NoBlob
        <5>1. ~running => ~MaybePersist /\ ~MaybePersistNoMemory /\ ~WriteSucceeds
          BY <1>0 DEF Idle, MaybePersist, MaybePersistNoMemory, WriteSucceeds
        <5>2. ~running => stored' = stored
          BY <2>2, <5>1 DEF Moves, Persist, TimerFires, WriteFails
        <5> QED
          BY <5>2 DEF TestIInv
      <4> QED
        BY <3>1, <4>1, <4>2
    <3>3. phase = "A set" => LiveState' /\ InOrder'
      BY <1>0, <2>2, <3>1, StayInOrder DEF TestIInv
    <3>4. ~running => stored' = stored
      <4>1. ~running => ~MaybePersist /\ ~MaybePersistNoMemory /\ ~WriteSucceeds
        BY <1>0 DEF Idle, MaybePersist, MaybePersistNoMemory, WriteSucceeds
      <4> QED
        BY <2>2, <4>1 DEF Moves, Persist, TimerFires, WriteFails
    <3>5. phase = "B boot" =>
            /\ restarts' > 0 /\ console' \in {{}, {"seed"}}
            /\ ~running' => console' = {} /\ BlobHasState'
            /\ console' # {} => Survived'
      BY <2>2, <3>1, <3>4 DEF TestIInv, BlobHasState
    <3>6. phase = "B goto" => LiveState' /\ AllHave'
      BY <3>1 DEF TestIInv
    <3>7. /\ phase = "B seeded" => Survived'
          /\ phase = "B check" => Survived' /\ "alive" \in console'
          /\ verdict = "PASS" => Survived'
      BY <2>2, <3>1 DEF TestIInv
    <3> HIDE DEF LiveState, AllHave, Survived, InOrder, NoneHas
    <3> QED
      BY <1>0, <2>1, <3>2, <3>3, <3>5, <3>6, <3>7, Zenon DEF TestIInv
  <2>3. CASE Boot /\ console' = IF stored = NoBlob THEN console ELSE console \cup {"seed"}
    <3>1. ~running /\ phase \in {"A boot", "B boot", "done"} /\ verdict # "PASS"
      BY <2>3 DEF Boot, TestIInv, Survived, LiveState
    <3>2. phase = "A boot" => cookies' = Empty /\ NoneHas' /\ running'
      BY <2>3, <3>1 DEF TestIInv, Boot, Seed, NoneHas, HasState, pageVars
    <3>3. phase = "B boot" => Survived' /\ console' = {"seed"} /\ restarts' > 0
      <4>1. phase = "B boot" => BlobHasState /\ restarts > 0 /\ console = {}
        BY <3>1 DEF TestIInv
      <4>2. phase = "B boot" => LiveState' /\ AllHave' /\ ~seedLost' /\ restarts' = restarts
        BY <1>0, <2>3, <4>1, SeededHas
      <4>3. phase = "B boot" => stored # NoBlob
        BY <4>1 DEF BlobHasState
      <4> QED
        BY <2>3, <4>1, <4>2, <4>3 DEF Survived
    <3>4. phase = "B boot" => running'
      BY <3>3 DEF Survived, LiveState
    <3> QED
      BY <1>0, <2>1, <3>1, <3>2, <3>3, <3>4 DEF TestIInv
  <2>4. CASE BootWithoutSeed /\ UNCHANGED console
    <3>1. ~running /\ phase \in {"B boot", "done"} /\ verdict # "PASS"
      BY <2>4 DEF BootWithoutSeed, TestIInv, Survived, LiveState
    <3>2. running' /\ restarts' = restarts
      BY <2>4 DEF BootWithoutSeed, Seed
    <3>3. phase = "B boot" => console' = {} /\ restarts > 0
      BY <2>4, <3>1 DEF TestIInv
    <3> QED
      BY <1>0, <2>1, <3>1, <3>2, <3>3 DEF TestIInv
  <2> QED
    BY <1>2, <2>2, <2>3, <2>4 DEF SystemStep, Moves
<1>3. CASE SetState
  <2>1. /\ tested /\ phase = "A boot" /\ phase' = "A set" /\ running /\ verdict = "none"
        /\ cookies' = Alive /\ Opened(Alive)
        /\ UNCHANGED <<tested, timeouts, verdict, running, transit, pageVars, stored>>
    BY <1>3 DEF SetState, Proceed, TestIInv
  <2>2. LiveState'
    <3>1. Site \in opened' /\ area'[Site] = Alive
      BY <2>1, <1>0, TestAssumption DEF Opened, TypeOK
    <3> QED
      BY <2>1, <3>1 DEF LiveState, AtSite
  <2>3. NoneHas'
    BY <2>1 DEF TestIInv, NoneHas, HasState, pageVars
  <2>4. InOrder'
    BY <2>3 DEF NoneHas, InOrder, BlobHasState, HasState
  <2> QED
    BY <1>0, <2>1, <2>2, <2>4 DEF TestIInv
<1>4. CASE BlobSeen
  <2>1. /\ tested /\ phase = "A set" /\ phase' = "B goto" /\ BlobHasState /\ verdict = "none"
        /\ LiveState /\ InOrder
        /\ UNCHANGED <<tested, timeouts, verdict, vars>>
    BY <1>4 DEF BlobSeen, Proceed, TestIInv
  <2>2. AllHave
    BY <2>1 DEF AllHave, InOrder
  <2>3. LiveState' /\ AllHave'
    BY <2>1, <2>2 DEF LiveState, AtSite, AllHave, BlobHasState, Carries, HasState, vars,
                      engineVars, pageVars
  <2> QED
    BY <1>0, <2>1, <2>3 DEF TestIInv
<1>5. CASE Reload
  <2>1. /\ tested /\ phase = "B goto" /\ phase' = "B boot" /\ BlobHasState /\ verdict = "none"
        /\ ~running' /\ stored' = stored /\ restarts' = restarts + 1 /\ console' = {}
        /\ UNCHANGED <<tested, timeouts, verdict>>
    BY <1>5 DEF Reload, Proceed, Restart, TestIInv, AllHave
  <2>2. restarts' > 0
    <3>1. restarts \in Nat
      BY <1>0, BoundAssumption DEF TypeOK
    <3>2. restarts' = restarts + 1
      BY <2>1
    <3> QED
      BY <3>1, <3>2
  <2> QED
    BY <1>0, <2>1, <2>2 DEF TestIInv, BlobHasState
<1>6. CASE SeedSeen
  <2>1. /\ tested /\ phase = "B boot" /\ phase' = "B seeded" /\ "seed" \in console
        /\ verdict = "none" /\ UNCHANGED <<tested, timeouts, verdict, vars, console>>
    BY <1>6 DEF SeedSeen, Proceed, TestIInv
  <2>2. Survived
    BY <2>1 DEF TestIInv
  <2>3. Survived'
    BY <2>1, <2>2 DEF Survived, LiveState, AtSite, AllHave, BlobHasState, Carries, HasState, vars,
                      engineVars, pageVars, bounds
  <2> QED
    BY <1>0, <2>1, <2>3 DEF TestIInv
<1>7. CASE CheckState
  <2>1. /\ tested /\ phase = "B seeded" /\ phase' = "B check" /\ verdict = "none"
        /\ Opened(AtSite) /\ Survived
        /\ console' = console \cup {IF cookies = Alive /\ AtSite = Alive THEN "alive" ELSE "not alive"}
        /\ UNCHANGED <<tested, timeouts, verdict, running, cookies, transit, pageVars, stored,
                       seedLost, bounds>>
    BY <1>7 DEF CheckState, Proceed, TestIInv
  <2>2. cookies = Alive /\ AtSite = Alive
    BY <2>1 DEF Survived, LiveState
  <2>3. LiveState'
    <3>1. Site \in opened' /\ area'[Site] = Alive
      BY <2>1, <2>2, <1>0, TestAssumption DEF Opened, TypeOK
    <3> QED
      BY <2>1, <2>2, <3>1 DEF Survived, LiveState, AtSite
  <2>4. AllHave'
    BY <2>1 DEF Survived, AllHave, BlobHasState, Carries, HasState, pageVars
  <2>5. Survived' /\ "alive" \in console'
    BY <2>1, <2>2, <2>3, <2>4 DEF Survived, bounds
  <2> QED
    BY <1>0, <2>1, <2>5 DEF TestIInv
<1>8. CASE CheckSeen
  <2>1. /\ tested /\ phase = "B check" /\ phase' = "done" /\ "alive" \in console /\ Survived
        /\ verdict' = "PASS" /\ UNCHANGED <<tested, timeouts, vars, console>>
    BY <1>8 DEF CheckSeen, Proceed, TestIInv
  <2>2. Survived'
    BY <2>1 DEF Survived, LiveState, AtSite, AllHave, BlobHasState, Carries, HasState, vars,
                engineVars, pageVars, bounds
  <2> QED
    BY <1>0, <2>1, <2>2 DEF TestIInv
<1>9. CASE TimesOut
  <2>1. /\ tested /\ phase' = "done" /\ verdict' = "FAIL" /\ timeouts' = timeouts + 1
        /\ tested' = tested
    BY <1>9 DEF TimesOut
  <2>2. timeouts' \in Nat /\ timeouts' > 0
    <3>1. timeouts \in Nat
      BY DEF TestIInv
    <3> QED
      BY <2>1, <3>1
  <2> QED
    BY <1>0, <2>1, <2>2 DEF TestIInv
<1>10. CASE UNCHANGED <<vars, testVars>>
  <2>1. /\ UNCHANGED <<tested, phase, verdict, timeouts, console, running, cookies, stored, restarts>>
    BY <1>10 DEF vars, testVars, engineVars, bounds
  <2>2. /\ LiveState' <=> LiveState
        /\ AllHave' <=> AllHave
        /\ Survived' <=> Survived
    BY <1>10 DEF Survived, LiveState, AtSite, AllHave, BlobHasState, Carries, HasState, vars,
                 engineVars, pageVars, bounds
  <2>3. (InOrder' <=> InOrder) /\ (NoneHas' <=> NoneHas) /\ (BlobHasState' <=> BlobHasState)
    BY <1>10 DEF InOrder, NoneHas, BlobHasState, Carries, HasState, vars, engineVars, pageVars
  <2> HIDE DEF LiveState, AllHave, Survived, InOrder, NoneHas, BlobHasState
  <2> QED
    BY <1>0, <2>1, <2>2, <2>3 DEF TestIInv
<1> QED
  BY <1>1, <1>2, <1>3, <1>4, <1>5, <1>6, <1>7, <1>8, <1>9, <1>10 DEF TestNext

\* The acceptance test passes only on a page that was reloaded and has both the
\* cookie and the item from the file, and fails only when a deadline passed: no
\* order of its polls, the dump, the debounce, the writes and their failures and
\* retries gives a verdict for another reason.
THEOREM PersistTestIsHonest == TestSpec => []PersistTestTellsTheTruth
<1>1. TestIInv => PersistTestTellsTheTruth
  BY DEF TestIInv, Survived, AllHave, PersistTestTellsTheTruth
<1>2. TestInit => TestIInv
  BY InitTestIInv
<1>3. TestIInv /\ [TestNext]_<<vars, testVars>> => TestIInv'
  BY StepTestIInv
<1> QED
  BY <1>1, <1>2, <1>3, PTL DEF TestSpec
=============================================================================
