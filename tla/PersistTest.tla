----------------------------- MODULE PersistTest -----------------------------
(***************************************************************************)
(* The profile under its acceptance test, tools/persist-test.mjs: phase A  *)
(* writes a cookie and a localStorage item from guest script, asks for a   *)
(* dump and polls the profile's file until they are in it; phase B reloads *)
(* the host page, waits for the seed and reads both back.                  *)
(*                                                                         *)
(* The test sees the console and the file only, and polls them, while the  *)
(* dump, the transfer, the debounce and the write take their own time.     *)
(* Behaviours without the test are those of BibPersist.                    *)
(***************************************************************************)
EXTENDS BibPersist

CONSTANTS
  Site,        \* the origin of the guest page
  Alive,       \* the value the test writes
  MaxTimeouts  \* bound: deadlines of the test that pass

ASSUME TestAssumption ==
  Site \in Origins /\ Alive \in Values \ {Empty} /\ MaxTimeouts \in Nat

VARIABLES
  tested,      \* the test drives the page; no other guest writes
  phase,       \* A boot, A set, B goto, B boot, B seeded, B check, done
  console,     \* what the test waits for on the console: the seed line, the check line
  verdict,     \* none, PASS or FAIL
  timeouts

testVars == <<tested, phase, console, verdict, timeouts>>

TestInit ==
  /\ Init
  /\ tested \in BOOLEAN
  /\ phase = IF tested THEN "A boot" ELSE "done"
  /\ console = {} /\ verdict = "none" /\ timeouts = 0

Proceed(from, to) ==
  /\ tested /\ phase = from /\ phase' = to
  /\ UNCHANGED <<tested, timeouts>>

\* The first touch of localStorage opens the origin.
Opened(value) ==
  /\ opened' = opened \cup {Site}
  /\ area' = [area EXCEPT ![Site] = value]
  /\ pendingImport' = [pendingImport EXCEPT ![Site] = Empty]
AtSite == IF Site \in opened THEN area[Site] ELSE pendingImport[Site]

\* waitReady and waitGuestAt, then the guest script that sets both.
SetState ==
  /\ Proceed("A boot", "A set")
  /\ running
  /\ cookies' = Alive /\ Opened(Alive)
  /\ UNCHANGED <<running, lastJSON, transit, pageVars, stored, seedLost, dumpLost, bounds,
                 console, verdict>>

\* A wrong form of the next: the file is there.
AnyBlob == stored # NoBlob
\* The file has both.
BlobHasState == stored # NoBlob /\ stored.cookies = Alive /\ stored.storage[Site] = Alive

\* The poll of the file after _bib_persist_now.  (What that call does is
\* MaybePersist, on the engine thread.)
BlobSeen ==
  /\ Proceed("A set", "B goto")
  /\ BlobHasState
  /\ UNCHANGED <<vars, console, verdict>>

\* The reload; the console is forgotten.
Reload ==
  /\ Proceed("B goto", "B boot")
  /\ Restart
  /\ console' = {}
  /\ UNCHANGED verdict

\* waitReady and the seed line of phase B.
SeedSeen ==
  /\ Proceed("B boot", "B seeded")
  /\ running /\ "seed" \in console
  /\ UNCHANGED <<vars, console, verdict>>

\* The guest script that reads both, and what it logs.
CheckState ==
  /\ Proceed("B seeded", "B check")
  /\ Opened(AtSite)
  /\ console' = console \cup {IF cookies = Alive /\ AtSite = Alive THEN "alive" ELSE "not alive"}
  /\ UNCHANGED <<running, cookies, lastJSON, transit, pageVars, stored, seedLost, dumpLost,
                 bounds, verdict>>

CheckSeen ==
  /\ Proceed("B check", "done")
  /\ verdict' = IF "alive" \in console THEN "PASS" ELSE "FAIL"
  /\ UNCHANGED <<vars, console>>

\* A deadline passes, of any of the waits.
TimesOut ==
  /\ tested /\ phase \notin {"B goto", "done"}
  /\ timeouts < MaxTimeouts /\ timeouts' = timeouts + 1
  /\ phase' = "done" /\ verdict' = "FAIL"
  /\ UNCHANGED <<vars, tested, console>>

\* The steps of the system in a tested page; booting with a profile logs the seed line.
SystemStep ==
  /\ \/ Boot /\ console' = IF stored = NoBlob THEN console ELSE console \cup {"seed"}
     \/ /\ \/ BootWithoutSeed \/ MaybePersist \/ MaybePersistNoMemory
           \/ Persist \/ TimerFires \/ WriteSucceeds \/ WriteFails
        /\ UNCHANGED console
  /\ UNCHANGED <<tested, phase, verdict, timeouts>>

TestNext ==
  \/ ~tested /\ Next /\ UNCHANGED testVars
  \/ tested /\ SystemStep
  \/ SetState \/ BlobSeen \/ Reload \/ SeedSeen \/ CheckState \/ CheckSeen \/ TimesOut

TestSpec == TestInit /\ [][TestNext]_<<vars, testVars>> /\ Fairness

-----------------------------------------------------------------------------
(* Properties *)

\* The test does not pass on what the old page's memory held and does not fail on a
\* dump that was still on its way: PASS means that a reloaded page had both from the
\* file, FAIL that a deadline passed, and no interleaving of the polls with the dump,
\* the debounce and the write gives either for another reason.
PersistTestTellsTheTruth ==
  /\ verdict = "PASS" => restarts > 0 /\ ~seedLost /\ BlobHasState
  /\ verdict = "FAIL" => timeouts > 0
=============================================================================
