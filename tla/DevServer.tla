------------------------------ MODULE DevServer ------------------------------
(***************************************************************************)
(* tools/dev-server.mjs, the server every acceptance test runs against, a  *)
(* browser that caches what it serves, the build that rewrites an artifact *)
(* in place while it is being served, and gate 6, the cookie test that     *)
(* uses the server's three cookie endpoints.                               *)
(*                                                                         *)
(* An artifact is a sequence of chunks, a chunk the number of the build    *)
(* that wrote it.  A path is a sequence of names.                          *)
(***************************************************************************)
EXTENDS Integers, Sequences, FiniteSets, SequencesExt

CONSTANTS
  MaxChunks,   \* bound: chunks of an artifact
  MaxBuilds,   \* bound: builds that rewrite the artifact
  MaxClock,    \* bound: milliseconds that pass
  MaxLoads,    \* bound: requests of the browser
  MaxFaults    \* bound: failed fetches and timeouts of the gate

ASSUME BoundAssumption ==
  /\ MaxChunks \in Nat \ {0} /\ MaxBuilds \in Nat /\ MaxClock \in Nat
  /\ MaxLoads \in Nat /\ MaxFaults \in Nat

VARIABLES
  \* the artifact and the build that writes it
  file,        \* its chunks
  mtime,
  now,         \* the clock, in milliseconds
  unwritten,   \* chunks the running build has still to write
  build,       \* the last build that started
  \* the browser
  cache,       \* its copy of the artifact, and (of, time) what stat saw then
  request,     \* the request in progress
  answer,      \* how the last request ended
  loads,
  \* gate 6: the guest page with its cookie jar, and the test driver
  jar, leg, signals, shown, driver, verdict,
  \* bookkeeping of the model
  quiet,       \* no write since the request was sent
  carried,     \* the cookies on the redirected hop of the gate's page
  faults

buildVars == <<file, mtime, unwritten, build>>
browserVars == <<cache, request, answer, loads>>
gateVars == <<jar, leg, signals, shown, driver, verdict, carried, faults>>
serverVars == <<buildVars, now, browserVars, gateVars, quiet>>

-----------------------------------------------------------------------------
(* Paths: mounts, directories, links *)

ROOT == <<"web">>

\* --mount /prefix=dir, the longest prefix first.
mounts == << [prefix |-> <<"engine", "sub">>, root |-> <<"maps">>],
             [prefix |-> <<"engine">>,        root |-> <<"bin">>] >>
ShortestFirst == Reverse(mounts)

Artifact == <<"bin", "wasm">>

\* A tree with a file and a directory in each root, and links that leave it.
Files == {Artifact, <<"bin", "sub">>, <<"maps", "a">>, <<"web", "a">>, <<"out", "a">>,
          <<"web", "dir", "index.html">>}
Directories == {<<"web">>, <<"bin">>, <<"maps">>, <<"out">>, <<"web", "dir">>, <<"web", "gone">>}
Links == { [at |-> <<"web", "link">>,               to |-> <<"out", "a">>],
           [at |-> <<"web", "gone", "index.html">>, to |-> <<"out", "a">>] }
Missing == <<"missing">>

\* The artifact, and paths that go wrong in each way there is.
Paths == { <<"engine", "wasm">>, <<"engine", "sub">>, <<"engine", "sub", "a">>,
           <<"engine", "..", "web", "a">>, <<"engine", "sub", "..", "a">>,
           <<"a">>, <<"dir">>, <<"dir", "..", "a">>, <<"link">>, <<"gone">>, <<>>,
           <<"..", "out", "a">>, <<"..", "bin", "wasm">> }

\* realpath
Realpath(p) ==
  LET targets == {l.to : l \in {x \in Links : x.at = p}}
  IN IF targets # {} THEN CHOOSE t \in targets : TRUE
     ELSE IF p \in Files \cup Directories THEN p ELSE Missing

\* resolve(join(root, rel)): ".." goes up, and stops at the top.
Resolve(root, rel) ==
  FoldLeft(LAMBDA p, name : IF name = ".." THEN (IF p = <<>> THEN p ELSE Front(p))
                            ELSE Append(p, name), root, rel)

InRoot(p, root) == IsPrefix(root, p)

\* A wrong form of the next: the list is not sorted by length.
ShortestMountOf(path) ==
  LET fits == {i \in DOMAIN ShortestFirst : IsPrefix(ShortestFirst[i].prefix, path)}
  IN IF fits = {} THEN [prefix |-> <<>>, root |-> ROOT]
     ELSE ShortestFirst[CHOOSE i \in fits : \A j \in fits : i <= j]
\* The first mount whose prefix the path has, or the root itself.
MountOf(path) ==
  LET fits == {i \in DOMAIN mounts : IsPrefix(mounts[i].prefix, path)}
  IN IF fits = {} THEN [prefix |-> <<>>, root |-> ROOT]
     ELSE mounts[CHOOSE i \in fits : \A j \in fits : i <= j]

Refused(status) == [status |-> status, file |-> Missing]
\* What a path leads to: a file, or the status of the refusal.
Route(path) ==
  LET mount     == MountOf(path)
      root      == mount.root
      candidate == Resolve(root, SubSeq(path, Len(mount.prefix) + 1, Len(path)))
      real      == Realpath(candidate)
      served    == IF real \in Directories THEN Realpath(Append(real, "index.html"))
                   ELSE real
  IN IF ~InRoot(candidate, root) THEN Refused(403)
     ELSE IF served = Missing THEN Refused(404)
     ELSE IF ~InRoot(served, root) THEN Refused(403)
     ELSE [status |-> 200, file |-> served]
Routes == [path \in Paths |-> Route(path)]

-----------------------------------------------------------------------------
NoCopy == [etag |-> <<>>, body |-> <<>>, of |-> <<>>, time |-> 0]
NoRequest == [at |-> "none", ifNoneMatch |-> <<>>, etag |-> <<>>, body |-> <<>>,
              of |-> <<>>, time |-> 0]
NoAnswer == [path |-> <<>>, status |-> 0, file |-> Missing, body |-> <<>>]

Bodies == UNION {[1..n -> 1..(MaxBuilds + 1)] : n \in 0..MaxChunks}
ETags == {<<>>} \cup ((0..MaxChunks) \X (0..MaxClock))
Colours == {"gray", "green", "red"}
Cookies == {"bibdom", "bibtest", "bibredir"}
Signals == {"dom", "enabled", "net", "redir"}
Drivers == {"booting", "waiting", "checking", "done"}

ServerTypeOK ==
  /\ file \in Bodies /\ mtime \in 0..now /\ now \in 0..MaxClock
  /\ unwritten \in 0..MaxChunks /\ build \in 1..(MaxBuilds + 1)
  /\ cache.etag \in ETags /\ cache.body \in Bodies /\ cache.of \in Bodies
  /\ request.at \in {"none", "sent", "streaming"}
  /\ request.ifNoneMatch \in ETags /\ request.etag \in ETags
  /\ request.body \in Bodies /\ request.of \in Bodies
  /\ answer.status \in {0, 200, 304, 403, 404, 500} /\ answer.body \in Bodies
  /\ loads \in 0..MaxLoads
  /\ leg \in {"none", "set", "echo", "redirect-set", "redirected"}
  /\ jar \subseteq Cookies /\ carried \subseteq Cookies
  /\ signals \in [Signals -> Colours] /\ shown \in [Signals -> Colours]
  /\ driver \in Drivers /\ verdict \in {"none", "PASS", "FAIL"}
  /\ quiet \in BOOLEAN /\ faults \in 0..MaxFaults

Gray == [s \in Signals |-> "gray"]

ServerInit ==
  /\ file = <<1>> /\ mtime = 0 /\ now = 0 /\ unwritten = 0 /\ build = 1
  /\ cache = NoCopy /\ request = NoRequest /\ answer = NoAnswer /\ loads = 0
  /\ jar = {} /\ leg = "none"
  /\ signals = Gray /\ shown = Gray /\ driver = "booting" /\ verdict = "none"
  /\ quiet = TRUE /\ carried = {} /\ faults = 0

-----------------------------------------------------------------------------
(* The build: truncates the artifact and writes it again, in place *)

Wrote(f) ==
  /\ file' = f /\ mtime' = now /\ quiet' = FALSE
  /\ UNCHANGED <<now, browserVars, gateVars>>

BuildStarts ==
  /\ driver = "booting" /\ unwritten = 0 /\ build <= MaxBuilds
  /\ build' = build + 1
  /\ unwritten' \in 1..MaxChunks
  /\ Wrote(<<>>)

BuildWrites ==
  /\ unwritten > 0
  /\ unwritten' = unwritten - 1
  /\ Wrote(Append(file, build))
  /\ UNCHANGED build

ClockTicks ==
  /\ driver = "booting" /\ now < MaxClock
  /\ now' = now + 1
  /\ UNCHANGED <<buildVars, browserVars, gateVars, quiet>>

-----------------------------------------------------------------------------
(* A request of the browser: no-cache, so what is stored is revalidated *)

\* W/"size-mtime"
ETagOfSize == <<Len(file), 0>>
ETagRoundedUp == <<Len(file), mtime + 1>>
ETag == <<Len(file), mtime>>

Ended(status, body) ==
  /\ request' = NoRequest
  /\ answer' = [answer EXCEPT !.status = status, !.body = body]

\* Everything but the artifact is a file that never changes.
Request(path) ==
  /\ driver = "booting" /\ request = NoRequest /\ loads < MaxLoads
  /\ loads' = loads + 1
  /\ quiet' = (unwritten = 0)
  /\ LET route == Routes[path] IN
     /\ answer' = [path |-> path, file |-> route.file, body |-> <<>>,
                   status |-> IF route.file = Artifact THEN 0 ELSE route.status]
     /\ request' = IF route.file # Artifact THEN NoRequest
                   ELSE [NoRequest EXCEPT !.at = "sent", !.ifNoneMatch = cache.etag]
  /\ UNCHANGED <<buildVars, now, cache, gateVars>>

\* stat: the validator and the length of the answer.
StatMatches ==
  /\ request.at = "sent" /\ request.ifNoneMatch = ETag
  /\ Ended(304, cache.body)
  /\ UNCHANGED <<buildVars, now, cache, loads, gateVars, quiet>>

StatDiffers ==
  /\ request.at = "sent" /\ request.ifNoneMatch # ETag
  /\ request' = [request EXCEPT !.at = "streaming", !.etag = ETag, !.of = file,
                                      !.time = mtime]
  /\ UNCHANGED <<buildVars, now, cache, answer, loads, gateVars, quiet>>

\* The stream reads the file as it is by then.
StreamReads ==
  /\ request.at = "streaming"
  /\ Len(request.body) < Len(file)
  /\ request' = [request EXCEPT !.body = Append(@, file[Len(@) + 1])]
  /\ UNCHANGED <<buildVars, now, cache, answer, loads, gateVars, quiet>>

\* The browser takes Content-Length bytes, and fails a load that has fewer.
StreamEnds ==
  /\ request.at = "streaming"
  /\ Len(request.body) >= Len(file)
  /\ LET length == Len(request.of)
         body   == SubSeq(request.body, 1, length)
     IN IF Len(request.body) < length
        THEN Ended(500, <<>>) /\ UNCHANGED cache
        ELSE /\ cache' = [etag |-> request.etag, body |-> body, of |-> request.of,
                         time |-> request.time]
             /\ Ended(200, body)
  /\ UNCHANGED <<buildVars, now, loads, gateVars, quiet>>

\* stream.on("error"): the connection is dropped.
StreamFails ==
  /\ request.at = "streaming"
  /\ Ended(500, <<>>)
  /\ UNCHANGED <<buildVars, now, cache, loads, gateVars, quiet>>

-----------------------------------------------------------------------------
(* Gate 6: the guest page's chain of fetches *)

\* /cookie-test/set, /redirect-set and /echo: what they set and where they lead.
NoCookieOn302(l) == IF l = "set" THEN {"bibtest"} ELSE {}
SetCookieOf(l) == CASE l = "set" -> {"bibtest"} [] l = "redirect-set" -> {"bibredir"}
                    [] OTHER -> {}
IsRedirect(l) == l = "redirect-set"

\* The page is loaded, the boot page is gone and the page's script has run.
GateBegins ==
  /\ driver = "booting" /\ request = NoRequest
  /\ answer.file = Artifact /\ answer.status \in {200, 304}
  /\ driver' = "waiting"
  /\ jar' = {"bibdom"}
  /\ signals' = [Gray EXCEPT !["dom"] = "green", !["enabled"] = "green"]
  /\ leg' = "set"
  /\ UNCHANGED <<buildVars, now, browserVars, shown, verdict, quiet, carried, faults>>

\* The server answers a leg: its cookies are stored before anything follows, and
\* a redirect is followed with the cookies of then.
LegAnswered ==
  /\ leg \in {"set", "echo", "redirect-set", "redirected"}
  /\ jar' = jar \cup SetCookieOf(leg)
  /\ leg' = IF IsRedirect(leg) THEN "redirected"
            ELSE CASE leg = "set" -> "echo" [] leg = "echo" -> "redirect-set"
                   [] OTHER -> "none"
  /\ carried' = IF IsRedirect(leg) THEN jar' ELSE carried
  /\ signals' = CASE leg = "echo" ->
                       [signals EXCEPT !["net"] = IF "bibtest" \in jar THEN "green" ELSE "red"]
                  [] leg = "redirected" ->
                       [signals EXCEPT !["redir"] = IF {"bibtest", "bibredir"} \subseteq carried
                                                    THEN "green" ELSE "red"]
                  [] OTHER -> signals
  /\ UNCHANGED <<buildVars, now, browserVars, shown, driver, verdict, quiet, faults>>

\* A fetch fails: the chain's catch turns both network signals red.
LegFails ==
  /\ leg # "none" /\ faults < MaxFaults
  /\ faults' = faults + 1
  /\ leg' = "none"
  /\ signals' = [signals EXCEPT !["net"] = "red", !["redir"] = "red"]
  /\ UNCHANGED <<buildVars, now, browserVars, jar, shown, driver, verdict, quiet, carried>>

\* A frame brings the signals to the screen.
FrameShown ==
  /\ driver # "booting" /\ shown # signals
  /\ shown' = signals
  /\ UNCHANGED <<buildVars, now, browserVars, jar, leg, signals, driver, verdict,
                 quiet, carried, faults>>

(* Gate 6: the driver, which sees the screen only *)

AllLeftGray == \A s \in Signals : shown[s] # "gray"

SignalsIn ==
  /\ driver = "waiting" /\ AllLeftGray
  /\ driver' = "checking"
  /\ UNCHANGED <<buildVars, now, browserVars, jar, leg, signals, shown, verdict,
                 quiet, carried, faults>>

\* 30 seconds: the driver goes on and lets the checks fail.
WaitTimesOut ==
  /\ driver = "waiting" /\ ~AllLeftGray /\ faults < MaxFaults
  /\ faults' = faults + 1
  /\ driver' = "checking"
  /\ UNCHANGED <<buildVars, now, browserVars, jar, leg, signals, shown, verdict,
                 quiet, carried>>

Verdict ==
  /\ driver = "checking"
  /\ driver' = "done"
  /\ verdict' = IF \A s \in Signals : shown[s] = "green" THEN "PASS" ELSE "FAIL"
  /\ UNCHANGED <<buildVars, now, browserVars, jar, leg, signals, shown,
                 quiet, carried, faults>>

-----------------------------------------------------------------------------
ServerNext ==
  \/ BuildStarts \/ BuildWrites \/ ClockTicks
  \/ \E path \in Paths : Request(path)
  \/ StatMatches \/ StatDiffers \/ StreamReads \/ StreamEnds \/ StreamFails
  \/ GateBegins \/ LegAnswered \/ LegFails \/ FrameShown
  \/ SignalsIn \/ WaitTimesOut \/ Verdict

ServerSpec == ServerInit /\ [][ServerNext]_serverVars

-----------------------------------------------------------------------------
(* Properties *)

\* A load during which nobody wrote gives the page the artifact as it is, whether
\* it was streamed or confirmed by a 304, and whatever earlier loads were torn by a
\* build; the one exception is two contents with the same size in one millisecond.
LoadsAreFresh ==
  (request = NoRequest /\ quiet /\ answer.file = Artifact /\ answer.status \in {200, 304})
    => \/ answer.body = file
       \/ cache.of # file /\ Len(cache.of) = Len(file) /\ cache.time = mtime

\* A file is served from under the root of the most specific mount of its path,
\* through links and directories too, and from nowhere else.
ServedFromItsMount ==
  (answer.status \in {200, 304}) =>
    LET fits == {i \in DOMAIN mounts : IsPrefix(mounts[i].prefix, answer.path)}
    IN IF fits = {} THEN InRoot(answer.file, ROOT)
       ELSE \E i \in fits :
              /\ \A j \in fits : Len(mounts[j].prefix) <= Len(mounts[i].prefix)
              /\ InRoot(answer.file, mounts[i].root)

\* Gate 6 passes only when the redirected hop really carried both cookies, and
\* fails only when something failed: no order of frames, fetches and polls makes
\* it pass early or fail for nothing.
GateTellsTheTruth ==
  /\ verdict = "PASS" => {"bibtest", "bibredir"} \subseteq carried
  /\ verdict = "FAIL" => faults > 0

=============================================================================
