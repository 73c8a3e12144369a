------------------------------- MODULE Rounds -------------------------------
(***************************************************************************)
(* What the rounds of the collectors say (collectors/*.py) on a host that  *)
(* moves between networks: the route cache of netinfo.py, the active       *)
(* collectors that put probes on the wire, some of which the budget        *)
(* refuses, and the two passive ones that read the host.  A round starts   *)
(* and ends at different moments, and the host may move in between.        *)
(***************************************************************************)
EXTENDS Naturals, FiniteSets

CONSTANTS
  Networks,  \* where the host may be
  Kind,      \* the interface that carries a network: ethernet, wifi or other
  Silent,    \* the networks whose gateway filters ICMP
  Nowhere,   \* no default route
  Switches,  \* the sets of collectors that are switched on and supported
  Targets,   \* names or URLs a round of dns or https probes
  TTL,       \* CACHE_TTL_S
  RetransEvery,  \* RETRANS_EVERY
  MaxTime,   \* bound: ticks of the clock
  MaxMoves   \* bound: moves of the host

Tallying == {"dns", "https"}
Active == Tallying \cup {"gateway", "captive", "path"}
AllCollectors == Active \cup {"system", "wifi"}

ASSUME RoundsAssumption ==
  /\ Kind \in [Networks -> {"ethernet", "wifi", "other"}]
  /\ Silent \subseteq Networks /\ Nowhere \notin Networks
  /\ Switches \subseteq SUBSET AllCollectors
  /\ Targets \in Nat \ {0} /\ RetransEvery \in Nat \ {0, 1} /\ TTL \in Nat \ {0} /\ MaxTime \in Nat /\ MaxMoves \in Nat

VARIABLES
  now,       \* the monotonic clock
  here,      \* the network the host is on
  was,       \* history: when the host was last on each network, 0 if never
  visited,   \* history: the networks it has been on
  moves,
  paused,    \* ProbeBudget.paused
  enabled,   \* the collectors that run here
  route,     \* netinfo._cache
  round,     \* the round each collector is in, if any
  answered,  \* GatewayCollector._ever_answered
  previous,  \* what path, system and wifi compare the next reading with
  wire,      \* what the host has sent since its TCP counters were read last
  watched,   \* history: something was resent since they were read first
  failures,  \* Collector.consecutive_failures, capped
  result     \* what the round that has just ended says

outside == <<now, here, was, visited, moves>>
switches == <<paused, enabled>>
tcp == <<wire, watched>>
memory == <<answered, previous, tcp>>
vars == <<outside, switches, route, round, memory, failures, result>>

\* about: the network a round is about; heard: history, how the probes that were
\* really sent in it fared; page and read: who answers the portal probe and how
\* much of the answer has been read; of a reading of the host, what TCP sent.
Idle == [on |-> FALSE, about |-> Nowhere, since |-> 0, left |-> 0, sent |-> 0,
         failed |-> 0, heard |-> {}, page |-> "expected", read |-> "nothing"]
Begun == [Idle EXCEPT !.on = TRUE, !.since = now]
\* Nothing, segments that went through, or some that had to be sent again.
Sendings == {"nothing", "segments", "resent"}
NoResult == [by |-> "nobody", says |-> "nothing", round |-> Idle]

Init ==
  /\ now = 1 /\ moves = 0
  /\ here \in Networks \cup {Nowhere}
  /\ was = [n \in Networks |-> 0]
  /\ visited = {here}
  /\ paused = FALSE
  /\ enabled \in Switches
  /\ route = [net |-> Nowhere, at |-> 0, known |-> FALSE]
  /\ round = [c \in AllCollectors |-> Idle]
  /\ answered = FALSE
  /\ previous = [path |-> "none", counters |-> FALSE, cell |-> "none",
                 turn |-> 0, segments |-> FALSE]
  /\ wire \in Sendings /\ watched = FALSE
  /\ failures = [c \in AllCollectors |-> 0]
  /\ result = NoResult

-----------------------------------------------------------------------------
\* What the tables of the system say of the default route, on any platform.
Discovered == [net |-> here, at |-> now, known |-> TRUE]

\* netinfo.classify_interface
InterfaceKind(net) == IF net = Nowhere THEN "other" ELSE Kind[net]

ResolveSliding ==
  IF route.known /\ now - route.at < TTL THEN [route EXCEPT !.at = now] ELSE Discovered

\* netinfo.default_route: what the cache answers after the call.
Resolve == IF route.known /\ now - route.at < TTL THEN route ELSE Discovered

\* Collector.collect: a round begins if the collector is on and not silenced.
Due(c) == c \in enabled /\ ~round[c].on /\ (c \in Active => ~paused)

\* ProbeBudget.acquire: refused in a pause, and whenever the bucket is empty.
MayGrant(granted) == granted => ~paused

\* Collector.collect: the round of c is over.
End(c, r, says) ==
  /\ round' = [round EXCEPT ![c] = Idle]
  /\ result' = [by |-> c, says |-> says, round |-> r]
  /\ failures' = [failures EXCEPT ![c] =
       IF says # "failed" THEN 0 ELSE IF @ < 2 THEN @ + 1 ELSE @]

Goes(c, r) ==
  /\ round' = [round EXCEPT ![c] = r]
  /\ result' = NoResult
  /\ UNCHANGED failures

\* What a round says of its probes.
Verdict(sent, failed) ==
  CASE sent = 0                  -> "nothing"
    [] sent > 0 /\ failed = sent -> "loss"
    [] sent > 0 /\ failed = 0    -> "fine"
    [] OTHER                     -> "partial"

-----------------------------------------------------------------------------
(* gateway.py: PING_COUNT pings in one command. *)

AskGateway(granted) ==
  LET r == [Begun EXCEPT !.about = Resolve.net]
  IN  /\ Due("gateway") /\ MayGrant(granted)
      /\ route' = Resolve
      /\ IF r.about # Nowhere /\ granted THEN Goes("gateway", r)
         ELSE End("gateway", r, "nothing")
      /\ UNCHANGED <<outside, switches, memory>>

\* What can be read off the output of ping: some replied, some did not, or both.
Replies == (SUBSET BOOLEAN) \ {{}}

\* A gateway that has never answered is taken for one that filters ICMP.
Unmeasurable(replied) == ~replied /\ ~answered

Pinged(answers) ==
  LET r == [round["gateway"] EXCEPT !.heard = answers]
      replied == TRUE \in answers
      sent == Cardinality(answers)
  IN  /\ r.on
      /\ replied => r.about \notin Silent
      /\ answered' = (answered \/ replied)
      /\ End("gateway", r,
             IF Unmeasurable(replied) THEN "nothing"
             ELSE Verdict(sent, IF FALSE \in answers THEN 1 ELSE 0))
      /\ UNCHANGED <<outside, switches, route, previous, tcp>>

-----------------------------------------------------------------------------
(* dns.py and https_probe.py: one probe for each target, if it is granted. *)

BeginTargets(c) ==
  /\ Due(c)
  /\ Goes(c, [Begun EXCEPT !.left = Targets])
  /\ UNCHANGED <<outside, switches, route, memory>>

\* probe_url and _time_resolution: whatever goes wrong on the way is a failure.
Outcomes == BOOLEAN

CountingRefusals(r, granted, ok) ==
  [r EXCEPT !.left = @ - 1, !.sent = @ + 1,
            !.failed = IF granted /\ ok THEN @ ELSE @ + 1,
            !.heard = IF granted THEN @ \cup {ok} ELSE @]

Counted(r, granted, ok) ==
  IF granted THEN [r EXCEPT !.left = @ - 1, !.sent = @ + 1,
                            !.failed = IF ok THEN @ ELSE @ + 1,
                            !.heard = @ \cup {ok}]
  ELSE [r EXCEPT !.left = @ - 1]

Target(c, granted, ok) ==
  LET r == Counted(round[c], granted, ok)
  IN  /\ round[c].on /\ MayGrant(granted)
      /\ IF r.left > 0 THEN Goes(c, r) ELSE End(c, r, Verdict(r.sent, r.failed))
      /\ UNCHANGED <<outside, switches, route, memory>>

-----------------------------------------------------------------------------
(* captive.py: the answer is the expected page, another status or another body. *)

AskPortal(granted, page) ==
  /\ Due("captive") /\ MayGrant(granted)
  /\ IF granted THEN Goes("captive", [Begun EXCEPT !.page = page])
     ELSE End("captive", Begun, "nothing")
  /\ UNCHANGED <<outside, switches, route, memory>>

Stages == [nothing |-> 0, head |-> 1, part |-> 2, whole |-> 3]

\* classify_response
ClassifyEmptyBody(page, read) ==
  CASE read = "nothing" -> "nothing"
    [] read = "whole" /\ page = "expected" -> "clear"
    [] OTHER -> "portal"

Classify(page, read) ==
  CASE read = "nothing" \/ (read = "head" /\ page # "status") -> "nothing"
    [] read = "whole" /\ page = "expected"                    -> "clear"
    [] OTHER                                                  -> "portal"

\* _read_response: one recv; a first byte of the body ends the reading.
Receive(read) ==
  LET r == [round["captive"] EXCEPT !.read = read]
  IN  /\ r.on
      /\ Stages[read] > Stages[round["captive"].read]
      /\ IF Stages[read] >= Stages["part"] THEN End("captive", r, Classify(r.page, read))
         ELSE Goes("captive", r)
      /\ UNCHANGED <<outside, switches, route, memory>>

\* The peer closes the connection or the time is over; a connection that is
\* refused or reset leaves nothing to judge.
ReceiveNoMore(broken) ==
  LET r == round["captive"]
  IN  /\ r.on
      /\ End("captive", r, IF broken THEN "nothing" ELSE Classify(r.page, r.read))
      /\ UNCHANGED <<outside, switches, route, memory>>

-----------------------------------------------------------------------------
(* path.py: a trace is its signature, the sequence of the hops and their silences. *)

\* What can be read off the output of traceroute; nothing if it took too long.
Traces == {"none", "usual", "detour"}

AskPath(granted) ==
  /\ Due("path") /\ MayGrant(granted)
  /\ IF granted THEN Goes("path", Begun) ELSE End("path", Begun, "nothing")
  /\ UNCHANGED <<outside, switches, route, memory>>

Traced(hops) ==
  LET r == round["path"]
  IN  /\ r.on
      /\ IF hops = "none" THEN End("path", r, "failed") /\ UNCHANGED previous
         ELSE /\ End("path", r, IF previous.path \in {"none", hops} THEN "same" ELSE "changed")
              /\ previous' = [previous EXCEPT !.path = hops]
      /\ UNCHANGED <<outside, switches, route, answered, tcp>>

-----------------------------------------------------------------------------
(* system.py and wifi.py read the host through the cached route. *)


\* _collect_retransmissions: the rate needs the counters of this reading and of one
\* before; a platform may not show them.
Segments(readable) == IF previous.segments /\ readable THEN wire ELSE "nothing"

\* The rates of the interface are found in the same way, in every round, those of TCP
\* in every RetransEvery-th.  Counters that have gone backwards say nothing, but every
\* reading is kept for the next one.
ReadSystem(counted, readable, backwards) ==
  LET turn == (previous.turn + 1) % RetransEvery
      read == turn = 1 /\ readable
      r == [Begun EXCEPT !.about = Resolve.net,
                         !.read = IF backwards THEN "nothing" ELSE Segments(read)]
  IN  /\ Due("system")
      /\ route' = Resolve
      /\ previous' = [previous EXCEPT !.counters = @ \/ (counted /\ r.about # Nowhere),
                                      !.turn = turn, !.segments = @ \/ read]
      /\ wire' = IF read THEN "nothing" ELSE wire
      /\ End("system", r, IF previous.counters /\ counted /\ r.about # Nowhere /\ ~backwards
                          THEN "rates" ELSE "host")
      /\ UNCHANGED <<outside, switches, answered, watched>>

\* What the tools of the platform tell of the radio: nothing, or a signal, with
\* the cell if they may.
Readings == {"none", "hidden", "near", "far"}

\* A change of the cell is a roam.
Roamed(cell) == cell # "hidden" /\ previous.cell \notin {"none", cell}

\* Nothing is said of the radio as long as the route is on a cable.
ReadWifi(reading) ==
  LET r == [Begun EXCEPT !.about = Resolve.net]
      silent == InterfaceKind(r.about) = "ethernet" \/ reading = "none"
  IN  /\ Due("wifi")
      /\ route' = Resolve
      /\ previous' = [previous EXCEPT !.cell = IF silent \/ reading = "hidden" THEN @ ELSE reading]
      /\ End("wifi", r, CASE silent          -> "nothing"
                          [] ~silent /\ Roamed(reading) -> "roamed"
                          [] OTHER           -> "radio")
      /\ UNCHANGED <<outside, switches, answered, tcp>>

-----------------------------------------------------------------------------
(* The world, and the pause switch. *)

Quiet == UNCHANGED <<enabled, route, round, answered, previous, failures>> /\ result' = NoResult
Still == Quiet /\ UNCHANGED tcp

Tick == now < MaxTime /\ now' = now + 1 /\ UNCHANGED <<here, was, visited, moves, paused>> /\ Still

Move(net) ==
  /\ net # here /\ moves < MaxMoves
  /\ moves' = moves + 1
  /\ here' = net
  /\ was' = [n \in Networks |-> IF n = here THEN now ELSE was[n]]
  /\ visited' = visited \cup {net}
  /\ UNCHANGED <<now, paused>> /\ Still

\* The host sends; that is followed only where the counters are looked at.
Transmit(what) ==
  /\ "system" \in enabled /\ wire # "resent"
  /\ wire' = what /\ watched' = (watched \/ (what = "resent" /\ previous.segments))
  /\ UNCHANGED <<outside, paused>> /\ Quiet

Switch == paused' = ~paused /\ UNCHANGED outside /\ Still

Next ==
  \/ \E granted \in BOOLEAN : AskGateway(granted) \/ AskPath(granted)
  \/ \E answers \in Replies : Pinged(answers)
  \/ \E c \in Tallying : BeginTargets(c)
  \/ \E c \in Tallying, granted \in BOOLEAN, ok \in Outcomes : Target(c, granted, ok)
  \/ \E granted \in BOOLEAN, page \in {"expected", "status", "body"} : AskPortal(granted, page)
  \/ \E read \in {"head", "part", "whole"} : Receive(read)
  \/ \E broken \in BOOLEAN : ReceiveNoMore(broken)
  \/ \E hops \in Traces : Traced(hops)
  \/ \E counted, readable, backwards \in BOOLEAN : ReadSystem(counted, readable, backwards)
  \/ \E reading \in Readings : ReadWifi(reading)
  \/ Tick \/ Switch
  \/ \E what \in Sendings \ {"nothing"} : Transmit(what)
  \/ \E net \in Networks \cup {Nowhere} : Move(net)

Spec == Init /\ [][Next]_vars

-----------------------------------------------------------------------------
\* What a round and its result are made of.
Round ==
  [on : BOOLEAN, about : Networks \cup {Nowhere}, since : Nat, left : Nat, sent : Nat,
   failed : Nat, heard : SUBSET BOOLEAN, page : {"expected", "status", "body"},
   read : DOMAIN Stages \cup Sendings]
Sayings ==
  {"nothing", "loss", "fine", "partial", "clear", "portal", "failed", "same", "changed",
   "rates", "host", "roamed", "radio"}

\* Every variable has its type, and a round that is on has a probe to go.
TypeOK ==
  /\ now \in Nat /\ moves \in Nat /\ here \in Networks \cup {Nowhere}
  /\ was \in [Networks -> Nat] /\ visited \subseteq Networks \cup {Nowhere}
  /\ paused \in BOOLEAN /\ enabled \in Switches
  /\ route \in [net : Networks \cup {Nowhere}, at : Nat, known : BOOLEAN]
  /\ round \in [AllCollectors -> Round]
  /\ \A c \in Tallying : round[c].on => round[c].left > 0
  /\ answered \in BOOLEAN
  /\ previous \in [path : Traces, counters : BOOLEAN, cell : Readings, turn : Nat, segments : BOOLEAN]
  /\ wire \in Sendings /\ watched \in BOOLEAN
  /\ failures \in [AllCollectors -> 0 .. 2]
  /\ result \in [by : AllCollectors \cup {"nobody"}, says : Sayings, round : Round]

\* netinfo.py:26, the route is cached for CACHE_TTL_S: what a round says of a
\* network it says of one the host was on less than TTL before the round began,
\* however often the cache was asked in between; and the radio is not reported
\* once the host has been on a cable for that long (wifi.py:81).
SpeaksOfHere ==
  LET r == result.round n == result.round.about
  IN  /\ n \in Networks => n = here \/ r.since < was[n] + TTL
      /\ result.says \in {"radio", "roamed"} /\ InterfaceKind(here) = "ethernet"
           => n # here

\* dns.py:67, https_probe.py:88 and gateway.py:66: a probe the budget refused is
\* neither a failure nor a success, and a device that filters ICMP is not one that is
\* down.  A layer is reported lost only if something was sent in this very round and
\* nothing came back, fine only if everything came back, a round that sent nothing
\* says nothing, and an agent that has only been behind gateways that filter reports
\* no loss there; nor does the host report segments that were resent before it looked.
SaysWhatTheWireSaid ==
  LET heard == result.round.heard
  IN  /\ result.says = "loss" => heard = {FALSE}
      /\ result.says = "fine" => heard = {TRUE}
      /\ result.says = "partial" => heard = BOOLEAN
      /\ result.by \in Tallying /\ result.says = "nothing" => heard = {}
      /\ result.by = "gateway" /\ result.says \in {"loss", "partial"}
           => ~(visited \subseteq Silent \cup {Nowhere})
      /\ result.by = "system" /\ result.round.read = "resent" => watched

\* captive.py:104: an answer that is cut off before its body is no sign-in page, and
\* a sign-in page is never taken for the expected answer.  What is left is a body
\* that arrives in pieces, of which the first is judged alone.
PortalIsSeen ==
  result.by = "captive" =>
    /\ result.says = "clear" => result.round.page = "expected"
    /\ result.says = "portal" /\ result.round.page = "expected" => result.round.read = "part"
=============================================================================
