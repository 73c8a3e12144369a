------------------------------- MODULE Ladder -------------------------------
(***************************************************************************)
(* From measurements to frames: the hard rules of ml/l0_rules.py, the      *)
(* attribution of ml/l4_rca.py and the band of severity of ml/scorer.py,   *)
(* in front of the incident lifecycle of module Scorer.  Measurements are  *)
(* levels between the thresholds the code compares with; what the learned  *)
(* models say of a layer, and the forecast, are inputs.                    *)
(*                                                                         *)
(* Scores are integers: raw ones in hundredths (W_RULE / 4 is 35), the     *)
(* dampened ones in four-hundredths, so that INHERITANCE = 3/4 is exact.   *)
(***************************************************************************)
EXTENDS Scorer, Integers, FiniteSets

CONSTANTS
  Learned,    \* the learned scores of the layers, W_L1 * l1 + W_L2 * l2
  Forecasts,  \* the smoothed risk_15m, in percent
  WatchAt, RiskAt, CriticalAt,  \* config.ml.risk_bands, in percent
  Seen        \* bound: the values a field of a measurement may change to

AttributableLayers == {"wifi", "os", "dns", "gateway", "path", "remote_https", "vpn"}
Chain == {"wifi", "os", "gateway", "path", "remote_https"}

\* The order of both; ties go to the layer that ATTRIBUTABLE_LAYERS names first.
Place ==
  [layer \in AttributableLayers |->
     CASE layer = "wifi" -> 1 [] layer = "os" -> 2 [] layer = "dns" -> 3
       [] layer = "gateway" -> 4 [] layer = "path" -> 5
       [] layer = "remote_https" -> 6 [] layer = "vpn" -> 7]

ASSUME LadderAssumption ==
  /\ Layers = AttributableLayers /\ Bands = Severity
  /\ Learned \subseteq [Layers -> Nat]
  /\ Forecasts \subseteq 0 .. 100
  /\ WatchAt \in 1 .. 99 /\ RiskAt \in 1 .. 99 /\ CriticalAt \in 1 .. 99
  /\ WatchAt < RiskAt /\ RiskAt < CriticalAt

VARIABLES
  measured,  \* what the frame scored last was made of
  frame      \* that frame

ladderVars == <<scorerVars, measured, frame>>

Measurement ==
  [captive   : BOOLEAN,
   loss      : 0 .. 2,   \* gw_loss_rate: under a half or absent, half, all
   dnsFail   : 0 .. 3,   \* under a fifth or absent, a fifth, a third, all
   httpsFail : BOOLEAN,  \* every probe failed
   rssi      : 0 .. 2,   \* fine or absent, -75 dBm, -82 dBm
   retries   : BOOLEAN,
   retrans   : 0 .. 2,   \* under 3% or absent, 3%, 8%
   vpn       : BOOLEAN,  \* vpn_active
   wifi      : BOOLEAN,  \* frame.has_layer("wifi")
   learned   : Learned,
   votes     : SUBSET {"path", "remote_https", "dns", "wifi"},
   forecast  : Forecasts,
   blind     : BOOLEAN]  \* coverage under MIN_COVERAGE_FOR_RISK

\* Without a radio there are no values of it.
Plausible(m) ==
  /\ m \in Measurement
  /\ ~m.wifi => /\ m.rssi = 0 /\ ~m.retries
                /\ m.learned["wifi"] = 0 /\ "wifi" \notin m.votes

-----------------------------------------------------------------------------
(* L0: the rules.                                                          *)

Rule(id, layer, severity, suppresses, floor) ==
  [id |-> id, layer |-> layer, severity |-> severity,
   suppresses |-> suppresses, floor |-> floor]

When(condition, rule) == IF condition THEN {rule} ELSE {}

\* Failing HTTPS implicates the far end only when router and lookups are healthy.
LocalHealthy(m) == m.loss = 0 /\ m.dnsFail = 0

\* Retransmissions are the tunnel's when there is one.
Retransmitter(m) == IF m.vpn THEN "vpn" ELSE "os"

\* evaluate
Hits(m) == UNION
  {When(m.captive, Rule("captive_portal", "dns", Critical, AttributableLayers, 90)),
   When(m.loss = 2,
        Rule("gateway_unreachable", "gateway", Critical, {"path", "remote_https", "dns"}, 95)),
   When(m.loss = 1, Rule("gateway_loss", "gateway", Risk, {}, 70)),
   When(m.dnsFail = 3, Rule("dns_blackhole", "dns", Critical, {"remote_https"}, 90)),
   When(m.dnsFail = 2, Rule("dns_failures", "dns", Risk, {}, 60)),
   When(m.httpsFail /\ LocalHealthy(m),
        Rule("remote_unreachable", "remote_https", Critical, {}, 90)),
   When(m.rssi = 2, Rule("wifi_signal_floor", "wifi", Risk, {}, 55)),
   When(m.rssi = 1, Rule("wifi_signal_weak", "wifi", Watch, {}, 0)),
   When(m.retries, Rule("wifi_retries", "wifi", Risk, {}, 55)),
   When(m.retrans = 2, Rule("tcp_retransmissions", Retransmitter(m), Watch, {}, 0))}

Suppressed(hits) == UNION {r.suppresses \ {r.layer} : r \in hits}

\* The largest element of a finite set of numbers, or 0.
Largest(S) == CHOOSE n \in S \cup {0} : \A k \in S : k <= n

RiskFloor(hits) == Largest({r.floor : r \in hits})

-----------------------------------------------------------------------------
(* The band of severity.                                                   *)

BandFor(risk) ==
  CASE risk >= CriticalAt -> Critical
    [] risk < CriticalAt /\ risk >= RiskAt -> Risk
    [] risk < RiskAt /\ risk >= WatchAt -> Watch
    [] OTHER -> Info

\* A blind frame keeps the floor of the rules and drops the forecast.
Risk15(m, hits) == Largest({RiskFloor(hits)} \cup (IF m.blind THEN {} ELSE {m.forecast}))

\* The worse of the band of the risk and the worst rule.
SeverityOf(band, hits) == Largest({band} \cup {r.severity : r \in hits})

-----------------------------------------------------------------------------
(* L4: attribution.                                                        *)

HitsAt(hits, layer, severity) ==
  Cardinality({r \in hits : r.layer = layer /\ r.severity = severity})

\* W_RULE * (severity_rank(hit.severity) + 1) / 4 for each hit on the layer.
RuleScore(hits, layer) ==
  35 * (2 * HitsAt(hits, layer, Watch) + 3 * HitsAt(hits, layer, Risk)
          + 4 * HitsAt(hits, layer, Critical))

\* A layer that does not exist right now cannot be the cause.
Raw(m, hits) ==
  [layer \in AttributableLayers |->
     IF (layer = "vpn" /\ ~m.vpn) \/ (layer = "wifi" /\ ~m.wifi)
       THEN 0 ELSE m.learned[layer] + RuleScore(hits, layer)]

\* The dependency chain, from the innermost hop outward.
Before(layer) == {k \in Chain : Place[k] < Place[layer]}

NonNegative(i) == IF i < 0 THEN 0 ELSE i

DampenByNeighbour(raw) ==
  [layer \in AttributableLayers |-> NonNegative(
     CASE layer = "dns" -> 4 * raw["dns"] - 2 * Largest({raw["wifi"], raw["gateway"]})
       [] layer = "vpn" -> 4 * raw["vpn"] - 3 * raw["path"]
       [] OTHER -> 4 * raw[layer] - 3 * Largest({raw[k] : k \in {k \in Before(layer) :
                                                   Before(layer) = Before(k) \cup {k}}}))]
\* Subtract what the upstream layers explain: each layer of CHAIN inherits from
\* the worst one before it, DNS from the first hops, the tunnel from the path.
Dampen(raw) ==
  [layer \in AttributableLayers |-> NonNegative(
     CASE layer = "dns" -> 4 * raw["dns"] - 2 * Largest({raw["wifi"], raw["gateway"]})
       [] layer = "vpn" -> 4 * raw["vpn"] - 3 * raw["path"]
       [] OTHER -> 4 * raw[layer] - 3 * Largest({raw[k] : k \in Before(layer)}))]

\* The cross-layer ratios: a vote carries the full weight the code allows it.
\* Time past the path is shared by the tunnel, when there is one.
Tunnelled(m) == m.vpn /\ "remote_https" \in m.votes
Vote(m, layer) ==
  CASE layer = "vpn" -> IF Tunnelled(m) THEN 240 + (IF m.retrans > 0 THEN 120 ELSE 0) ELSE 0
    [] layer \notin m.votes \cup {"vpn"} -> 0
    [] layer = "path" /\ layer \in m.votes -> 240
    [] layer = "remote_https" /\ layer \in m.votes -> IF m.vpn THEN 120 ELSE 240
    [] layer \in {"dns", "wifi"} \cap m.votes -> 200
Voted(m, excess) == [layer \in AttributableLayers |-> excess[layer] + Vote(m, layer)]

Muted(hits, excess) ==
  [layer \in AttributableLayers |-> IF layer \in Suppressed(hits) THEN 0 ELSE excess[layer]]

ScoresMutedFirst(m, hits) == Voted(m, Muted(hits, Dampen(Raw(m, hits))))
\* Suppression is applied last and is absolute.
Scores(m, hits) == Muted(hits, Voted(m, Dampen(Raw(m, hits))))

Ahead(excess, l, k) ==
  excess[l] > excess[k] \/ (excess[l] = excess[k] /\ Place[l] <= Place[k])

\* No score is negative, so nobody is blamed just when they are all zero.
Primary(excess) ==
  IF excess = [l \in AttributableLayers |-> 0]
    THEN NoLayer
    ELSE CHOOSE l \in AttributableLayers : \A k \in AttributableLayers : Ahead(excess, l, k)

FrameOf(m) ==
  LET hits == Hits(m)
      band == BandFor(Risk15(m, hits))
  IN  [risk |-> band, severity |-> SeverityOf(band, hits),
       primary |-> Primary(Scores(m, hits)), blind |-> m.blind]

-----------------------------------------------------------------------------
Calm(m) ==
  /\ ~m.captive /\ m.loss = 0 /\ m.dnsFail = 0 /\ ~m.httpsFail
  /\ m.rssi = 0 /\ ~m.retries /\ m.retrans = 0 /\ m.votes = {}

LadderInit ==
  /\ Init
  /\ measured \in {m \in Measurement : Plausible(m) /\ Calm(m)}
  /\ frame = FrameOf(measured)

\* Bound: between two frames at most one thing that is measured changes.
Neighbours(m) ==
  {m} \cup UNION {{[m EXCEPT ![field] = value] : value \in Seen[field]} : field \in DOMAIN Seen}

Score(m) ==
  /\ Plausible(m)
  /\ measured' = m
  /\ frame' = FrameOf(m)
  /\ Observe(frame')

LadderNext == \E m \in Neighbours(measured) : Score(m)

LadderSpec == LadderInit /\ [][LadderNext]_ladderVars

-----------------------------------------------------------------------------
\* Every variable has its type; above all, whatever is measured and however the
\* bands are configured, the ladder yields a frame the lifecycle accepts.
LadderTypeOK == measured \in Measurement /\ frame \in Frames

\* Without a sign-in page, a frame in which a rule fired has a layer to blame:
\* neither the dampening nor the rules' own suppression leaves nobody.
RuleIsExplained ==
  ~measured.captive /\ Hits(measured) # {} => frame.primary # NoLayer

\* Trouble is blamed on the layer where it begins.  As long as the cross-layer
\* ratios are silent, a layer of the chain is blamed only if its score, rules
\* included, is larger than that of every layer before it; and past the first
\* layer in trouble only if it is still the worse one after three quarters of
\* that layer's score have been taken off its own.
BlameStopsAtTheWorst ==
  LET raw == Raw(measured, Hits(measured))
  IN  measured.votes = {} /\ frame.primary \in Chain
        => \A l \in Before(frame.primary) :
             /\ raw[l] < raw[frame.primary]
             /\ raw[l] > 0 /\ (\A k \in Before(l) : raw[k] = 0)
                  => 7 * raw[l] < 4 * raw[frame.primary]

\* An alerting run that is long enough has an incident, unless the last frame
\* was an alert nobody can be blamed for: a sign-in page whose own layer was
\* dampened away or forbidden, or a forecast that no rule backs.
AlertGoesUnopened ==
  above >= OpenAfter /\ incident = NoIncident
    => frame.primary = NoLayer /\ (measured.captive \/ Hits(measured) = {})

\* Neither the opening of an incident nor its escalation names a layer that a
\* rule forbids to blame in that frame.
NeverNamesSuppressed ==
  [][ incident' # NoIncident /\ (incident = NoIncident \/ incident'.layer # incident.layer)
        => incident'.layer \notin Suppressed(Hits(measured')) ]_ladderVars
=============================================================================
