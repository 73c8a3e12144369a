------------------------------- MODULE Cards -------------------------------
(***************************************************************************)
(* The card of an incident: the template that ml/l4_rca.explain picks for  *)
(* the blamed layer (rca/templates.py), written when the incident opens    *)
(* and again when its severity rises and the frame has a card of its own.  *)
(* The templates look at measurements the rules do not; those are details, *)
(* chosen anew with every frame.                                           *)
(***************************************************************************)
EXTENDS Ladder

CONSTANTS
  NoCard,
  Details   \* bound: the details that may go with a frame

VARIABLE card   \* template_id of the active incident

cardsVars == <<ladderVars, card>>

Detail ==
  [clear    : BOOLEAN,   \* wifi_rssi_dbm is known and over -70
   crowded  : BOOLEAN,   \* on the 2.4 GHz band
   retry    : 0 .. 2,    \* wifi_tx_retry_rate: under 12% or absent, 12%, 15%
   roamed   : BOOLEAN,
   slowLink : BOOLEAN,   \* wifi_link_mbps is known and at most 54
   lossy    : BOOLEAN,   \* a tenth of the pings to the gateway lost
   rerouted : BOOLEAN,
   halfFail : BOOLEAN,   \* half of the HTTPS probes failed
   slowTls  : BOOLEAN,
   resends  : BOOLEAN,   \* os_retrans_rate of 5%
   busy     : BOOLEAN]   \* os_cpu_pct of 75

ASSUME CardsAssumption == Details \subseteq Detail

\* Thresholds of one and the same measurement agree.
Consistent(m, d) ==
  /\ m.rssi > 0 => ~d.clear
  /\ m.retries => d.retry = 2
  /\ ~m.wifi => ~d.clear /\ ~d.crowded /\ d.retry = 0 /\ ~d.roamed /\ ~d.slowLink
  /\ m.loss > 0 => d.lossy
  /\ m.httpsFail => d.halfFail
  /\ m.retrans = 2 => d.resends
  /\ m.retrans = 0 => ~d.resends

-----------------------------------------------------------------------------
(* The templates of each layer: a condition, and how specific it is.       *)

Template(id, specificity, holds) == [id |-> id, specificity |-> specificity, holds |-> holds]

WifiTemplates(m, d) ==
  {Template("wifi.signal_floor", 3, m.rssi > 0),
   Template("wifi.interference", 4, d.retry = 2 /\ d.clear),
   Template("wifi.crowded_24", 5, d.crowded /\ d.retry > 0),
   Template("wifi.roaming", 4, d.roamed),
   Template("wifi.rate_collapse", 2, d.slowLink),
   Template("wifi.generic", 0, TRUE)}

DnsTemplates(m) ==
  {Template("dns.captive_portal", 9, m.captive),
   Template("dns.failing", 5, m.dnsFail > 0),
   Template("dns.slow", 1, TRUE)}

GatewayTemplates(m, d) ==
  {Template("gateway.unreachable", 9, m.loss = 2),
   Template("gateway.loss", 5, d.lossy),
   Template("gateway.congestion", 1, TRUE)}

PathTemplates(d) ==
  {Template("path.reroute", 5, d.rerouted),
   Template("path.isp_congestion", 1, TRUE)}

RemoteTemplates(d) ==
  {Template("remote.unreachable", 6, d.halfFail),
   Template("remote.tls_slow", 4, d.slowTls),
   Template("remote.service_slow", 1, TRUE)}

VpnTemplates == {Template("vpn.overload", 1, TRUE)}

OsTemplates(d) ==
  {Template("os.retransmissions", 4, d.resends),
   Template("os.resource_pressure", 4, d.busy),
   Template("os.generic", 0, TRUE)}

\* BY_LAYER; explain falls back to the device when no layer is blamed.
TemplatesOf(layer, m, d) ==
  CASE layer = "wifi"         -> WifiTemplates(m, d)
    [] layer = "dns"          -> DnsTemplates(m)
    [] layer = "gateway"      -> GatewayTemplates(m, d)
    [] layer = "path"         -> PathTemplates(d)
    [] layer = "remote_https" -> RemoteTemplates(d)
    [] layer = "vpn"          -> VpnTemplates
    [] OTHER                  -> OsTemplates(d)

\* Templates that are equally specific stand in the order of the source.
Earlier == {<<"wifi.interference", "wifi.roaming">>, <<"os.retransmissions", "os.resource_pressure">>}
GoesBefore(t, u) ==
  t = u \/ t.specificity > u.specificity
        \/ (t.specificity = u.specificity /\ <<t.id, u.id>> \in Earlier)

SelectBroadest(templates) ==
  CHOOSE t \in templates : t.holds /\ \A u \in templates : u.holds => u.specificity >= t.specificity
\* select: the most specific template whose condition holds.
Select(templates) ==
  CHOOSE t \in templates : t.holds /\ \A u \in templates : u.holds => GoesBefore(t, u)

CardOf(m, f, d) == Select(TemplatesOf(f.primary, m, d)).id

-----------------------------------------------------------------------------
CardsInit == LadderInit /\ card = NoCard

\* This frame tells the story of the incident: it opened it, or made it worse and
\* can say why.
Rewritten ==
  \/ result'.opened
  \/ /\ incident # NoIncident /\ incident' # NoIncident
     /\ frame'.severity > incident.severity /\ Explained(frame')

Write(m) ==
  \/ incident' = NoIncident /\ card' = NoCard
  \/ incident' # NoIncident /\ ~Rewritten /\ card' = card
  \/ Rewritten /\ \E d \in Details : Consistent(m, d) /\ card' = CardOf(m, frame', d)

CardsNext == \E m \in Neighbours(measured) : Score(m) /\ Write(m)

CardsSpec == CardsInit /\ [][CardsNext]_cardsVars

-----------------------------------------------------------------------------
\* The templates that say what a rule saw.
Tells ==
  [captive_portal      |-> {"dns.captive_portal"},
   gateway_unreachable |-> {"gateway.unreachable"},
   gateway_loss        |-> {"gateway.loss"},
   dns_blackhole       |-> {"dns.failing"},
   dns_failures        |-> {"dns.failing"},
   remote_unreachable  |-> {"remote.unreachable"},
   wifi_signal_floor   |-> {"wifi.signal_floor"},
   wifi_signal_weak    |-> {"wifi.signal_floor"},
   wifi_retries        |-> {"wifi.interference", "wifi.crowded_24"},
   tcp_retransmissions |-> {"os.retransmissions", "vpn.overload"}]

\* A card of the radio may be about something else than the rule that fired.
RadioStory(card_, rules) ==
  \/ \E r \in rules : card_ \in Tells[r.id]
  \/ card_ \in {"wifi.roaming", "wifi.crowded_24"}
  \/ card_ \in {"wifi.rate_collapse", "wifi.generic"} /\ \A r \in rules : r.id = "wifi_retries"

\* What is said of a layer where rules fired: what one of the worst of them saw.
StoryOf(rules, card_) ==
  \E r \in rules : card_ \in Tells[r.id] /\ \A s \in rules : s.severity <= r.severity

\* The thresholds and the order of templates.py go with the rules of l0_rules.py:
\* when rules fired on the layer a card is written for, the card is that of one of
\* the worst of them, and a sign-in page goes before failing lookups.  Only the
\* radio has cards about something else than the rule saw: a weak signal, or frames
\* sent again, is told as roaming or as a crowded band when there is that too, and
\* frames sent again without a strong signal have no card of their own.
RuleGetsItsCard ==
  [][ LET rules == {r \in Hits(measured') : r.layer = incident'.layer}
      IN  Rewritten /\ rules # {}
            => IF incident'.layer = "wifi" THEN RadioStory(card', rules)
               ELSE /\ StoryOf(rules, card')
                    /\ measured'.captive /\ incident'.layer = "dns"
                         => card' = "dns.captive_portal" ]_cardsVars
=============================================================================
