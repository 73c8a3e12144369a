--------------------------- MODULE VerdictProofs ----------------------------
(***************************************************************************)
(* From what is measured to what the user hears.  The first part is about  *)
(* the ladder, the second about the card of an incident, the third about   *)
(* the notifications.                                                      *)
(***************************************************************************)
EXTENDS Cards, Replay, ScorerProofs, FiniteSetTheorems

(***************************************************************************)
(* For every learned score and every forecast: the ladder yields frames    *)
(* the incident lifecycle accepts, a rule that fired has a layer to        *)
(* blame, the blame follows the chain, and no suppressed layer is named.   *)
(***************************************************************************)
\* What was learned about the layers.
Scored == [AttributableLayers -> Nat]

-----------------------------------------------------------------------------
(* Largest, on the sets it is used for.                                    *)

\* A set of naturals that has a largest member, zero if it is empty.
HasLargest(S) == S \subseteq Nat /\ \E n \in S \cup {0} : \A k \in S : k <= n

\* Largest returns the largest element where there is one.
LEMMA LargestFacts ==
  ASSUME NEW S, HasLargest(S)
  PROVE  /\ Largest(S) \in S \cup {0}
         /\ Largest(S) \in Nat
         /\ \A k \in S : k <= Largest(S)
<1>1. \E n \in S \cup {0} : \A k \in S : k <= n
  BY DEF HasLargest
<1>2. Largest(S) \in S \cup {0} /\ \A k \in S : k <= Largest(S)
  BY <1>1, Zenon DEF Largest
<1>3. S \cup {0} \subseteq Nat
  BY DEF HasLargest
<1>. QED BY <1>2, <1>3

\* One more number leaves a largest one.
LEMMA LargestGrows ==
  ASSUME NEW S, HasLargest(S), NEW i \in Nat
  PROVE  HasLargest(S \cup {i})
<1>1. PICK n \in S \cup {0} : \A k \in S : k <= n
  BY DEF HasLargest
<1>2. n \in Nat
  BY DEF HasLargest
<1>3. CASE n <= i
  <2>1. \A k \in S \cup {i} : k <= i
    BY <1>1, <1>2, <1>3 DEF HasLargest
  <2>. QED BY <2>1 DEF HasLargest
<1>4. CASE i < n
  <2>1. \A k \in S \cup {i} : k <= n
    BY <1>1, <1>2, <1>4 DEF HasLargest
  <2>. QED BY <2>1 DEF HasLargest
<1>. QED BY <1>2, <1>3, <1>4

\* Up to four numbers have a largest one.
LEMMA FewHaveLargest ==
  ASSUME NEW i \in Nat, NEW j \in Nat, NEW k \in Nat, NEW l \in Nat
  PROVE  HasLargest({}) /\ HasLargest({i}) /\ HasLargest({i, j})
         /\ HasLargest({i, j, k}) /\ HasLargest({i, j, k, l})
<1>0. HasLargest({})
  BY DEF HasLargest
<1>1. {} \cup {i} = {i} /\ {i} \cup {j} = {i, j} /\ {i, j} \cup {k} = {i, j, k}
      /\ {i, j, k} \cup {l} = {i, j, k, l}
  OBVIOUS
<1>2. HasLargest({i})
  BY <1>0, <1>1, LargestGrows
<1>3. HasLargest({i, j})
  BY <1>1, <1>2, LargestGrows
<1>4. HasLargest({i, j, k})
  BY <1>1, <1>3, LargestGrows
<1>5. HasLargest({i, j, k, l})
  BY <1>1, <1>4, LargestGrows
<1>. QED BY <1>0, <1>2, <1>3, <1>4, <1>5

\* So has every set of severities.
LEMMA SeveritiesHaveLargest ==
  ASSUME NEW S \in SUBSET Severity PROVE HasLargest(S)
BY DEF HasLargest, Severity, Info, Critical

\* And so has every set of floors of the rules.
LEMMA FloorsHaveLargest ==
  ASSUME NEW S \in SUBSET {0, 55, 60, 70, 90, 95} PROVE HasLargest(S)
<1>1. CASE 95 \in S
  BY <1>1 DEF HasLargest
<1>2. CASE 95 \notin S /\ 90 \in S
  BY <1>2 DEF HasLargest
<1>3. CASE S \subseteq {0, 55, 60, 70} /\ 70 \in S
  BY <1>3 DEF HasLargest
<1>4. CASE S \subseteq {0, 55, 60} /\ 60 \in S
  BY <1>4 DEF HasLargest
<1>5. CASE S \subseteq {0, 55}
  BY <1>5 DEF HasLargest
<1>. QED BY <1>1, <1>2, <1>3, <1>4, <1>5

-----------------------------------------------------------------------------
(* The rules.                                                              *)

\* Severities a rule may report.
Severities == {Watch, Risk, Critical}
\* The rules of L0.
RuleIds == {"captive_portal", "gateway_unreachable", "gateway_loss", "dns_blackhole",
            "dns_failures", "remote_unreachable", "wifi_signal_floor", "wifi_signal_weak",
            "wifi_retries", "tcp_retransmissions"}

\* What a rule that fired says: without a sign-in page only the far side of a
\* dead router or resolver is suppressed, and each rule has its own layer.
LEMMA HitFacts ==
  ASSUME NEW m, NEW r \in Hits(m)
  PROVE  /\ r.layer \in AttributableLayers /\ r.severity \in Severities /\ r.id \in RuleIds
         /\ r.floor \in {0, 55, 60, 70, 90, 95}
         /\ r.suppresses \subseteq AttributableLayers
         /\ r.layer = "vpn" => m.vpn
         /\ r.layer = "wifi" => m.rssi # 0 \/ m.retries
         /\ r.suppresses \subseteq {"path", "remote_https", "dns"} \/ m.captive
         /\ \/ m.captive
            \/ r.suppresses = {}
            \/ r.layer = "gateway" /\ r.suppresses = {"path", "remote_https", "dns"}
            \/ r.layer = "dns" /\ r.suppresses = {"remote_https"}
BY DEF Hits, When, Rule, Retransmitter, AttributableLayers, Severities, RuleIds

\* Finitely many rules fire, each at most once.
LEMMA HitsFinite == ASSUME NEW m PROVE IsFiniteSet(Hits(m))
<1>1. \A x, y : IsFiniteSet({x, y})
  <2> TAKE x, y
  <2>1. {x, y} = {x} \cup {y} /\ IsFiniteSet({x}) /\ IsFiniteSet({y})
    BY FS_Singleton
  <2>2. IsFiniteSet({x} \cup {y})
    BY <2>1, FS_Union
  <2>. QED BY <2>1, <2>2
<1>2. IsFiniteSet(RuleIds)
  <2>1. \A S, T : IsFiniteSet(S) /\ IsFiniteSet(T) => IsFiniteSet(S \cup T)
    BY FS_Union
  <2> DEFINE a == {"captive_portal", "gateway_unreachable"}
             b == {"gateway_loss", "dns_blackhole"}
             c == {"dns_failures", "remote_unreachable"}
             d == {"wifi_signal_floor", "wifi_signal_weak"}
             e == {"wifi_retries", "tcp_retransmissions"}
  <2>2. RuleIds = ((a \cup b) \cup (c \cup d)) \cup e
    BY DEF RuleIds
  <2>3. IsFiniteSet(a) /\ IsFiniteSet(b) /\ IsFiniteSet(c) /\ IsFiniteSet(d) /\ IsFiniteSet(e)
    BY <1>1
  <2> HIDE DEF a, b, c, d, e
  <2>4. IsFiniteSet(a \cup b) /\ IsFiniteSet(c \cup d)
    BY <2>1, <2>3
  <2>5. IsFiniteSet((a \cup b) \cup (c \cup d))
    BY <2>1, <2>4
  <2>. QED BY <2>1, <2>2, <2>3, <2>5
<1> DEFINE id == [r \in Hits(m) |-> r.id]
<1>3. \A r, s \in Hits(m) : r.id = s.id => r = s
  BY DEF Hits, When, Rule
<1>4. id \in Injection(Hits(m), RuleIds)
  BY <1>3, HitFacts DEF Injection, IsInjective
<1>. QED BY <1>2, <1>4, FS_Injection

\* Counting the hits of one kind.
LEMMA HitsAtFacts ==
  ASSUME NEW m, NEW layer, NEW severity
  PROVE  /\ HitsAt(Hits(m), layer, severity) \in Nat
         /\ (\E r \in Hits(m) : r.layer = layer /\ r.severity = severity)
              => HitsAt(Hits(m), layer, severity) > 0
<1> DEFINE at == {r \in Hits(m) : r.layer = layer /\ r.severity = severity}
<1>1. IsFiniteSet(at)
  BY HitsFinite, FS_Subset
<1>2. Cardinality(at) \in Nat /\ (Cardinality(at) = 0 <=> at = {})
  BY <1>1, FS_CardinalityType, FS_EmptySet
<1>. QED BY <1>2 DEF HitsAt

-----------------------------------------------------------------------------
(* The scores.                                                             *)

\* Scores are natural numbers, and a rule that fired leaves its layer a score.
LEMMA RawFacts ==
  ASSUME NEW m, Plausible(m)
  PROVE  /\ Raw(m, Hits(m)) \in Scored
         /\ \A r \in Hits(m) : Raw(m, Hits(m))[r.layer] > 0
<1>1. \A layer \in AttributableLayers : m.learned[layer] \in Nat
  BY LadderAssumption DEF Plausible, Measurement
<1>2. \A layer \in AttributableLayers : RuleScore(Hits(m), layer) \in Nat
  BY HitsAtFacts DEF RuleScore
<1>3. \A r \in Hits(m) : RuleScore(Hits(m), r.layer) > 0
  <2> TAKE r \in Hits(m)
  <2>1. r.severity \in Severities
    BY HitFacts
  <2>2. HitsAt(Hits(m), r.layer, r.severity) > 0
    BY HitsAtFacts
  <2>. QED BY <2>1, <2>2, HitsAtFacts DEF RuleScore, Severities
<1>4. \A r \in Hits(m) : (r.layer = "vpn" => m.vpn) /\ (r.layer = "wifi" => m.wifi)
  BY HitFacts DEF Plausible
<1>5. \A r \in Hits(m) : r.layer \in AttributableLayers
  BY HitFacts
<1>. QED BY <1>1, <1>2, <1>3, <1>4, <1>5 DEF Raw, Scored

\* The layers before each layer of the chain.
LEMMA BeforeFacts ==
  /\ Before("wifi") = {}
  /\ Before("os") = {"wifi"}
  /\ Before("gateway") = {"wifi", "os"}
  /\ Before("path") = {"wifi", "os", "gateway"}
  /\ Before("remote_https") = {"wifi", "os", "gateway", "path"}
BY DEF Before, Chain, Place, AttributableLayers

\* The worst score before a layer of the chain.
LEMMA WorstBefore ==
  ASSUME NEW raw \in Scored, NEW l \in Chain
  PROVE  LET worst == Largest({raw[k] : k \in Before(l)})
         IN  /\ worst \in Nat
             /\ worst = 0 \/ \E k \in Before(l) : worst = raw[k]
             /\ \A k \in Before(l) : raw[k] <= worst
<1> DEFINE scores == {raw[k] : k \in Before(l)}
<1>1. /\ raw["wifi"] \in Nat /\ raw["os"] \in Nat
      /\ raw["gateway"] \in Nat /\ raw["path"] \in Nat
  BY DEF Scored, AttributableLayers
<1>2. \/ scores = {} \/ scores = {raw["wifi"]} \/ scores = {raw["wifi"], raw["os"]}
      \/ scores = {raw["wifi"], raw["os"], raw["gateway"]}
      \/ scores = {raw["wifi"], raw["os"], raw["gateway"], raw["path"]}
  BY BeforeFacts DEF Chain
<1>3. HasLargest(scores)
  <2> HIDE DEF scores
  <2>1. /\ HasLargest({}) /\ HasLargest({raw["wifi"]}) /\ HasLargest({raw["wifi"], raw["os"]})
        /\ HasLargest({raw["wifi"], raw["os"], raw["gateway"]})
        /\ HasLargest({raw["wifi"], raw["os"], raw["gateway"], raw["path"]})
    BY <1>1, FewHaveLargest
  <2>. QED BY <1>2, <2>1
<1>4. /\ Largest(scores) \in scores \cup {0} /\ Largest(scores) \in Nat
      /\ \A k \in scores : k <= Largest(scores)
  BY <1>3, LargestFacts
<1>. QED BY <1>4

\* What dampening leaves of each layer.
LEMMA DampenFacts ==
  ASSUME NEW raw \in Scored
  PROVE  /\ Dampen(raw) \in Scored
         /\ \A l \in Chain :
              Dampen(raw)[l] = NonNegative(4 * raw[l] - 3 * Largest({raw[k] : k \in Before(l)}))
         /\ raw["wifi"] = 0 /\ raw["gateway"] = 0 => Dampen(raw)["dns"] = 4 * raw["dns"]
         /\ raw["path"] = 0 => Dampen(raw)["vpn"] = 4 * raw["vpn"]
<1>1. \A l \in AttributableLayers : raw[l] \in Nat
  BY DEF Scored
<1>2. \A l \in Chain : Largest({raw[k] : k \in Before(l)}) \in Nat
  BY WorstBefore
<1>3. /\ Largest({raw["wifi"], raw["gateway"]}) \in Nat
      /\ Largest({raw["wifi"], raw["gateway"]}) \in {raw["wifi"], raw["gateway"], 0}
  <2>1. HasLargest({raw["wifi"], raw["gateway"]})
    BY <1>1, FewHaveLargest DEF AttributableLayers
  <2>. QED BY <2>1, LargestFacts
<1>4. \A l \in Chain :
        Dampen(raw)[l] = NonNegative(4 * raw[l] - 3 * Largest({raw[k] : k \in Before(l)}))
  BY DEF Dampen, Chain, AttributableLayers
<1>5. /\ Dampen(raw)["dns"] = NonNegative(4 * raw["dns"] - 2 * Largest({raw["wifi"], raw["gateway"]}))
      /\ Dampen(raw)["vpn"] = NonNegative(4 * raw["vpn"] - 3 * raw["path"])
  BY DEF Dampen, AttributableLayers
<1>6. \A l \in AttributableLayers : Dampen(raw)[l] \in Nat
  BY <1>1, <1>2, <1>3, <1>4, <1>5 DEF NonNegative, AttributableLayers, Chain
<1>7. Dampen(raw) \in Scored
  BY <1>6 DEF Dampen, Scored
<1>. QED BY <1>1, <1>3, <1>4, <1>5, <1>7 DEF NonNegative, AttributableLayers

\* Votes only add.
LEMMA VotedFacts ==
  ASSUME NEW m \in Measurement, NEW excess \in Scored
  PROVE  /\ Voted(m, excess) \in Scored
         /\ \A l \in AttributableLayers : excess[l] <= Voted(m, excess)[l]
         /\ m.votes = {} => Voted(m, excess) = excess
<1>1. \A l \in AttributableLayers : Vote(m, l) \in Nat
  BY DEF Vote, AttributableLayers, Measurement
<1>2. m.votes = {} => \A l \in AttributableLayers : Vote(m, l) = 0
  BY DEF Vote, Tunnelled
<1>. QED BY <1>1, <1>2 DEF Voted, Scored

\* Muting takes the score of the suppressed layers and of no other.
LEMMA MutedFacts ==
  ASSUME NEW hits, NEW excess \in Scored
  PROVE  /\ Muted(hits, excess) \in Scored
         /\ \A l \in AttributableLayers : Muted(hits, excess)[l]
                = IF l \in Suppressed(hits) THEN 0 ELSE excess[l]
BY DEF Muted, Scored

-----------------------------------------------------------------------------
(* The layer to blame.                                                     *)

\* Places tell layers apart.
LEMMA PlaceFacts ==
  /\ \A l \in AttributableLayers : Place[l] \in Nat
  /\ \A l, k \in AttributableLayers : Place[l] = Place[k] => l = k
BY DEF Place, AttributableLayers

\* Whoever leads a set of layers, the leader or a newcomer leads both together.
LEMMA LeaderOfMore ==
  ASSUME NEW e \in Scored, NEW S \in SUBSET AttributableLayers, NEW x \in AttributableLayers,
         \E l \in S : \A k \in S : Ahead(e, l, k)
  PROVE  \E l \in S \cup {x} : \A k \in S \cup {x} : Ahead(e, l, k)
<1>1. PICK l \in S : \A k \in S : Ahead(e, l, k)
  OBVIOUS
<1>2. \A k \in AttributableLayers : e[k] \in Nat /\ Place[k] \in Nat
  BY PlaceFacts DEF Scored
<1>3. CASE Ahead(e, l, x)
  BY <1>1, <1>3
<1>4. CASE ~Ahead(e, l, x)
  <2>1. Ahead(e, x, l)
    BY <1>2, <1>4 DEF Ahead
  <2>2. \A k \in S : Ahead(e, x, k)
    BY <1>1, <1>2, <2>1 DEF Ahead
  <2>3. Ahead(e, x, x)
    BY <1>2 DEF Ahead
  <2>. QED BY <2>2, <2>3
<1>. QED BY <1>3, <1>4

\* Some layer leads all.
LEMMA SomeoneLeads ==
  ASSUME NEW e \in Scored
  PROVE  \E l \in AttributableLayers : \A k \in AttributableLayers : Ahead(e, l, k)
<1> DEFINE Led(S) == \E l \in S : \A k \in S : Ahead(e, l, k)
<1>1. \A k \in AttributableLayers : e[k] \in Nat /\ Place[k] \in Nat
  BY PlaceFacts DEF Scored
<1>2. Led({"wifi"})
  BY <1>1 DEF Ahead, AttributableLayers
<1>3. \A S \in SUBSET AttributableLayers, x \in AttributableLayers : Led(S) => Led(S \cup {x})
  BY LeaderOfMore
<1> HIDE DEF Led
<1>4. Led({"wifi", "os"})
  <2>1. {"wifi", "os"} = {"wifi"} \cup {"os"}
    OBVIOUS
  <2>. QED BY <1>2, <1>3, <2>1 DEF AttributableLayers
<1>5. Led({"wifi", "os", "dns"})
  <2>1. {"wifi", "os", "dns"} = {"wifi", "os"} \cup {"dns"}
    OBVIOUS
  <2>. QED BY <1>3, <1>4, <2>1 DEF AttributableLayers
<1>6. Led({"wifi", "os", "dns", "gateway"})
  <2>1. {"wifi", "os", "dns", "gateway"} = {"wifi", "os", "dns"} \cup {"gateway"}
    OBVIOUS
  <2>. QED BY <1>3, <1>5, <2>1 DEF AttributableLayers
<1>7. Led({"wifi", "os", "dns", "gateway", "path"})
  <2>1. {"wifi", "os", "dns", "gateway", "path"} = {"wifi", "os", "dns", "gateway"} \cup {"path"}
    OBVIOUS
  <2>. QED BY <1>3, <1>6, <2>1 DEF AttributableLayers
<1>8. Led(AttributableLayers \ {"vpn"})
  <2>1. AttributableLayers \ {"vpn"}
          = {"wifi", "os", "dns", "gateway", "path"} \cup {"remote_https"}
    BY DEF AttributableLayers
  <2>. QED BY <1>3, <1>7, <2>1 DEF AttributableLayers
<1>9. Led(AttributableLayers)
  <2>1. AttributableLayers = (AttributableLayers \ {"vpn"}) \cup {"vpn"}
    BY DEF AttributableLayers
  <2>. QED BY <1>3, <1>8, <2>1 DEF AttributableLayers
<1>. QED BY <1>9 DEF Led

\* The layer to blame has a score, and no layer has a better claim.
LEMMA PrimaryFacts ==
  ASSUME NEW e \in Scored
  PROVE  \/ Primary(e) = NoLayer /\ \A l \in AttributableLayers : e[l] = 0
         \/ /\ Primary(e) \in AttributableLayers /\ Primary(e) # NoLayer
            /\ e[Primary(e)] > 0
            /\ \A k \in AttributableLayers : Ahead(e, Primary(e), k)
<1>1. CASE e = [l \in AttributableLayers |-> 0]
  BY <1>1 DEF Primary
<1>2. CASE e # [l \in AttributableLayers |-> 0]
  <2>1. PICK l \in AttributableLayers : e[l] > 0
    BY <1>2 DEF Scored
  <2>2. /\ Primary(e) \in AttributableLayers
        /\ \A k \in AttributableLayers : Ahead(e, Primary(e), k)
    BY <1>2, SomeoneLeads, Zenon DEF Primary
  <2>3. e[Primary(e)] >= e[l]
    BY <2>2 DEF Ahead, Scored
  <2>4. Primary(e) # NoLayer
    BY <2>2, ScorerAssumption, LadderAssumption
  <2>. QED BY <2>1, <2>2, <2>3, <2>4 DEF Scored
<1>. QED BY <1>1, <1>2

-----------------------------------------------------------------------------
(* One measurement.                                                        *)

\* What attribution works with is well typed.
LEMMA ScoresFacts ==
  ASSUME NEW m, Plausible(m)
  PROVE  LET raw    == Raw(m, Hits(m))
             scores == Scores(m, Hits(m))
         IN  /\ scores \in Scored
             /\ \A l \in Suppressed(Hits(m)) \cap AttributableLayers : scores[l] = 0
             /\ \A l \in AttributableLayers \ Suppressed(Hits(m)) :
                  /\ Dampen(raw)[l] <= scores[l]
                  /\ m.votes = {} => scores[l] = Dampen(raw)[l]
<1> DEFINE raw == Raw(m, Hits(m))
<1>1. m \in Measurement /\ raw \in Scored
  BY RawFacts DEF Plausible
<1> HIDE DEF raw
<1>2. Dampen(raw) \in Scored
  BY <1>1, DampenFacts
<1> DEFINE voted == Voted(m, Dampen(raw))
<1>3. /\ voted \in Scored
      /\ \A l \in AttributableLayers : Dampen(raw)[l] <= voted[l]
      /\ m.votes = {} => voted = Dampen(raw)
  BY <1>1, <1>2, VotedFacts
<1>4. Scores(m, Hits(m)) = Muted(Hits(m), voted)
  BY DEF Scores, raw
<1> HIDE DEF voted
<1>5. /\ Muted(Hits(m), voted) \in Scored
      /\ \A l \in AttributableLayers : Muted(Hits(m), voted)[l]
                = IF l \in Suppressed(Hits(m)) THEN 0 ELSE voted[l]
  BY <1>3, MutedFacts
<1>. QED BY <1>3, <1>4, <1>5 DEF raw

\* A sign-in page suppresses every layer but its own.
LEMMA PortalSuppresses ==
  ASSUME NEW m, m.captive
  PROVE  AttributableLayers \ {"dns"} \subseteq Suppressed(Hits(m))
<1> DEFINE portal == Rule("captive_portal", "dns", Critical, AttributableLayers, 90)
<1>1. portal \in Hits(m)
  BY DEF Hits, When
<1>2. portal.layer = "dns" /\ portal.suppresses = AttributableLayers
  BY DEF Rule
<1>. QED BY <1>1, <1>2 DEF Suppressed

\* Without a sign-in page only the far side of a dead router or resolver is
\* suppressed, and that router or resolver has a score of its own.
LEMMA SuppressedFacts ==
  ASSUME NEW m, ~m.captive
  PROVE  /\ Suppressed(Hits(m)) \subseteq {"path", "remote_https", "dns"}
         /\ Suppressed(Hits(m)) \cap {"path", "dns"} # {}
              => \E r \in Hits(m) : r.layer = "gateway"
         /\ Suppressed(Hits(m)) # {} => \E r \in Hits(m) : r.layer \in {"gateway", "dns"}
BY HitFacts DEF Suppressed

\* Without a sign-in page, a rule that fired leaves somebody a score.
LEMMA SomeoneScores ==
  ASSUME NEW m, Plausible(m), ~m.captive, Hits(m) # {}
  PROVE  \E l \in AttributableLayers : Scores(m, Hits(m))[l] > 0
<1> DEFINE raw == Raw(m, Hits(m))
           scores == Scores(m, Hits(m))
           worst(l) == Largest({raw[k] : k \in Before(l)})
<1>1. raw \in Scored /\ \A r \in Hits(m) : raw[r.layer] > 0
  BY RawFacts
<1>2. /\ scores \in Scored
      /\ \A l \in AttributableLayers \ Suppressed(Hits(m)) : Dampen(raw)[l] <= scores[l]
  BY ScoresFacts
<1> SUFFICES \E l \in AttributableLayers : scores[l] > 0
  OBVIOUS
<1> HIDE DEF raw, scores
<1>3. \A l \in AttributableLayers :
        raw[l] \in Nat /\ Dampen(raw)[l] \in Nat /\ scores[l] \in Nat
  BY <1>1, <1>2, DampenFacts DEF Scored
<1>4. \A l \in Chain : Dampen(raw)[l] = NonNegative(4 * raw[l] - 3 * worst(l))
  BY <1>1, DampenFacts
<1>5. \A l \in Chain : worst(l) \in Nat /\ (worst(l) = 0 \/ \E k \in Before(l) : worst(l) = raw[k])
  BY <1>1, WorstBefore
<1> HIDE DEF worst
\* The first layer of the chain in trouble has its whole score left.
<1>6. ASSUME NEW l \in Chain, raw[l] > 0, \A k \in Before(l) : raw[k] = 0
      PROVE  Dampen(raw)[l] > 0
  <2>1. worst(l) = 0
    BY <1>5, <1>6
  <2>. QED BY <1>3, <1>4, <1>6, <2>1 DEF NonNegative, Chain, AttributableLayers
<1>7. CASE \E l \in {"wifi", "os", "gateway"} : raw[l] > 0
  <2>1. \E l \in {"wifi", "os", "gateway"} : Dampen(raw)[l] > 0
    BY <1>3, <1>6, <1>7, BeforeFacts DEF Chain, AttributableLayers
  <2>2. Suppressed(Hits(m)) \cap {"wifi", "os", "gateway"} = {}
    BY SuppressedFacts
  <2>. QED BY <1>2, <1>3, <2>1, <2>2 DEF AttributableLayers
<1>8. CASE /\ raw["wifi"] = 0 /\ raw["os"] = 0 /\ raw["gateway"] = 0
           /\ \E r \in Hits(m) : r.layer = "dns"
  <2>1. Dampen(raw)["dns"] = 4 * raw["dns"] /\ raw["dns"] > 0
    BY <1>1, <1>8, DampenFacts
  <2>2. "dns" \notin Suppressed(Hits(m))
    BY <1>1, <1>8, SuppressedFacts
  <2>. QED BY <1>2, <1>3, <2>1, <2>2 DEF AttributableLayers
<1>9. CASE /\ raw["wifi"] = 0 /\ raw["os"] = 0 /\ raw["gateway"] = 0
           /\ ~ \E r \in Hits(m) : r.layer = "dns"
  <2>1. Suppressed(Hits(m)) = {}
    BY <1>1, <1>9, SuppressedFacts
  <2>2. CASE raw["path"] > 0
    <3>1. Dampen(raw)["path"] > 0
      BY <1>6, <1>9, <2>2, BeforeFacts DEF Chain
    <3>. QED BY <1>2, <1>3, <2>1, <3>1 DEF AttributableLayers
  <2>3. CASE raw["path"] = 0
    <3>1. \E r \in Hits(m) : r.layer \in {"remote_https", "vpn"}
      BY <1>1, <1>9, <2>3, HitFacts DEF AttributableLayers
    <3>2. raw["remote_https"] > 0 \/ raw["vpn"] > 0
      BY <1>1, <3>1
    <3>3. raw["remote_https"] > 0 => Dampen(raw)["remote_https"] > 0
      BY <1>6, <1>9, <2>3, BeforeFacts DEF Chain
    <3>4. Dampen(raw)["vpn"] = 4 * raw["vpn"]
      BY <1>1, <2>3, DampenFacts
    <3>. QED BY <1>2, <1>3, <2>1, <3>2, <3>3, <3>4 DEF AttributableLayers
  <2>. QED BY <1>3, <2>2, <2>3 DEF AttributableLayers
<1>. QED BY <1>3, <1>7, <1>8, <1>9 DEF AttributableLayers

\* Whoever is blamed is not suppressed.
LEMMA BlamedIsAllowed ==
  ASSUME NEW m, Plausible(m), Primary(Scores(m, Hits(m))) # NoLayer
  PROVE  Primary(Scores(m, Hits(m))) \notin Suppressed(Hits(m))
<1> DEFINE scores == Scores(m, Hits(m))
<1>1. /\ scores \in Scored
      /\ \A l \in Suppressed(Hits(m)) \cap AttributableLayers : scores[l] = 0
  BY ScoresFacts
<1>2. Primary(scores) # NoLayer
  OBVIOUS
<1> HIDE DEF scores
<1>3. Primary(scores) \in AttributableLayers /\ scores[Primary(scores)] > 0
  BY <1>1, <1>2, PrimaryFacts
<1>. QED BY <1>1, <1>3 DEF scores

\* With the ratios silent, the blame in the chain goes where the trouble begins.
LEMMA BlameBegins ==
  ASSUME NEW m, Plausible(m), m.votes = {}, NEW p \in Chain,
         p = Primary(Scores(m, Hits(m))), NEW l \in Before(p)
  PROVE  LET raw == Raw(m, Hits(m))
         IN  /\ raw[l] < raw[p]
             /\ raw[l] > 0 /\ (\A k \in Before(l) : raw[k] = 0) => 7 * raw[l] < 4 * raw[p]
<1> DEFINE raw == Raw(m, Hits(m))
           scores == Scores(m, Hits(m))
           worst(k) == Largest({raw[j] : j \in Before(k)})
<1> SUFFICES /\ raw[l] < raw[p]
             /\ raw[l] > 0 /\ (\A k \in Before(l) : raw[k] = 0) => 7 * raw[l] < 4 * raw[p]
  OBVIOUS
<1>1. raw \in Scored
  BY RawFacts
<1>2. /\ scores \in Scored
      /\ \A k \in Suppressed(Hits(m)) \cap AttributableLayers : scores[k] = 0
      /\ \A k \in AttributableLayers \ Suppressed(Hits(m)) : scores[k] = Dampen(raw)[k]
  BY ScoresFacts
<1>3. p = Primary(scores)
  OBVIOUS
<1> HIDE DEF raw, scores
<1>4. scores[p] > 0 /\ \A k \in AttributableLayers : Ahead(scores, p, k)
  BY <1>2, <1>3, PrimaryFacts, ScorerAssumption, LadderAssumption DEF Chain, AttributableLayers
<1>5. \A k \in AttributableLayers : raw[k] \in Nat /\ scores[k] \in Nat
  BY <1>1, <1>2 DEF Scored
<1>6. p \notin Suppressed(Hits(m))
  BY <1>2, <1>4, <1>5 DEF Chain, AttributableLayers
\* A layer before it that is suppressed would suppress it too.
<1>7. \A k \in Before(p) : k \notin Suppressed(Hits(m))
  <2>1. ~m.captive
    BY <1>6, PortalSuppresses DEF Chain, AttributableLayers
  <2> SUFFICES ASSUME NEW k \in Before(p), NEW r \in Hits(m), k \in r.suppresses, k # r.layer
               PROVE  FALSE
    BY DEF Suppressed
  <2>2. k = "path" /\ p = "remote_https"
    BY <2>1, BeforeFacts, HitFacts DEF Chain
  <2>3. p \in r.suppresses /\ p # r.layer
    BY <2>1, <2>2, HitFacts
  <2>. QED BY <1>6, <2>3 DEF Suppressed
<1>8. \A k \in Before(p) : scores[p] > Dampen(raw)[k]
  BY <1>2, <1>4, <1>5, <1>7 DEF Ahead, Before, Chain, Place, AttributableLayers
<1>9. \A k \in Chain : /\ Dampen(raw)[k] = NonNegative(4 * raw[k] - 3 * worst(k))
                       /\ worst(k) \in Nat
                       /\ worst(k) = 0 \/ \E j \in Before(k) : worst(k) = raw[j]
                       /\ \A j \in Before(k) : raw[j] <= worst(k)
  BY <1>1, DampenFacts, WorstBefore
<1> HIDE DEF worst
<1>10. p \in AttributableLayers /\ l \in Chain /\ Before(p) \subseteq Chain /\ Chain \subseteq AttributableLayers
  BY DEF Before, Chain, AttributableLayers
<1>11. scores[p] = 4 * raw[p] - 3 * worst(p)
  BY <1>2, <1>4, <1>5, <1>6, <1>9, <1>10 DEF NonNegative
\* The worst layer before it, if there is trouble at all, has not been dampened below it.
<1>12. worst(p) > 0 => \E k \in Before(p) : raw[k] = worst(p) /\ worst(k) < raw[k]
  <2> SUFFICES ASSUME worst(p) > 0
               PROVE  \E k \in Before(p) : raw[k] = worst(p) /\ worst(k) < raw[k]
    OBVIOUS
  <2>1. \A k \in Before(p) : \A j \in Before(k) : j \in Before(p)
    BY BeforeFacts DEF Chain
  <2>2. \A j \in Before(p) : raw[j] \in Nat /\ raw[j] <= worst(p)
    BY <1>5, <1>9, <1>10
  <2>3. worst(p) \in Nat /\ \E j \in Before(p) : raw[j] = worst(p)
    BY <1>9, <1>10
  <2> DEFINE Top(k) == k \in Before(p) /\ raw[k] = worst(p)
  <2>4. \E k \in Before(p) : Top(k) /\ \A j \in Before(k) : ~Top(j)
    <3>1. Top("wifi") \/ Top("os") \/ Top("gateway") \/ Top("path")
      BY <2>3, BeforeFacts DEF Chain
    <3> HIDE DEF Top
    <3>2. \A k : Top(k) => k \in Before(p)
      BY DEF Top
    <3>. QED BY <3>1, <3>2, BeforeFacts
  <2>5. PICK k \in Before(p) : Top(k) /\ \A j \in Before(k) : ~Top(j)
    BY <2>4
  <2>6. \A j \in Before(k) : raw[j] < raw[k]
    BY <2>1, <2>2, <2>3, <2>5
  <2>7. worst(k) \in Nat /\ (worst(k) = 0 \/ \E j \in Before(k) : worst(k) = raw[j])
    BY <1>9, <1>10
  <2>. QED BY <2>3, <2>5, <2>6, <2>7
<1>13. raw[l] < raw[p]
  <2>1. CASE worst(p) = 0
    BY <1>4, <1>5, <1>9, <1>10, <1>11, <2>1
  <2>2. CASE worst(p) > 0
    <3>1. PICK k \in Before(p) : raw[k] = worst(p) /\ worst(k) < raw[k]
      BY <1>12, <2>2
    <3>2. Dampen(raw)[k] = 4 * raw[k] - 3 * worst(k)
      BY <1>5, <1>9, <1>10, <3>1 DEF NonNegative
    <3>. QED BY <1>5, <1>8, <1>9, <1>10, <1>11, <3>1, <3>2
  <2>. QED BY <1>9, <2>1, <2>2
<1>14. ASSUME raw[l] > 0, \A k \in Before(l) : raw[k] = 0 PROVE 7 * raw[l] < 4 * raw[p]
  <2>1. worst(l) = 0
    BY <1>9, <1>10, <1>14
  <2>2. Dampen(raw)[l] = 4 * raw[l]
    BY <1>5, <1>9, <1>10, <2>1 DEF NonNegative
  <2>. QED BY <1>5, <1>8, <1>9, <1>10, <1>11, <2>2
<1>. QED BY <1>13, <1>14

\* What the ladder makes of a measurement is a frame the lifecycle accepts.
LEMMA FrameIsFrame ==
  ASSUME NEW m, Plausible(m)
  PROVE  FrameOf(m) \in Frames
<1> DEFINE band == BandFor(Risk15(m, Hits(m)))
           ranks == {band} \cup {r.severity : r \in Hits(m)}
<1>1. band \in Severity
  BY DEF BandFor, Severity, Info, Watch, Risk, Critical
<1>2. ranks \in SUBSET Severity
  BY <1>1, HitFacts DEF Severities, Severity, Info, Watch, Risk, Critical
<1>3. /\ Largest(ranks) \in ranks \cup {0}
      /\ \A k \in ranks : k <= Largest(ranks)
  BY <1>2, SeveritiesHaveLargest, LargestFacts
<1>4. SeverityOf(band, Hits(m)) = Largest(ranks)
  BY DEF SeverityOf
<1>5. SeverityOf(band, Hits(m)) \in Severity /\ band <= SeverityOf(band, Hits(m))
  BY <1>2, <1>3, <1>4 DEF Severity, Info, Critical
<1>6. Primary(Scores(m, Hits(m))) \in Layers \cup {NoLayer}
  BY ScoresFacts, PrimaryFacts, LadderAssumption
<1>7. m.blind \in BOOLEAN
  BY DEF Plausible, Measurement
<1> HIDE DEF band
<1>8. FrameOf(m) = [risk |-> band, severity |-> SeverityOf(band, Hits(m)),
                    primary |-> Primary(Scores(m, Hits(m))), blind |-> m.blind]
  BY DEF FrameOf, band
<1>. QED BY <1>1, <1>5, <1>6, <1>7, <1>8, LadderAssumption DEF Frames, Frame

-----------------------------------------------------------------------------
(* The behaviours.                                                         *)

\* The frame on display is what the ladder makes of the last measurement.
FrameIsOfMeasured == Plausible(measured) /\ frame = FrameOf(measured)

\* It is at the start,
LEMMA InitScored == LadderInit => FrameIsOfMeasured
BY DEF LadderInit, FrameIsOfMeasured

\* and each measurement brings its own frame.
LEMMA StepScored == FrameIsOfMeasured /\ [LadderNext]_ladderVars => FrameIsOfMeasured'
BY DEF FrameIsOfMeasured, LadderNext, Score, ladderVars

\* So it always is.
LEMMA AlwaysScored == LadderSpec => []FrameIsOfMeasured
BY InitScored, StepScored, PTL DEF LadderSpec

\* The measurements and the frames keep their types, for all learned scores,
\* forecasts and bands.
THEOREM LadderTypeCorrect == LadderSpec => []LadderTypeOK
<1>1. FrameIsOfMeasured => LadderTypeOK
  BY FrameIsFrame DEF FrameIsOfMeasured, LadderTypeOK, Plausible
<1>. QED BY <1>1, AlwaysScored, PTL

\* The ladder drives the incident lifecycle of Scorer, so that all that is proved
\* about it holds of the agent's own frames.
THEOREM LadderImplementsScorer == LadderSpec => Spec
<1>1. LadderInit => Init
  BY DEF LadderInit
<1>2. FrameIsOfMeasured /\ FrameIsOfMeasured' /\ [LadderNext]_ladderVars => [Next]_scorerVars
  <2> SUFFICES ASSUME FrameIsOfMeasured', [LadderNext]_ladderVars PROVE [Next]_scorerVars
    OBVIOUS
  <2>1. CASE LadderNext
    <3>1. frame' \in Frames
      BY FrameIsFrame DEF FrameIsOfMeasured
    <3>. QED BY <2>1, <3>1 DEF LadderNext, Score, Next
  <2>2. CASE UNCHANGED ladderVars
    BY <2>2 DEF ladderVars, scorerVars
  <2>. QED BY <2>1, <2>2
<1>. QED BY <1>1, <1>2, AlwaysScored, PTL DEF LadderSpec, Spec

\* A rule that fired has a layer to blame, whatever the models have learned.
THEOREM ExplainedCorrect == LadderSpec => []RuleIsExplained
<1>1. FrameIsOfMeasured => RuleIsExplained
  <2> SUFFICES ASSUME FrameIsOfMeasured, ~measured.captive, Hits(measured) # {}
               PROVE  frame.primary # NoLayer
    BY DEF RuleIsExplained
  <2>1. \E l \in AttributableLayers : Scores(measured, Hits(measured))[l] > 0
    BY SomeoneScores DEF FrameIsOfMeasured
  <2>2. Primary(Scores(measured, Hits(measured))) # NoLayer
    BY <2>1, ScoresFacts, PrimaryFacts DEF FrameIsOfMeasured
  <2>. QED BY <2>2 DEF FrameIsOfMeasured, FrameOf
<1>. QED BY <1>1, AlwaysScored, PTL

\* The blame goes where the trouble begins.
THEOREM BlameCorrect == LadderSpec => []BlameStopsAtTheWorst
<1>1. FrameIsOfMeasured => BlameStopsAtTheWorst
  <2> SUFFICES ASSUME FrameIsOfMeasured, measured.votes = {}, frame.primary \in Chain,
                      NEW l \in Before(frame.primary)
               PROVE  LET raw == Raw(measured, Hits(measured))
                      IN  /\ raw[l] < raw[frame.primary]
                          /\ raw[l] > 0 /\ (\A k \in Before(l) : raw[k] = 0)
                               => 7 * raw[l] < 4 * raw[frame.primary]
    BY DEF BlameStopsAtTheWorst
  <2>1. frame.primary = Primary(Scores(measured, Hits(measured)))
    BY DEF FrameIsOfMeasured, FrameOf
  <2>. QED BY <2>1, BlameBegins DEF FrameIsOfMeasured
<1>. QED BY <1>1, AlwaysScored, PTL

\* An alerting run without an incident has nobody to blame, and then only a
\* sign-in page or a bare forecast is behind it.
THEOREM UnopenedCorrect == LadderSpec => []AlertGoesUnopened
<1>1. LadderInit => AlertGoesUnopened
  BY ScorerAssumption DEF LadderInit, Init, AlertGoesUnopened
<1>2. TypeOK /\ FrameIsOfMeasured' /\ RuleIsExplained' /\ AlertGoesUnopened /\ [LadderNext]_ladderVars
        => AlertGoesUnopened'
  <2> SUFFICES ASSUME TypeOK, FrameIsOfMeasured', RuleIsExplained', AlertGoesUnopened, [LadderNext]_ladderVars,
                      above' >= OpenAfter, incident' = NoIncident
               PROVE  frame'.primary = NoLayer
    BY DEF AlertGoesUnopened, RuleIsExplained
  <2>1. CASE UNCHANGED ladderVars
    BY <2>1 DEF ladderVars, scorerVars, AlertGoesUnopened
  <2>2. CASE LadderNext
    <3>1. frame' \in Frames
      BY FrameIsFrame DEF FrameIsOfMeasured
    <3>2. frame'.severity \in 0 .. 3 /\ frame'.blind \in BOOLEAN
      BY <3>1 DEF Frames, Frame, Severity, Info, Critical
    <3>3. Observe(frame') /\ above' > 0
      <4>1. Observe(frame')
        BY <2>2 DEF LadderNext, Score
      <4>2. above' \in Nat
        BY <3>1, <4>1, ObserveType DEF TypeOK
      <4>. QED BY <4>1, <4>2, ScorerAssumption
    <3>4. ~BlindFrame(frame')
      BY <3>3 DEF BlindFrame
    <3>5. CountFrame(frame')
      BY <3>3, <3>4 DEF Observe, WatchFrame, OpenIncident, TrackIncident, CloseIncident
    <3>6. above' = Above(frame') /\ Alerting(frame') /\ ~frame'.blind
      BY <3>3, <3>5 DEF CountFrame, Above
    <3>7. ~CloseIncident(frame')
      BY <3>6, ScorerAssumption DEF CloseIncident, Closes, Below
    <3>8. ~OpenIncident(frame')
      BY <3>1, NewIncidentFacts DEF OpenIncident, Opens
    <3>9. ~TrackIncident(frame')
      BY <3>1, EscalateFacts DEF TrackIncident, TypeOK
    <3>10. WatchFrame(frame')
      BY <3>3, <3>4, <3>7, <3>8, <3>9 DEF Observe
    <3>11. ~Explained(frame')
      BY <3>6, <3>10 DEF WatchFrame, Opens
    <3>. QED BY <3>2, <3>6, <3>11 DEF Explained, Alerting, Risk, Watch
  <2>. QED BY <2>1, <2>2
<1>. QED BY <1>1, <1>2, AlwaysScored, ExplainedCorrect, LadderImplementsScorer,
            TypeCorrect, PTL DEF LadderSpec

\* No step names a layer that a rule forbids to blame.
THEOREM SuppressionCorrect == LadderSpec => NeverNamesSuppressed
<1> DEFINE Named ==
      incident' # NoIncident /\ (incident = NoIncident \/ incident'.layer # incident.layer)
        => incident'.layer \notin Suppressed(Hits(measured'))
<1>1. TypeOK /\ FrameIsOfMeasured' /\ [LadderNext]_ladderVars => [Named]_ladderVars
  <2> SUFFICES ASSUME TypeOK, FrameIsOfMeasured', LadderNext,
                      incident' # NoIncident,
                      incident = NoIncident \/ incident'.layer # incident.layer
               PROVE  incident'.layer \notin Suppressed(Hits(measured'))
    OBVIOUS
  <2>1. frame' \in Frames
    BY FrameIsFrame DEF FrameIsOfMeasured
  <2>2. Observe(frame')
    BY DEF LadderNext, Score
  <2>4. incident'.layer = frame'.primary /\ frame'.primary # NoLayer
    <3>1. CASE BlindFrame(frame') \/ WatchFrame(frame') \/ CloseIncident(frame')
      BY <3>1 DEF BlindFrame, WatchFrame, CloseIncident
    <3>2. CASE OpenIncident(frame')
      BY <3>2 DEF OpenIncident, NewIncident, Opens, Explained
    <3>3. CASE TrackIncident(frame')
      <4>1. incident \in Incident /\ incident' = Escalate(incident, frame')
            /\ incident'.layer # incident.layer
        BY <3>3 DEF TrackIncident, TypeOK
      <4>2. Escalate(incident, frame').layer =
              IF frame'.severity > incident.severity /\ Explained(frame')
                THEN frame'.primary ELSE incident.layer
        BY <4>1 DEF Escalate, Incident
      <4>. QED BY <4>1, <4>2 DEF Explained
    <3>. QED BY <2>2, <3>1, <3>2, <3>3 DEF Observe
  <2>5. frame'.primary = Primary(Scores(measured', Hits(measured')))
    BY DEF FrameIsOfMeasured, FrameOf
  <2>6. /\ Plausible(measured')
        /\ Primary(Scores(measured', Hits(measured'))) # NoLayer
    BY <2>4, <2>5 DEF FrameIsOfMeasured
  <2>. QED BY <2>4, <2>5, <2>6, BlamedIsAllowed
<1>. QED BY <1>1, AlwaysScored, LadderImplementsScorer, TypeCorrect, PTL
         DEF LadderSpec, NeverNamesSuppressed

-----------------------------------------------------------------------------
(***************************************************************************)
(* The card of an incident, for any details of the measurements: among the *)
(* templates of a layer one goes before all others that hold, a template   *)
(* of its own before the vague one, and whatever a rule needs to fire is   *)
(* enough for such a template.                                             *)
(***************************************************************************)

\* Where one template goes before all others that hold, select finds it.
Selectable(templates) ==
  \E t \in templates : t.holds /\ \A u \in templates : u.holds => GoesBefore(t, u)

\* What select returns holds and goes before everything that holds.
LEMMA SelectFacts ==
  ASSUME NEW templates, Selectable(templates)
  PROVE  /\ Select(templates) \in templates /\ Select(templates).holds
         /\ \A u \in templates : u.holds => GoesBefore(Select(templates), u)
BY Zenon DEF Selectable, Select

\* A template that holds is selected, if only itself goes before it.
LEMMA FirstWins ==
  ASSUME NEW templates, Selectable(templates), NEW u \in templates, u.holds,
         \A t \in templates : GoesBefore(t, u) => t.id = u.id
  PROVE  Select(templates).id = u.id
BY SelectFacts

\* In every layer some template holds and goes before the others that do.
LEMMA WifiSelectable ==
  ASSUME NEW m, NEW d \in Detail
  PROVE  Selectable(WifiTemplates(m, d))
<1>. DEFINE floor == Template("wifi.signal_floor", 3, m.rssi > 0)
            interference == Template("wifi.interference", 4, d.retry = 2 /\ d.clear)
            crowded == Template("wifi.crowded_24", 5, d.crowded /\ d.retry > 0)
            roaming == Template("wifi.roaming", 4, d.roamed)
            collapse == Template("wifi.rate_collapse", 2, d.slowLink)
            generic == Template("wifi.generic", 0, TRUE)
            all == {floor, interference, crowded, roaming, collapse, generic}
<1>1. all = WifiTemplates(m, d)
  BY Zenon DEF WifiTemplates
<1>2. /\ floor.id = "wifi.signal_floor" /\ floor.specificity = 3
      /\ interference.id = "wifi.interference" /\ interference.specificity = 4
      /\ crowded.id = "wifi.crowded_24" /\ crowded.specificity = 5
      /\ roaming.id = "wifi.roaming" /\ roaming.specificity = 4
      /\ collapse.id = "wifi.rate_collapse" /\ collapse.specificity = 2
      /\ generic.id = "wifi.generic" /\ generic.specificity = 0 /\ generic.holds
  BY DEF Template
<1>. HIDE DEF floor, interference, crowded, roaming, collapse, generic
<1>3. CASE crowded.holds
  BY <1>1, <1>2, <1>3 DEF Selectable, GoesBefore
<1>4. CASE ~crowded.holds /\ interference.holds
  BY <1>1, <1>2, <1>4 DEF Selectable, GoesBefore, Earlier
<1>5. CASE ~crowded.holds /\ ~interference.holds /\ roaming.holds
  BY <1>1, <1>2, <1>5 DEF Selectable, GoesBefore
<1>6. CASE ~crowded.holds /\ ~interference.holds /\ ~roaming.holds /\ floor.holds
  BY <1>1, <1>2, <1>6 DEF Selectable, GoesBefore
<1>7. CASE /\ ~crowded.holds /\ ~interference.holds /\ ~roaming.holds /\ ~floor.holds
           /\ collapse.holds
  BY <1>1, <1>2, <1>7 DEF Selectable, GoesBefore
<1>8. CASE /\ ~crowded.holds /\ ~interference.holds /\ ~roaming.holds /\ ~floor.holds
           /\ ~collapse.holds
  BY <1>1, <1>2, <1>8 DEF Selectable, GoesBefore
<1>. QED BY <1>3, <1>4, <1>5, <1>6, <1>7, <1>8

\* Three templates, the last of which always holds, in the order of specificity.
LEMMA ThreeSelectable ==
  ASSUME NEW t, NEW u, NEW v, v.holds,
         t.specificity \in Nat, u.specificity \in Nat, v.specificity \in Nat,
         v.specificity < t.specificity, v.specificity < u.specificity,
         GoesBefore(t, u)
  PROVE  Selectable({t, u, v})
<1>1. CASE t.holds
  BY <1>1 DEF Selectable, GoesBefore
<1>2. CASE ~t.holds /\ u.holds
  BY <1>2 DEF Selectable, GoesBefore
<1>3. CASE ~t.holds /\ ~u.holds
  BY <1>3 DEF Selectable, GoesBefore
<1>. QED BY <1>1, <1>2, <1>3

\* The templates of the name servers.
LEMMA DnsSelectable == ASSUME NEW m PROVE Selectable(DnsTemplates(m))
<1>. DEFINE t == Template("dns.captive_portal", 9, m.captive)
            u == Template("dns.failing", 5, m.dnsFail > 0)
            v == Template("dns.slow", 1, TRUE)
<1>1. DnsTemplates(m) = {t, u, v}
  BY Zenon DEF DnsTemplates
<1>2. /\ v.holds /\ t.specificity \in Nat /\ u.specificity \in Nat /\ v.specificity \in Nat
      /\ v.specificity < t.specificity /\ v.specificity < u.specificity
      /\ GoesBefore(t, u)
  BY DEF Template, GoesBefore
<1>. HIDE DEF t, u, v
<1>. QED BY <1>1, <1>2, ThreeSelectable

\* Those of the router.
LEMMA GatewaySelectable == ASSUME NEW m, NEW d PROVE Selectable(GatewayTemplates(m, d))
<1>. DEFINE t == Template("gateway.unreachable", 9, m.loss = 2)
            u == Template("gateway.loss", 5, d.lossy)
            v == Template("gateway.congestion", 1, TRUE)
<1>1. GatewayTemplates(m, d) = {t, u, v}
  BY Zenon DEF GatewayTemplates
<1>2. /\ v.holds /\ t.specificity \in Nat /\ u.specificity \in Nat /\ v.specificity \in Nat
      /\ v.specificity < t.specificity /\ v.specificity < u.specificity
      /\ GoesBefore(t, u)
  BY DEF Template, GoesBefore
<1>. HIDE DEF t, u, v
<1>. QED BY <1>1, <1>2, ThreeSelectable

\* Those of the far end.
LEMMA RemoteSelectable == ASSUME NEW d PROVE Selectable(RemoteTemplates(d))
<1>. DEFINE t == Template("remote.unreachable", 6, d.halfFail)
            u == Template("remote.tls_slow", 4, d.slowTls)
            v == Template("remote.service_slow", 1, TRUE)
<1>1. RemoteTemplates(d) = {t, u, v}
  BY Zenon DEF RemoteTemplates
<1>2. /\ v.holds /\ t.specificity \in Nat /\ u.specificity \in Nat /\ v.specificity \in Nat
      /\ v.specificity < t.specificity /\ v.specificity < u.specificity
      /\ GoesBefore(t, u)
  BY DEF Template, GoesBefore
<1>. HIDE DEF t, u, v
<1>. QED BY <1>1, <1>2, ThreeSelectable

\* Those of the machine; two are equally specific and the first of them goes first.
LEMMA OsSelectable == ASSUME NEW d PROVE Selectable(OsTemplates(d))
<1>. DEFINE t == Template("os.retransmissions", 4, d.resends)
            u == Template("os.resource_pressure", 4, d.busy)
            v == Template("os.generic", 0, TRUE)
<1>1. OsTemplates(d) = {t, u, v}
  BY Zenon DEF OsTemplates
<1>2. /\ v.holds /\ t.specificity \in Nat /\ u.specificity \in Nat /\ v.specificity \in Nat
      /\ v.specificity < t.specificity /\ v.specificity < u.specificity
      /\ GoesBefore(t, u)
  BY DEF Template, GoesBefore, Earlier
<1>. HIDE DEF t, u, v
<1>. QED BY <1>1, <1>2, ThreeSelectable

\* The rules of a layer, by what they measure.
LEMMA RulesOfLayer ==
  ASSUME NEW m, NEW r \in Hits(m)
  PROVE  /\ r.layer = "wifi" => \/ m.rssi > 0 /\ r.id \in {"wifi_signal_floor", "wifi_signal_weak"}
                                \/ r.id = "wifi_retries"
         /\ r.layer = "dns" => \/ m.captive /\ r.id = "captive_portal"
                               \/ m.dnsFail = 3 /\ r.id = "dns_blackhole" /\ r.severity = Critical
                               \/ m.dnsFail = 2 /\ r.id = "dns_failures" /\ r.severity = Risk
         /\ r.layer = "gateway" => \/ m.loss = 2 /\ r.id = "gateway_unreachable" /\ r.severity = Critical
                                   \/ m.loss = 1 /\ r.id = "gateway_loss" /\ r.severity = Risk
         /\ r.layer = "remote_https" => m.httpsFail /\ r.id = "remote_unreachable" /\ r.severity = Critical
         /\ r.layer \in {"os", "vpn"} => m.retrans = 2 /\ r.id = "tcp_retransmissions" /\ r.severity = Watch
         /\ r.layer \in {"wifi", "dns", "gateway", "remote_https", "os", "vpn"}
         /\ r.severity \in {Watch, Risk, Critical}
BY DEF Hits, When, Rule, Retransmitter

\* The rules that fire whenever what they look at is there.
LEMMA RulesThatFire ==
  ASSUME NEW m
  PROVE  /\ m.captive => \E r \in Hits(m) : r.id = "captive_portal" /\ r.layer = "dns" /\ r.severity = Critical
         /\ m.rssi = 2 => \E r \in Hits(m) : r.id = "wifi_signal_floor" /\ r.layer = "wifi"
         /\ m.rssi = 1 => \E r \in Hits(m) : r.id = "wifi_signal_weak" /\ r.layer = "wifi"
<1>. DEFINE portal == Rule("captive_portal", "dns", Critical, AttributableLayers, 90)
            floor == Rule("wifi_signal_floor", "wifi", Risk, {}, 55)
            weak == Rule("wifi_signal_weak", "wifi", Watch, {}, 0)
<1>1. /\ When(m.captive, portal) \subseteq Hits(m)
      /\ When(m.rssi = 2, floor) \subseteq Hits(m)
      /\ When(m.rssi = 1, weak) \subseteq Hits(m)
  BY Zenon DEF Hits
<1>2. /\ m.captive => portal \in Hits(m)
      /\ m.rssi = 2 => floor \in Hits(m)
      /\ m.rssi = 1 => weak \in Hits(m)
  BY <1>1, Zenon DEF When
<1>3. /\ portal.id = "captive_portal" /\ portal.layer = "dns" /\ portal.severity = Critical
      /\ floor.id = "wifi_signal_floor" /\ floor.layer = "wifi"
      /\ weak.id = "wifi_signal_weak" /\ weak.layer = "wifi"
  BY DEF Rule
<1>. HIDE DEF portal, floor, weak
<1>. QED BY <1>2, <1>3

\* Rules that all have the same severity and the same template are told by it.
LEMMA OneKindOfRule ==
  ASSUME NEW rules, NEW r \in rules, NEW id, id \in Tells[r.id], r.severity \in Nat,
         \A s \in rules : s.severity = r.severity
  PROVE  StoryOf(rules, id)
BY DEF StoryOf

\* The radio: six templates, of which only those named go before the signal's.
LEMMA RadioSaysWhy ==
  ASSUME NEW m, Plausible(m), NEW d \in Detail, Consistent(m, d),
         NEW rules, rules = {s \in Hits(m) : s.layer = "wifi"}, NEW r \in rules
  PROVE  RadioStory(Select(WifiTemplates(m, d)).id, rules)
<1>. DEFINE t == Select(WifiTemplates(m, d))
<1>. USE DEF Template
<1>1. t \in WifiTemplates(m, d) /\ t.holds /\ \A u \in WifiTemplates(m, d) : u.holds => GoesBefore(t, u)
  BY WifiSelectable, SelectFacts
<1>2. \/ t.id = "wifi.signal_floor" /\ m.rssi > 0
      \/ t.id = "wifi.interference" /\ d.clear
      \/ t.id \in {"wifi.crowded_24", "wifi.roaming"}
      \/ t.id \in {"wifi.rate_collapse", "wifi.generic"} /\ t.specificity \in {0, 2}
  <2>. DEFINE faint == m.rssi > 0
              noisy == d.retry = 2 /\ d.clear
              busy == d.crowded /\ d.retry > 0
              moved == d.roamed
              slow == d.slowLink
  <2>1. t \in {Template("wifi.signal_floor", 3, faint), Template("wifi.interference", 4, noisy),
              Template("wifi.crowded_24", 5, busy), Template("wifi.roaming", 4, moved),
              Template("wifi.rate_collapse", 2, slow), Template("wifi.generic", 0, TRUE)}
    BY <1>1, Zenon DEF WifiTemplates
  <2>2. (noisy => d.clear) /\ (faint => m.rssi > 0)
    OBVIOUS
  <2>. HIDE DEF faint, noisy, busy, moved, slow, t
  <2>3. \/ t.id = "wifi.signal_floor" /\ t.holds = faint
        \/ t.id = "wifi.interference" /\ t.holds = noisy
        \/ t.id \in {"wifi.crowded_24", "wifi.roaming"}
        \/ t.id \in {"wifi.rate_collapse", "wifi.generic"} /\ t.specificity \in {0, 2}
    BY <2>1
  <2>. QED BY <1>1, <2>2, <2>3
<1>3. m.rssi \in 0 .. 2 /\ \A s \in rules : s \in Hits(m) /\ s.layer = "wifi"
  BY DEF Plausible, Measurement
<1>4. ~(m.rssi > 0) => \A s \in rules : s.id = "wifi_retries"
  BY <1>3, RulesOfLayer
<1>. HIDE DEF t
<1>5. CASE t.id = "wifi.signal_floor" /\ m.rssi > 0
  <2>1. \E s \in rules : s.id \in {"wifi_signal_floor", "wifi_signal_weak"}
    <3>1. m.rssi = 1 \/ m.rssi = 2
      BY <1>3, <1>5
    <3>. QED BY <3>1, RulesThatFire
  <2>. QED BY <1>5, <2>1 DEF RadioStory, Tells, t
<1>6. CASE t.id = "wifi.interference" /\ d.clear
  <2>1. r.id = "wifi_retries"
    BY <1>4, <1>6 DEF Consistent
  <2>. QED BY <1>6, <2>1 DEF RadioStory, Tells, t
<1>7. CASE t.id \in {"wifi.crowded_24", "wifi.roaming"}
  BY <1>7 DEF RadioStory, t
<1>8. CASE t.id \in {"wifi.rate_collapse", "wifi.generic"} /\ t.specificity \in {0, 2}
  <2>1. ~(m.rssi > 0)
    <3>. DEFINE faint == m.rssi > 0
                u == Template("wifi.signal_floor", 3, faint)
    <3>1. u \in WifiTemplates(m, d)
      BY Zenon DEF WifiTemplates
    <3>2. u.holds = faint /\ u.specificity = 3 /\ u.id = "wifi.signal_floor"
      OBVIOUS
    <3>. HIDE DEF u, faint
    <3>3. ~faint
      BY <1>1, <1>8, <3>1, <3>2 DEF GoesBefore, Earlier
    <3>. QED BY <3>3 DEF faint
  <2>. QED BY <1>4, <1>8, <2>1 DEF RadioStory, t
<1>. QED BY <1>2, <1>5, <1>6, <1>7, <1>8

\* Everywhere else the template of a rule that fired is the one that is selected.
LEMMA CardSaysWhy ==
  ASSUME NEW m, Plausible(m), NEW d \in Detail, Consistent(m, d),
         NEW layer, layer # "wifi",
         NEW rules, rules = {s \in Hits(m) : s.layer = layer}, NEW r \in rules
  PROVE  LET id == Select(TemplatesOf(layer, m, d)).id
         IN  /\ StoryOf(rules, id)
             /\ m.captive /\ layer = "dns" => id = "dns.captive_portal"
<1>. DEFINE id == Select(TemplatesOf(layer, m, d)).id
<1>. USE DEF Template
<1>0. \A s \in rules : s \in Hits(m) /\ s.layer = layer
  OBVIOUS
<1>1. Watch \in Nat /\ Risk \in Nat /\ Critical \in Nat /\ Risk <= Critical /\ Watch <= Critical
  BY DEF Watch, Risk, Critical
<1>2. CASE layer = "dns"
  <2>1. TemplatesOf(layer, m, d) = DnsTemplates(m)
    BY <1>2 DEF TemplatesOf
  <2>2. CASE m.captive
    <3>1. id = "dns.captive_portal"
      <4>1. PICK u \in DnsTemplates(m) : u.id = "dns.captive_portal" /\ u.holds /\ u.specificity = 9
        BY <2>2 DEF DnsTemplates
      <4>2. \A t \in DnsTemplates(m) : GoesBefore(t, u) => t.id = u.id
        BY <4>1 DEF DnsTemplates, GoesBefore, Earlier
      <4>. QED BY <2>1, <4>1, <4>2, DnsSelectable, FirstWins
    <3>2. PICK c \in rules : c.id = "captive_portal" /\ c.severity = Critical
      BY <1>2, <2>2, RulesThatFire
    <3>3. \A s \in rules : s.severity <= Critical
      BY <1>0, <1>1, RulesOfLayer
    <3>. QED BY <3>1, <3>2, <3>3 DEF StoryOf, Tells
  <2>3. CASE ~m.captive
    <3>1. m.dnsFail = 3 \/ m.dnsFail = 2
      BY <1>0, <1>2, <2>3, RulesOfLayer
    <3>2. id = "dns.failing"
      <4>. DEFINE unanswered == m.dnsFail > 0
                  u == Template("dns.failing", 5, unanswered)
      <4>1. u \in DnsTemplates(m) /\ DnsTemplates(m) = {Template("dns.captive_portal", 9, m.captive), u, Template("dns.slow", 1, TRUE)}
        BY Zenon DEF DnsTemplates
      <4>2. unanswered
        BY <3>1
      <4>. HIDE DEF unanswered
      <4>3. u.holds /\ u.id = "dns.failing" /\ u.specificity = 5
        BY <4>2
      <4>4. Select(DnsTemplates(m)) # Template("dns.captive_portal", 9, m.captive)
        BY <2>3, DnsSelectable, SelectFacts
      <4>5. Select(DnsTemplates(m)) \in DnsTemplates(m) /\ GoesBefore(Select(DnsTemplates(m)), u)
        BY <4>1, <4>3, DnsSelectable, SelectFacts
      <4>6. ~GoesBefore(Template("dns.slow", 1, TRUE), u)
        BY DEF GoesBefore, Earlier
      <4>. QED BY <2>1, <4>1, <4>3, <4>4, <4>5, <4>6
    <3>3. r.id \in {"dns_blackhole", "dns_failures"} /\ \A s \in rules : s.severity = r.severity /\ s.severity \in Nat
      BY <1>0, <1>1, <1>2, <2>3, RulesOfLayer
    <3>. QED BY <2>3, <3>2, <3>3, OneKindOfRule DEF Tells
  <2>. QED BY <2>2, <2>3
<1>3. CASE layer = "gateway"
  <2>1. TemplatesOf(layer, m, d) = GatewayTemplates(m, d)
    BY <1>3 DEF TemplatesOf
  <2>. DEFINE dead == m.loss = 2
              top == Template("gateway.unreachable", 9, dead)
  <2>2. GatewayTemplates(m, d) = {top, Template("gateway.loss", 5, d.lossy), Template("gateway.congestion", 1, TRUE)}
    BY Zenon DEF GatewayTemplates
  <2>3. top.holds = dead /\ top.id = "gateway.unreachable" /\ top.specificity = 9
    OBVIOUS
  <2>4. /\ m.loss > 0
        /\ r.id = IF dead THEN "gateway_unreachable" ELSE "gateway_loss"
        /\ \A s \in rules : s.severity = r.severity /\ s.severity \in Nat
    BY <1>0, <1>1, <1>3, RulesOfLayer
  <2>5. d.lossy
    BY <2>4 DEF Consistent
  <2>. HIDE DEF top, dead
  <2>6. CASE dead
    <3>1. \A t \in GatewayTemplates(m, d) : GoesBefore(t, top) => t.id = top.id
      BY <2>2, <2>3 DEF GoesBefore, Earlier
    <3>2. id = "gateway.unreachable"
      BY <2>1, <2>2, <2>3, <2>6, <3>1, GatewaySelectable, FirstWins
    <3>. QED BY <1>3, <2>4, <2>6, <3>2, OneKindOfRule DEF Tells
  <2>7. CASE ~dead
    <3>. DEFINE u == Template("gateway.loss", 5, d.lossy)
    <3>0. u \in GatewayTemplates(m, d) /\ u.holds
      BY <2>2, <2>5
    <3>1. Select(GatewayTemplates(m, d)) \in GatewayTemplates(m, d)
          /\ Select(GatewayTemplates(m, d)).holds /\ GoesBefore(Select(GatewayTemplates(m, d)), u)
      BY <3>0, GatewaySelectable, SelectFacts, Zenon
    <3>2. Select(GatewayTemplates(m, d)) # top
      BY <2>3, <2>7, <3>1
    <3>3. ~GoesBefore(Template("gateway.congestion", 1, TRUE), u)
      BY DEF GoesBefore, Earlier
    <3>4. id = "gateway.loss"
      BY <2>1, <2>2, <3>1, <3>2, <3>3
    <3>. QED BY <1>3, <2>4, <2>7, <3>4, OneKindOfRule DEF Tells
  <2>. QED BY <2>6, <2>7
<1>4. CASE layer = "remote_https"
  <2>1. TemplatesOf(layer, m, d) = RemoteTemplates(d)
    BY <1>4 DEF TemplatesOf
  <2>2. /\ m.httpsFail /\ r.id = "remote_unreachable"
        /\ \A s \in rules : s.severity = r.severity /\ s.severity \in Nat
    BY <1>0, <1>1, <1>4, RulesOfLayer
  <2>3. PICK u \in RemoteTemplates(d) : u.holds /\ u.id = "remote.unreachable" /\ u.specificity = 6
    BY <2>2 DEF RemoteTemplates, Consistent
  <2>4. \A t \in RemoteTemplates(d) : GoesBefore(t, u) => t.id = u.id
    BY <2>3 DEF RemoteTemplates, GoesBefore, Earlier
  <2>5. id = "remote.unreachable"
    BY <2>1, <2>3, <2>4, RemoteSelectable, FirstWins
  <2>. QED BY <1>4, <2>2, <2>5, OneKindOfRule DEF Tells
<1>5. CASE layer = "os"
  <2>1. TemplatesOf(layer, m, d) = OsTemplates(d)
    BY <1>5 DEF TemplatesOf
  <2>2. /\ m.retrans = 2 /\ r.id = "tcp_retransmissions"
        /\ \A s \in rules : s.severity = r.severity /\ s.severity \in Nat
    BY <1>0, <1>1, <1>5, RulesOfLayer
  <2>3. PICK u \in OsTemplates(d) : u.holds /\ u.id = "os.retransmissions" /\ u.specificity = 4
    BY <2>2 DEF OsTemplates, Consistent
  <2>4. \A t \in OsTemplates(d) : GoesBefore(t, u) => t.id = u.id
    BY <2>3 DEF OsTemplates, GoesBefore, Earlier
  <2>5. id = "os.retransmissions"
    BY <2>1, <2>3, <2>4, OsSelectable, FirstWins
  <2>. QED BY <1>5, <2>2, <2>5, OneKindOfRule DEF Tells
<1>6. CASE layer = "vpn"
  <2>1. TemplatesOf(layer, m, d) = {Template("vpn.overload", 1, TRUE)}
    BY <1>6 DEF TemplatesOf, VpnTemplates
  <2>2. Selectable({Template("vpn.overload", 1, TRUE)})
    BY DEF Selectable, GoesBefore
  <2>3. Select({Template("vpn.overload", 1, TRUE)}) = Template("vpn.overload", 1, TRUE)
    BY <2>2, SelectFacts
  <2>4. id = "vpn.overload"
    BY <2>1, <2>3
  <2>5. /\ r.id = "tcp_retransmissions"
        /\ \A s \in rules : s.severity = r.severity /\ s.severity \in Nat
    BY <1>0, <1>1, <1>6, RulesOfLayer
  <2>. QED BY <1>6, <2>4, <2>5, OneKindOfRule DEF Tells
<1>7. layer \in {"dns", "gateway", "remote_https", "os", "vpn"}
  BY <1>0, RulesOfLayer
<1>. QED BY <1>2, <1>3, <1>4, <1>5, <1>6, <1>7

\* A card is written for the layer that the frame blames.
LEMMA RewrittenForFrame ==
  ASSUME TypeOK, frame' \in Frames, Observe(frame'), Rewritten
  PROVE  incident' # NoIncident /\ incident'.layer = frame'.primary
<1>. DEFINE f == frame'
<1>1. CASE BlindFrame(f) \/ WatchFrame(f) \/ CloseIncident(f)
  BY <1>1 DEF BlindFrame, WatchFrame, CloseIncident, Rewritten, Unchanged, Explained
<1>2. CASE OpenIncident(f)
  <2>1. incident' = NewIncident(f) /\ f.primary \in Layers
    BY <1>2, FrameFacts DEF OpenIncident, Opens, Explained
  <2>2. NewIncident(f) # NoIncident /\ Explained(f)
    BY <1>2, NewIncidentFacts DEF OpenIncident, Opens
  <2>. QED BY <2>1, <2>2 DEF NewIncident
<1>3. CASE TrackIncident(f)
  <2>1. result'.opened = FALSE /\ incident' = Escalate(incident, f) /\ incident \in Incident
    BY <1>3 DEF TrackIncident, Unchanged, TypeOK
  <2>2. f.severity > incident.severity /\ Explained(f) /\ incident' # NoIncident
    BY <2>1 DEF Rewritten
  <2>. QED BY <2>1, <2>2 DEF Escalate, Incident
<1>. QED BY <1>1, <1>2, <1>3 DEF Observe

\* Whatever was learned, measured or forecast: when rules fired on the layer of the
\* card, it is the card of one of the worst of them, a sign-in page's before all
\* others; on the radio, the card of one of them, or of roaming or a crowded band,
\* or a broader one when frames sent again are all that the rules saw.
THEOREM CardCorrect == CardsSpec => RuleGetsItsCard
<1>. DEFINE Told ==
       LET rules == {r \in Hits(measured') : r.layer = incident'.layer}
       IN  Rewritten /\ rules # {}
             => IF incident'.layer = "wifi" THEN RadioStory(card', rules)
                ELSE /\ StoryOf(rules, card')
                     /\ measured'.captive /\ incident'.layer = "dns"
                          => card' = "dns.captive_portal"
<1>1. CardsSpec => LadderSpec
  <2>1. CardsInit => LadderInit
    BY DEF CardsInit
  <2>2. [CardsNext]_cardsVars => [LadderNext]_ladderVars
    BY DEF CardsNext, LadderNext, cardsVars
  <2>. QED BY <2>1, <2>2, PTL DEF CardsSpec, LadderSpec
<1>2. TypeOK /\ FrameIsOfMeasured' /\ [CardsNext]_cardsVars => [Told]_cardsVars
  <2> SUFFICES ASSUME TypeOK, FrameIsOfMeasured', CardsNext PROVE Told
    OBVIOUS
  <2>1. PICK m \in Neighbours(measured) : Score(m) /\ Write(m)
    BY DEF CardsNext
  <2>2. measured' = m /\ Plausible(m) /\ Observe(frame')
    BY <2>1 DEF Score
  <2>3. frame' \in Frames
    BY FrameIsFrame DEF FrameIsOfMeasured
  <2>. DEFINE layer == incident'.layer
              rules == {r \in Hits(m) : r.layer = layer}
  <2> SUFFICES ASSUME Rewritten, NEW r \in rules
               PROVE  IF layer = "wifi" THEN RadioStory(card', rules)
                      ELSE /\ StoryOf(rules, card')
                           /\ m.captive /\ layer = "dns" => card' = "dns.captive_portal"
    BY <2>2
  <2>4. incident' # NoIncident /\ layer = frame'.primary
    BY <2>2, <2>3, RewrittenForFrame
  <2>5. PICK d \in Details : Consistent(m, d) /\ card' = Select(TemplatesOf(layer, m, d)).id
    BY <2>1, <2>4 DEF Write, CardOf
  <2>6. d \in Detail
    BY CardsAssumption
  <2>. HIDE DEF layer
  <2>7. CASE layer = "wifi"
    <3>1. TemplatesOf(layer, m, d) = WifiTemplates(m, d)
      BY <2>7 DEF TemplatesOf
    <3>2. rules = {s \in Hits(m) : s.layer = "wifi"}
      BY <2>7
    <3>3. RadioStory(Select(WifiTemplates(m, d)).id, rules)
      BY <2>2, <2>5, <2>6, <3>2, RadioSaysWhy
    <3>. QED BY <2>5, <2>7, <3>1, <3>3
  <2>8. CASE layer # "wifi"
    <3>. HIDE DEF rules
    <3>1. rules = {s \in Hits(m) : s.layer = layer} /\ r \in rules
      BY DEF rules
    <3>2. LET id == Select(TemplatesOf(layer, m, d)).id
          IN  /\ StoryOf(rules, id)
              /\ m.captive /\ layer = "dns" => id = "dns.captive_portal"
      BY <2>2, <2>5, <2>6, <2>8, <3>1, CardSaysWhy
    <3>. QED BY <2>5, <2>8, <3>2
  <2>. QED BY <2>7, <2>8
<1>. QED BY <1>1, <1>2, AlwaysScored, LadderImplementsScorer, TypeCorrect, PTL
         DEF CardsSpec, RuleGetsItsCard

-----------------------------------------------------------------------------
(***************************************************************************)
(* The scorer next to its notifier, for any settings, recordings and       *)
(* length of time: an episode interrupts the user once, a layer once per   *)
(* level within a cooldown, the night is kept, and the counts of the       *)
(* harness bound the interruptions.  The inductive invariant says that     *)
(* _last_sent is the record of what this agent sent (Recalled), and that   *)
(* the counters of the scorer have counted ever since (Spaced).            *)
(***************************************************************************)
\* An entry of the record of what was sent.
Notification == [layer : Layers, severity : Risk .. Critical, ts : Nat]

\* Types; the scorer's are those of ScorerProofs.
AlertsTypeOK ==
  /\ TypeOK
  /\ now \in Nat /\ settings \in Settings
  /\ sent \in Seq(Notification)
  /\ seen \in 0 .. Len(sent)
  /\ lastSent \in [Layers -> [ts : Nat, severity : Severity] \cup {NeverSent}]

\* The clock has passed every notification, and no two are of one moment.
InOrder ==
  /\ \A i \in DOMAIN sent : sent[i].ts < now
  /\ \A i, j \in DOMAIN sent : i < j => sent[i].ts < sent[j].ts

\* k is the last notification of this agent about the layer.
LatestOf(layer, k) ==
  /\ k \in DOMAIN sent /\ seen < k /\ sent[k].layer = layer
  /\ \A i \in DOMAIN sent : seen < i /\ sent[i].layer = layer => i <= k

\* _last_sent is the last notification of each layer, if this agent has sent one.
Recalled ==
  \A layer \in Layers :
    IF lastSent[layer] = NeverSent
      THEN \A i \in DOMAIN sent : seen < i => sent[i].layer # layer
      ELSE \E k \in DOMAIN sent :
             /\ LatestOf(layer, k)
             /\ lastSent[layer] = [ts |-> sent[k].ts, severity |-> sent[k].severity]

\* A notification has gone by for as long as the counters have counted since.
Spaced ==
  \A i \in DOMAIN sent : seen < i =>
    IF incident = NoIncident THEN sent[i].ts + CloseAfter + 1 + above <= now
                             ELSE sent[i].ts + 1 + below <= now

-----------------------------------------------------------------------------
\* What a setting of the notifier is.
LEMMA SettingsFacts ==
  ASSUME settings \in Settings
  PROVE  /\ settings.enabled \in BOOLEAN /\ settings.floor \in Severity
         /\ settings.cooldown \in Nat \ {0}
         /\ settings.start \in 0 .. Day - 1 /\ settings.end \in 0 .. Day - 1
         /\ Day \in Nat \ {0}
BY AlertsAssumption

\* What one frame does to the counters and to the incident.
LEMMA ObserveMoves ==
  ASSUME TypeOK, NEW f \in Frames, Observe(f)
  PROVE  /\ above' <= above + 1 /\ below' <= below + 1
         /\ result'.opened <=> incident = NoIncident /\ incident' # NoIncident
         /\ result'.opened =>
              /\ below' = 0 /\ OpenAfter <= above + 1
              /\ incident'.layer = f.primary /\ f.primary \in Layers
              /\ incident'.severity = f.severity /\ f.severity \in Risk .. Critical
         /\ incident # NoIncident /\ incident' = NoIncident => above' = 0 /\ CloseAfter <= below'
<1> USE SeverityIsRank, FrameFacts, ScorerAssumption DEF Unchanged
<1>0. /\ above \in 0 .. CounterCap /\ below \in 0 .. CounterCap
      /\ Above(f) <= above + 1 /\ Below(f) <= below + 1
      /\ Above(f) \in Nat /\ Below(f) \in Nat
      /\ Above(f) > 0 => Alerting(f)
      /\ Below(f) > 0 => ~Alerting(f)
  BY DEF TypeOK, Above, Below, Count
<1>1. CASE BlindFrame(f)
  BY <1>0, <1>1 DEF BlindFrame
<1>2. CASE WatchFrame(f)
  BY <1>0, <1>2 DEF WatchFrame, CountFrame
<1>3. CASE OpenIncident(f)
  <2>1. /\ above' = Above(f) /\ below' = Below(f) /\ incident = NoIncident
        /\ incident' = NewIncident(f) /\ result'.opened
        /\ Above(f) >= OpenAfter /\ Explained(f)
    BY <1>3 DEF OpenIncident, CountFrame, Opens
  <2>2. f.primary \in Layers /\ Alerting(f)
    BY <1>0, <2>1 DEF Explained
  <2>3. incident' # NoIncident /\ incident'.layer = f.primary /\ incident'.severity = f.severity
    BY <2>1, NewIncidentFacts DEF NewIncident
  <2>. QED BY <1>0, <2>1, <2>2, <2>3 DEF Alerting
<1>4. CASE TrackIncident(f)
  <2>1. /\ above' = Above(f) /\ below' = Below(f) /\ incident # NoIncident
        /\ incident' = Escalate(incident, f) /\ result' = Unchanged
    BY <1>4 DEF TrackIncident, CountFrame
  <2>2. incident' # NoIncident
    BY <2>1, EscalateFacts DEF TypeOK
  <2>. QED BY <1>0, <2>1, <2>2
<1>5. CASE CloseIncident(f)
  <2>1. /\ above' = Above(f) /\ below' = Below(f) /\ incident # NoIncident
        /\ incident' = NoIncident /\ ~result'.opened /\ Below(f) >= CloseAfter
    BY <1>5 DEF CloseIncident, CountFrame, Closes
  <2>. QED BY <1>0, <2>1
<1>. QED BY <1>1, <1>2, <1>3, <1>4, <1>5 DEF Observe

\* What a tick does about a notification.
Sends(layer, severity) ==
  /\ Bell!ShouldSend(layer, severity)
  /\ sent' = Append(sent, [layer |-> layer, severity |-> severity, ts |-> now])
  /\ lastSent' = [lastSent EXCEPT ![layer] = [ts |-> now, severity |-> severity]]

\* A tick: one frame, and one notification or none.
LEMMA TickFacts ==
  ASSUME NEW f \in Frames, NEW delivered, Tick(f, delivered)
  PROVE  /\ now' = now + 1 /\ Observe(f)
         /\ UNCHANGED <<settings, seen, backend>>
         /\ \/ result'.opened /\ Sends(incident'.layer, f.severity)
            \/ /\ UNCHANGED <<lastSent, sent>>
               /\ result'.opened /\ delivered => ~Bell!ShouldSend(incident'.layer, f.severity)
BY DEF Tick, NotifyOpened, Bell!Deliver, Bell!Send, Sends

-----------------------------------------------------------------------------
\* A remainder is told by the multiple it leaves.
LEMMA Remainder ==
  ASSUME NEW a \in Nat, NEW q \in Nat, NEW r \in Nat, NEW d \in Nat, a = q * d + r, r < d
  PROVE  a % d = r
OBVIOUS

\* Counting the hours from start, around the clock.
LEMMA FromStart ==
  ASSUME NEW t \in Nat, NEW d \in Nat \ {0}, NEW start \in 0 .. d - 1
  PROVE  /\ t % d \in 0 .. d - 1
         /\ (t + d - start) % d = IF start <= t % d THEN (t % d) - start ELSE (t % d) + d - start
<1> DEFINE h == t % d
           q == t \div d
<1>1. /\ q \in Nat /\ h \in 0 .. d - 1 /\ t = q * d + h
  OBVIOUS
<1>. HIDE DEF h, q
<1>2. q * d \in Nat /\ (q + 1) * d = q * d + d /\ q + 1 \in Nat
  BY <1>1
<1>3. CASE start <= h
  <2>1. /\ t + d - start = (q + 1) * d + (h - start) /\ h - start \in Nat /\ h - start < d
        /\ t + d - start \in Nat /\ d \in Nat
    BY <1>1, <1>2, <1>3
  <2>. DEFINE a == t + d - start
              r == h - start
              p == q + 1
  <2>2. a = p * d + r /\ a \in Nat /\ p \in Nat /\ r \in Nat /\ d \in Nat /\ r < d
    BY <1>2, <2>1
  <2>3. a % d = r
    <3>. HIDE DEF a, r, p
    <3>. QED BY <2>2, Remainder
  <2>. QED BY <1>1, <1>3, <2>3 DEF h
<1>4. CASE ~(start <= h)
  <2>1. /\ t + d - start = q * d + (h + d - start) /\ h + d - start \in Nat /\ h + d - start < d
        /\ t + d - start \in Nat /\ d \in Nat
    BY <1>1, <1>2, <1>4
  <2>. DEFINE a == t + d - start
              r == h + d - start
  <2>2. a = q * d + r /\ a \in Nat /\ q \in Nat /\ r \in Nat /\ d \in Nat /\ r < d
    BY <1>1, <2>1
  <2>3. a % d = r
    <3>. HIDE DEF a, r
    <3>. QED BY <2>2, Remainder
  <2>. QED BY <1>1, <1>4, <2>3 DEF h
<1>. QED BY <1>3, <1>4

\* The comparisons of _in_quiet_hours keep the night, however the window lies.
LEMMA QuietHoursAreNight ==
  ASSUME settings \in Settings, NEW t \in Nat
  PROVE  Bell!InQuietHours(t) <=> Bell!Night(t)
<1> DEFINE h == t % Day
<1>1. /\ settings.start \in 0 .. Day - 1 /\ settings.end \in 0 .. Day - 1 /\ Day \in Nat \ {0}
  BY SettingsFacts
<1>2. /\ h \in 0 .. Day - 1
      /\ (t + Day - settings.start) % Day =
           IF settings.start <= h THEN h - settings.start ELSE h + Day - settings.start
  BY <1>1, FromStart
<1>3. settings.end % Day = settings.end
  <2>1. settings.end = 0 * Day + settings.end
    BY <1>1
  <2>. QED BY <1>1, <2>1, Remainder
<1>4. (settings.end + Day - settings.start) % Day =
           IF settings.start <= settings.end THEN settings.end - settings.start
                                             ELSE settings.end + Day - settings.start
  <2>1. settings.end \in Nat
    BY <1>1
  <2>. QED BY <1>1, <1>3, <2>1, FromStart
<1>. HIDE DEF h
<1>5. Bell!Night(t) <=>
        (IF settings.start <= h THEN h - settings.start ELSE h + Day - settings.start)
          < (IF settings.start <= settings.end THEN settings.end - settings.start
                                               ELSE settings.end + Day - settings.start)
  BY <1>2, <1>4 DEF Bell!Night
<1>6. Bell!InQuietHours(t) <=>
        IF settings.start < settings.end
          THEN settings.start <= h /\ h < settings.end
          ELSE settings.start # settings.end /\ (h >= settings.start \/ h < settings.end)
  BY DEF Bell!InQuietHours, h
<1>. QED BY <1>1, <1>2, <1>5, <1>6

-----------------------------------------------------------------------------
\* A notification is added behind the others.
LEMMA SendFacts ==
  ASSUME AlertsTypeOK, NEW layer \in Layers, NEW severity \in Risk .. Critical,
         sent' = Append(sent, [layer |-> layer, severity |-> severity, ts |-> now])
  PROVE  /\ sent' \in Seq(Notification)
         /\ Len(sent) \in Nat /\ Len(sent') = Len(sent) + 1
         /\ DOMAIN sent = 1 .. Len(sent) /\ DOMAIN sent' = 1 .. Len(sent) + 1
         /\ \A i \in DOMAIN sent : sent'[i] = sent[i] /\ sent[i] \in Notification
         /\ sent'[Len(sent) + 1] = [layer |-> layer, severity |-> severity, ts |-> now]
<1> DEFINE e == [layer |-> layer, severity |-> severity, ts |-> now]
<1>1. sent \in Seq(Notification) /\ e \in Notification
  BY DEF AlertsTypeOK, Notification
<1>. HIDE DEF e, Notification
<1>2. sent' = Append(sent, e)
  BY DEF e
<1>3. /\ sent' \in Seq(Notification)
      /\ Len(sent) \in Nat /\ Len(sent') = Len(sent) + 1
      /\ DOMAIN sent = 1 .. Len(sent) /\ DOMAIN sent' = 1 .. Len(sent) + 1
      /\ \A i \in DOMAIN sent : sent'[i] = sent[i] /\ sent[i] \in Notification
      /\ sent'[Len(sent) + 1] = e
  BY <1>1, <1>2
<1>. QED BY <1>3 DEF e

\* What holds of the notifications while none is added.
LEMMA NoneSent ==
  ASSUME AlertsTypeOK, InOrder, UNCHANGED sent, now' \in {now, now + 1}
  PROVE  InOrder' /\ now' \in Nat /\ Len(sent) \in Nat
<1>1. /\ now \in Nat /\ Len(sent) \in Nat
      /\ \A i \in DOMAIN sent : sent[i].ts \in Nat
  <2>1. now \in Nat /\ sent \in Seq(Notification)
    BY DEF AlertsTypeOK
  <2>2. \A n \in Notification : n.ts \in Nat
    BY DEF Notification
  <2>3. Len(sent) \in Nat /\ \A i \in DOMAIN sent : sent[i] \in Notification
    BY <2>1
  <2>. QED BY <2>1, <2>2, <2>3
<1>2. /\ \A i \in DOMAIN sent : sent[i].ts < now
      /\ \A i, j \in DOMAIN sent : i < j => sent[i].ts < sent[j].ts
  BY DEF InOrder
<1>3. sent' = sent
  OBVIOUS
<1>4. \A i \in DOMAIN sent' : sent'[i].ts < now'
  BY <1>1, <1>2, <1>3
<1>5. \A i, j \in DOMAIN sent' : i < j => sent'[i].ts < sent'[j].ts
  BY <1>2, <1>3
<1>. QED BY <1>1, <1>4, <1>5 DEF InOrder

\* Nothing has been sent at the start.
LEMMA AlertsInitially == AlertsInit => AlertsTypeOK /\ InOrder /\ Recalled /\ Spaced
<1> SUFFICES ASSUME AlertsInit PROVE AlertsTypeOK /\ InOrder /\ Recalled /\ Spaced
  OBVIOUS
<1>1. sent = << >> /\ DOMAIN sent = {} /\ Len(sent) = 0 /\ seen = 0 /\ now = 0
  BY DEF AlertsInit, Bell!Init
<1>2. lastSent = [layer \in Layers |-> NeverSent] /\ settings \in Settings
  BY DEF AlertsInit, Bell!Init
<1>3. TypeOK
  BY InitType DEF AlertsInit
<1>4. sent \in Seq(Notification)
  BY <1>1
<1>. QED BY <1>1, <1>2, <1>3, <1>4 DEF AlertsTypeOK, InOrder, Recalled, Spaced

\* Every step keeps the types, and the order of what was sent.
LEMMA AlertsType ==
  ASSUME AlertsTypeOK, InOrder, [AlertsNext]_vars
  PROVE  AlertsTypeOK' /\ InOrder'
<1>1. ASSUME NEW f \in Frames, NEW delivered, Tick(f, delivered)
      PROVE  AlertsTypeOK' /\ InOrder'
  <2>1. /\ now' = now + 1 /\ Observe(f) /\ UNCHANGED <<settings, seen>>
        /\ \/ result'.opened /\ Sends(incident'.layer, f.severity)
           \/ UNCHANGED <<lastSent, sent>>
    BY <1>1, TickFacts
  <2>2. TypeOK'
    BY <2>1, ObserveType DEF AlertsTypeOK
  <2>3. CASE UNCHANGED <<lastSent, sent>>
    <3>1. InOrder' /\ now' \in Nat
      BY <2>1, <2>3, NoneSent
    <3>. QED BY <2>1, <2>2, <2>3, <3>1 DEF AlertsTypeOK
  <2>4. CASE result'.opened /\ Sends(incident'.layer, f.severity)
    <3>1. incident'.layer \in Layers /\ f.severity \in Risk .. Critical
      BY <2>1, <2>4, ObserveMoves DEF AlertsTypeOK
    <3>2. /\ sent' = Append(sent, [layer |-> incident'.layer, severity |-> f.severity, ts |-> now])
          /\ lastSent' = [lastSent EXCEPT ![incident'.layer] = [ts |-> now, severity |-> f.severity]]
      BY <2>4 DEF Sends
    <3>3. lastSent' \in [Layers -> [ts : Nat, severity : Severity] \cup {NeverSent}]
      BY <3>1, <3>2, SeverityIsRank DEF AlertsTypeOK
    <3>4. InOrder'
      <4>1. /\ now \in Nat /\ Len(sent) \in Nat
            /\ DOMAIN sent = 1 .. Len(sent) /\ DOMAIN sent' = 1 .. Len(sent) + 1
            /\ \A i \in DOMAIN sent : sent'[i] = sent[i] /\ sent[i] \in Notification
            /\ sent'[Len(sent) + 1].ts = now
        BY <3>1, <3>2, SendFacts DEF AlertsTypeOK
      <4>2. \A i \in DOMAIN sent : sent[i].ts \in Nat /\ sent[i].ts < now
        BY <4>1 DEF InOrder, Notification
      <4>3. ASSUME NEW i \in DOMAIN sent' PROVE sent'[i].ts \in Nat /\ sent'[i].ts < now'
        BY <2>1, <4>1, <4>2
      <4>4. ASSUME NEW i \in DOMAIN sent', NEW j \in DOMAIN sent', i < j
            PROVE  sent'[i].ts < sent'[j].ts
        <5>1. i \in DOMAIN sent
          BY <4>1, <4>4
        <5>2. CASE j \in DOMAIN sent
          BY <4>1, <4>4, <5>1, <5>2 DEF InOrder
        <5>3. CASE j = Len(sent) + 1
          BY <4>1, <4>2, <5>1, <5>3
        <5>. QED BY <4>1, <5>2, <5>3
      <4>. QED BY <4>3, <4>4 DEF InOrder
    <3>5. sent' \in Seq(Notification) /\ seen' \in 0 .. Len(sent')
      BY <2>1, <3>1, <3>2, SendFacts DEF AlertsTypeOK
    <3>. QED BY <2>1, <2>2, <3>3, <3>4, <3>5 DEF AlertsTypeOK
  <2>. QED BY <2>1, <2>3, <2>4
<1>2. CASE EmptyTick
  <2>1. /\ now' = now + 1 /\ UNCHANGED <<settings, lastSent, sent, seen>>
        /\ UNCHANGED <<above, below, incident>> /\ result' = Unchanged
    BY <1>2 DEF EmptyTick, bellVars
  <2>2. TypeOK'
    BY <2>1 DEF AlertsTypeOK, TypeOK, ScoreResult, Unchanged
  <2>3. InOrder' /\ now' \in Nat
    BY <2>1, NoneSent
  <2>. QED BY <2>1, <2>2, <2>3 DEF AlertsTypeOK
<1>3. CASE Restart
  <2>1. /\ UNCHANGED <<now, settings, sent>> /\ seen' = Len(sent)
        /\ lastSent' = [layer \in Layers |-> NeverSent]
        /\ above' = 0 /\ below' = 0 /\ incident' = NoIncident /\ result' = Unchanged
    BY <1>3 DEF Restart, Bell!Recreate
  <2>2. TypeOK'
    BY <2>1, ScorerAssumption DEF TypeOK, ScoreResult, Unchanged
  <2>3. seen' \in 0 .. Len(sent')
    BY <2>1 DEF AlertsTypeOK
  <2>. QED BY <2>1, <2>2, <2>3 DEF AlertsTypeOK, InOrder
<1>4. CASE UNCHANGED vars
  BY <1>4 DEF vars, scorerVars, bellVars, AlertsTypeOK, InOrder, TypeOK
<1>. QED BY <1>1, <1>2, <1>3, <1>4 DEF AlertsNext

\* The entries are notifications, in a domain of naturals.
LEMMA SentFacts ==
  ASSUME AlertsTypeOK
  PROVE  /\ now \in Nat /\ seen \in Nat /\ Len(sent) \in Nat /\ DOMAIN sent = 1 .. Len(sent)
         /\ \A i \in DOMAIN sent : /\ sent[i].ts \in Nat /\ sent[i].layer \in Layers
                                   /\ sent[i].severity \in Risk .. Critical
         /\ \A layer \in Layers : lastSent[layer] # NeverSent =>
              lastSent[layer].ts \in Nat /\ lastSent[layer].severity \in Severity
<1>1. now \in Nat /\ sent \in Seq(Notification) /\ seen \in 0 .. Len(sent)
  BY DEF AlertsTypeOK
<1>2. \A n \in Notification : n.ts \in Nat /\ n.layer \in Layers /\ n.severity \in Risk .. Critical
  BY DEF Notification
<1>3. Len(sent) \in Nat /\ DOMAIN sent = 1 .. Len(sent) /\ \A i \in DOMAIN sent : sent[i] \in Notification
  BY <1>1
<1>4. lastSent \in [Layers -> [ts : Nat, severity : Severity] \cup {NeverSent}]
  BY DEF AlertsTypeOK
<1>5. \A layer \in Layers : lastSent[layer] # NeverSent => lastSent[layer] \in [ts : Nat, severity : Severity]
  BY <1>4
<1>. QED BY <1>1, <1>2, <1>3, <1>5

\* What a step of the composition is: a notification about an incident that opens
\* on this frame, or none; or a new agent, which remembers nothing.
Announces(f) ==
  /\ now' = now + 1 /\ Observe(f) /\ UNCHANGED <<settings, seen, backend>>
  /\ result'.opened /\ Sends(incident'.layer, f.severity)
\* A step that sends nothing and forgets nothing.
Keeps ==
  /\ now' \in {now, now + 1}
  /\ UNCHANGED <<settings, lastSent, sent, seen, backend>>
\* A restart of the agent: the record stays, _last_sent and the incident go.
Restarts ==
  /\ UNCHANGED <<now, settings, sent>> /\ seen' = Len(sent)
  /\ lastSent' = [layer \in Layers |-> NeverSent]
  /\ incident' = NoIncident /\ result' = Unchanged

\* Every step of the composition is one of the three.
LEMMA StepCases ==
  ASSUME [AlertsNext]_vars
  PROVE  (\E f \in Frames : Announces(f)) \/ Keeps \/ Restarts
<1>1. ASSUME NEW f \in Frames, NEW delivered, Tick(f, delivered)
      PROVE  Announces(f) \/ Keeps
  BY <1>1, TickFacts DEF Announces, Keeps
<1>2. CASE EmptyTick
  BY <1>2 DEF EmptyTick, bellVars, Keeps
<1>3. CASE Restart
  BY <1>3 DEF Restart, Bell!Recreate, Restarts
<1>4. CASE UNCHANGED vars
  BY <1>4 DEF vars, bellVars, Keeps
<1>. QED BY <1>1, <1>2, <1>3, <1>4 DEF AlertsNext

\* The entry a step adds.
LEMMA AnnouncesFacts ==
  ASSUME AlertsTypeOK, NEW f \in Frames, Announces(f)
  PROVE  /\ incident'.layer \in Layers /\ f.severity \in Risk .. Critical
         /\ incident = NoIncident /\ incident' # NoIncident
         /\ below' = 0 /\ OpenAfter <= above + 1 /\ incident'.severity = f.severity
         /\ DOMAIN sent' = 1 .. Len(sent) + 1
         /\ \A i \in DOMAIN sent : sent'[i] = sent[i]
         /\ sent'[Len(sent) + 1].layer = incident'.layer
         /\ sent'[Len(sent) + 1].severity = f.severity
         /\ sent'[Len(sent) + 1].ts = now
         /\ lastSent' = [lastSent EXCEPT ![incident'.layer] = [ts |-> now, severity |-> f.severity]]
         /\ Bell!ShouldSend(incident'.layer, f.severity)
<1>1. /\ Observe(f) /\ result'.opened /\ TypeOK
      /\ Bell!ShouldSend(incident'.layer, f.severity)
      /\ sent' = Append(sent, [layer |-> incident'.layer, severity |-> f.severity, ts |-> now])
      /\ lastSent' = [lastSent EXCEPT ![incident'.layer] = [ts |-> now, severity |-> f.severity]]
  BY DEF Announces, Sends, AlertsTypeOK
<1>2. /\ incident'.layer \in Layers /\ f.severity \in Risk .. Critical
      /\ incident = NoIncident /\ incident' # NoIncident
      /\ below' = 0 /\ OpenAfter <= above + 1 /\ incident'.severity = f.severity
  BY <1>1, ObserveMoves
<1>3. /\ DOMAIN sent' = 1 .. Len(sent) + 1
      /\ \A i \in DOMAIN sent : sent'[i] = sent[i]
      /\ sent'[Len(sent) + 1] = [layer |-> incident'.layer, severity |-> f.severity, ts |-> now]
  BY <1>1, <1>2, SendFacts
<1>. QED BY <1>1, <1>2, <1>3

\* The notifier remembers its last word on each layer.
LEMMA RecalledStep ==
  ASSUME AlertsTypeOK, Recalled, [AlertsNext]_vars
  PROVE  Recalled'
<1>1. ASSUME NEW f \in Frames, Announces(f) PROVE Recalled'
  <2>1. /\ DOMAIN sent' = 1 .. Len(sent) + 1 /\ incident'.layer \in Layers
        /\ \A i \in DOMAIN sent : sent'[i] = sent[i]
        /\ sent'[Len(sent) + 1].layer = incident'.layer
        /\ sent'[Len(sent) + 1].severity = f.severity
        /\ sent'[Len(sent) + 1].ts = now
        /\ lastSent' = [lastSent EXCEPT ![incident'.layer] = [ts |-> now, severity |-> f.severity]]
    BY <1>1, AnnouncesFacts
  <2>2. seen' = seen /\ seen \in 0 .. Len(sent) /\ Len(sent) \in Nat /\ DOMAIN sent = 1 .. Len(sent)
    BY <1>1, SentFacts DEF Announces, AlertsTypeOK
  <2>3. ASSUME NEW layer \in Layers
        PROVE  IF lastSent'[layer] = NeverSent
                 THEN \A i \in DOMAIN sent' : seen' < i => sent'[i].layer # layer
                 ELSE \E k \in DOMAIN sent' :
                        /\ LatestOf(layer, k)'
                        /\ lastSent'[layer] = [ts |-> sent'[k].ts, severity |-> sent'[k].severity]
    <3>1. CASE layer = incident'.layer
      <4>1. lastSent'[layer] = [ts |-> now, severity |-> f.severity]
        BY <2>1, <3>1 DEF AlertsTypeOK
      <4>2. lastSent'[layer] # NeverSent
        BY <4>1, <1>1, AnnouncesFacts, AlertsAssumption, SeverityIsRank DEF AlertsTypeOK
      <4>. PICK n \in Nat : n = Len(sent) + 1
        BY <2>2
      <4>3. n \in DOMAIN sent' /\ sent'[n].layer = layer /\ sent'[n].ts = now
            /\ sent'[n].severity = f.severity /\ seen' < n /\ \A i \in DOMAIN sent' : i <= n
        BY <2>1, <2>2, <3>1
      <4>4. LatestOf(layer, n)'
        BY <4>3 DEF LatestOf
      <4>. QED BY <4>1, <4>2, <4>3, <4>4
    <3>2. CASE layer # incident'.layer
      <4>1. lastSent'[layer] = lastSent[layer]
        BY <2>1, <3>2 DEF AlertsTypeOK
      <4>2. CASE lastSent[layer] = NeverSent
        <5>1. \A i \in DOMAIN sent : seen < i => sent[i].layer # layer
          BY <4>2 DEF Recalled
        <5>. QED BY <2>1, <2>2, <3>2, <4>1, <4>2, <5>1
      <4>3. CASE lastSent[layer] # NeverSent
        <5>1. PICK k \in DOMAIN sent :
                /\ LatestOf(layer, k)
                /\ lastSent[layer] = [ts |-> sent[k].ts, severity |-> sent[k].severity]
          BY <4>3 DEF Recalled
        <5>2. LatestOf(layer, k)'
          BY <2>1, <2>2, <3>2, <5>1 DEF LatestOf
        <5>. QED BY <2>1, <2>2, <4>1, <4>3, <5>1, <5>2
      <4>. QED BY <4>2, <4>3
    <3>. QED BY <3>1, <3>2
  <2>. QED BY <2>3 DEF Recalled
<1>2. CASE Keeps
  BY <1>2 DEF Keeps, Recalled, LatestOf
<1>3. CASE Restarts
  <2>1. \A i \in DOMAIN sent' : ~(seen' < i)
    BY <1>3, SentFacts DEF Restarts
  <2>. QED BY <1>3, <2>1 DEF Restarts, Recalled
<1>. QED BY <1>1, <1>2, <1>3, StepCases

\* Every frame and every empty tick takes the clock and the counters along.
LEMMA SpacedStep ==
  ASSUME AlertsTypeOK, Spaced, [AlertsNext]_vars
  PROVE  Spaced'
<1>. USE ScorerAssumption
<1>0. above \in Nat /\ below \in Nat
  BY DEF AlertsTypeOK, TypeOK
<1>1. ASSUME NEW f \in Frames, NEW delivered, Tick(f, delivered)
      PROVE  Spaced'
  <2>1. /\ now' = now + 1 /\ Observe(f) /\ UNCHANGED <<settings, seen>> /\ TypeOK
        /\ \/ Announces(f)
           \/ UNCHANGED <<lastSent, sent>>
    BY <1>1, TickFacts DEF Announces, AlertsTypeOK
  <2>2. TypeOK' /\ above' \in Nat /\ below' \in Nat
    BY <2>1, ObserveType DEF TypeOK
  <2>3. /\ above' <= above + 1 /\ below' <= below + 1
        /\ incident = NoIncident /\ incident' # NoIncident => below' = 0
        /\ incident # NoIncident /\ incident' = NoIncident => above' = 0 /\ CloseAfter <= below'
    BY <2>1, ObserveMoves
  <2>4. ASSUME NEW i \in DOMAIN sent, seen < i
        PROVE  IF incident' = NoIncident THEN sent[i].ts + CloseAfter + 1 + above' <= now'
                                         ELSE sent[i].ts + 1 + below' <= now'
    <3>1. /\ sent[i].ts \in Nat /\ now \in Nat
          /\ IF incident = NoIncident THEN sent[i].ts + CloseAfter + 1 + above <= now
                                      ELSE sent[i].ts + 1 + below <= now
      BY <2>4, SentFacts DEF Spaced
    <3>. QED BY <1>0, <2>1, <2>2, <2>3, <3>1
  <2>5. CASE Announces(f)
    <3>1. /\ DOMAIN sent' = 1 .. Len(sent) + 1 /\ DOMAIN sent = 1 .. Len(sent) /\ Len(sent) \in Nat
          /\ \A i \in DOMAIN sent : sent'[i] = sent[i]
          /\ sent'[Len(sent) + 1].ts = now /\ now \in Nat
          /\ incident' # NoIncident /\ below' = 0
      BY <2>5, AnnouncesFacts, SentFacts
    <3>2. ASSUME NEW i \in DOMAIN sent', seen < i
          PROVE  sent'[i].ts + 1 + below' <= now'
      <4>1. CASE i \in DOMAIN sent
        BY <2>4, <3>1, <3>2, <4>1
      <4>2. CASE i = Len(sent) + 1
        BY <2>1, <3>1, <4>2
      <4>. QED BY <3>1, <4>1, <4>2
    <3>. QED BY <2>1, <3>1, <3>2 DEF Spaced
  <2>6. CASE UNCHANGED <<lastSent, sent>>
    BY <2>1, <2>4, <2>6 DEF Spaced
  <2>. QED BY <2>1, <2>5, <2>6
<1>2. CASE EmptyTick
  <2>1. now' = now + 1 /\ UNCHANGED <<above, below, incident, sent, seen>>
    BY <1>2 DEF EmptyTick, bellVars
  <2>2. ASSUME NEW i \in DOMAIN sent, seen < i
        PROVE  IF incident = NoIncident THEN sent[i].ts + CloseAfter + 1 + above <= now + 1
                                        ELSE sent[i].ts + 1 + below <= now + 1
    BY <1>0, <2>2, SentFacts DEF Spaced
  <2>. QED BY <2>1, <2>2 DEF Spaced
<1>3. CASE Restart
  <2>1. \A i \in DOMAIN sent' : ~(seen' < i)
    BY <1>3, SentFacts DEF Restart, Bell!Recreate
  <2>. QED BY <2>1 DEF Spaced
<1>4. CASE UNCHANGED vars
  BY <1>4 DEF vars, scorerVars, bellVars, Spaced
<1>. QED BY <1>1, <1>2, <1>3, <1>4 DEF AlertsNext

\* A new notification is a whole episode away from the last one (Spaced).
LEMMA OneAlertStep ==
  ASSUME AlertsTypeOK, Spaced, OneAlertPerEpisode, [AlertsNext]_vars
  PROVE  OneAlertPerEpisode'
<1>. USE ScorerAssumption
<1>1. ASSUME NEW f \in Frames, Announces(f) PROVE OneAlertPerEpisode'
  <2>1. /\ DOMAIN sent' = 1 .. Len(sent) + 1 /\ DOMAIN sent = 1 .. Len(sent) /\ Len(sent) \in Nat
        /\ \A i \in DOMAIN sent : sent'[i] = sent[i]
        /\ \A i \in DOMAIN sent : sent[i].ts \in Nat
        /\ sent'[Len(sent) + 1].ts = now /\ now \in Nat /\ seen' = seen
        /\ incident = NoIncident /\ OpenAfter <= above + 1
    BY <1>1, AnnouncesFacts, SentFacts DEF Announces
  <2>0. above \in Nat
    BY DEF AlertsTypeOK, TypeOK
  <2>2. ASSUME NEW i \in DOMAIN sent', NEW j \in DOMAIN sent', seen' < i, i < j
        PROVE  sent'[j].ts >= sent'[i].ts + OpenAfter + CloseAfter
    <3>1. i \in DOMAIN sent
      BY <2>1, <2>2
    <3>2. CASE j \in DOMAIN sent
      BY <2>1, <2>2, <3>1, <3>2 DEF OneAlertPerEpisode
    <3>3. CASE j = Len(sent) + 1
      <4>1. sent[i].ts + CloseAfter + 1 + above <= now
        BY <2>1, <2>2, <3>1 DEF Spaced
      <4>. QED BY <2>0, <2>1, <3>1, <3>3, <4>1
    <3>. QED BY <2>1, <3>2, <3>3
  <2>. QED BY <2>2 DEF OneAlertPerEpisode
<1>2. CASE Keeps
  BY <1>2 DEF Keeps, OneAlertPerEpisode
<1>3. CASE Restarts
  <2>1. \A i \in DOMAIN sent' : ~(seen' < i)
    BY <1>3, SentFacts DEF Restarts
  <2>. QED BY <2>1 DEF OneAlertPerEpisode
<1>. QED BY <1>1, <1>2, <1>3, StepCases

\* It is let through by what is remembered of its layer (Recalled).
LEMMA OnceStep ==
  ASSUME AlertsTypeOK, InOrder, Recalled, OncePerLevel, [AlertsNext]_vars
  PROVE  OncePerLevel'
<1>1. ASSUME NEW f \in Frames, Announces(f) PROVE OncePerLevel'
  <2>1. /\ DOMAIN sent' = 1 .. Len(sent) + 1 /\ DOMAIN sent = 1 .. Len(sent) /\ Len(sent) \in Nat
        /\ \A i \in DOMAIN sent : sent'[i] = sent[i]
        /\ \A i \in DOMAIN sent : /\ sent[i].ts \in Nat /\ sent[i].severity \in Risk .. Critical
                                  /\ sent[i].ts < now
        /\ sent'[Len(sent) + 1].ts = now /\ now \in Nat /\ seen' = seen /\ settings' = settings
        /\ sent'[Len(sent) + 1].layer = incident'.layer /\ incident'.layer \in Layers
        /\ sent'[Len(sent) + 1].severity = f.severity /\ f.severity \in Risk .. Critical
        /\ Bell!ShouldSend(incident'.layer, f.severity)
    BY <1>1, AnnouncesFacts, SentFacts DEF Announces, InOrder
  <2>2. ASSUME NEW i \in DOMAIN sent', NEW j \in DOMAIN sent', seen' < i, i < j,
               sent'[i].layer = sent'[j].layer, sent'[j].ts < sent'[i].ts + settings'.cooldown
        PROVE  sent'[j].severity > sent'[i].severity
    <3>1. i \in DOMAIN sent
      BY <2>1, <2>2
    <3>2. CASE j \in DOMAIN sent
      BY <2>1, <2>2, <3>1, <3>2 DEF OncePerLevel, Bell!OncePerLevel
    <3>3. CASE j = Len(sent) + 1
      <4>1. seen < i /\ sent[i].layer = incident'.layer /\ now < sent[i].ts + settings.cooldown
        BY <2>1, <2>2, <3>1, <3>3
      <4>2. lastSent[incident'.layer] # NeverSent
        BY <2>1, <3>1, <4>1 DEF Recalled
      <4>3. PICK k \in DOMAIN sent :
              /\ LatestOf(incident'.layer, k)
              /\ lastSent[incident'.layer] = [ts |-> sent[k].ts, severity |-> sent[k].severity]
        BY <2>1, <4>2 DEF Recalled
      <4>4. i <= k /\ seen < k /\ sent[k].layer = incident'.layer
        BY <3>1, <4>1, <4>3 DEF LatestOf
      <4>5. settings.cooldown \in Nat
        BY SettingsFacts DEF AlertsTypeOK
      <4>6. sent[i].ts <= sent[k].ts
        BY <2>1, <3>1, <4>4 DEF InOrder
      <4>7. f.severity > sent[k].severity
        <5>1. ~Bell!Cooling(incident'.layer, f.severity)
          BY <2>1 DEF Bell!ShouldSend
        <5>2. now < sent[k].ts + settings.cooldown
          BY <2>1, <3>1, <4>1, <4>3, <4>5, <4>6
        <5>3. lastSent[incident'.layer].ts = sent[k].ts /\ lastSent[incident'.layer].severity = sent[k].severity
          BY <4>3
        <5>4. ~(f.severity <= sent[k].severity)
          BY <4>2, <5>1, <5>2, <5>3 DEF Bell!Cooling
        <5>5. f.severity \in Nat /\ sent[k].severity \in Nat
          BY <2>1, <4>3, SeverityIsRank DEF Risk, Critical
        <5>. QED BY <5>4, <5>5
      <4>8. i < k => sent[k].severity > sent[i].severity
        <5>1. sent[k].ts < sent[i].ts + settings.cooldown
          BY <2>1, <3>1, <4>1, <4>3, <4>5
        <5>. QED BY <3>1, <4>1, <4>3, <4>4, <5>1 DEF OncePerLevel, Bell!OncePerLevel
      <4>9. sent[i].severity \in Nat /\ sent[k].severity \in Nat /\ f.severity \in Nat
        BY <2>1, <3>1, <4>3 DEF Risk, Critical
      <4>10. i \in Nat /\ k \in Nat
        BY <2>1, <3>1, <4>3
      <4>11. f.severity > sent[i].severity
        BY <4>4, <4>7, <4>8, <4>9, <4>10
      <4>. QED BY <2>1, <3>1, <3>3, <4>11
    <3>. QED BY <2>1, <3>2, <3>3
  <2>. QED BY <2>2 DEF OncePerLevel, Bell!OncePerLevel
<1>2. CASE Keeps
  BY <1>2 DEF Keeps, OncePerLevel, Bell!OncePerLevel
<1>3. CASE Restarts
  <2>1. \A i \in DOMAIN sent' : ~(seen' < i)
    BY <1>3, SentFacts DEF Restarts
  <2>. QED BY <2>1 DEF OncePerLevel, Bell!OncePerLevel
<1>. QED BY <1>1, <1>2, <1>3, StepCases

-----------------------------------------------------------------------------
\* Whatever came at night is critical.
NightKept == \A i \in DOMAIN sent : Bell!Night(sent[i].ts) => sent[i].severity = Critical

\* What is sent at night is critical.
LEMMA NightStep ==
  ASSUME AlertsTypeOK, NightKept, [AlertsNext]_vars
  PROVE  NightKept'
<1>1. ASSUME NEW f \in Frames, Announces(f) PROVE NightKept'
  <2>1. /\ DOMAIN sent' = 1 .. Len(sent) + 1 /\ DOMAIN sent = 1 .. Len(sent) /\ Len(sent) \in Nat
        /\ \A i \in DOMAIN sent : sent'[i] = sent[i]
        /\ sent'[Len(sent) + 1].ts = now /\ now \in Nat /\ settings' = settings
        /\ sent'[Len(sent) + 1].severity = f.severity
        /\ Bell!ShouldSend(incident'.layer, f.severity)
    BY <1>1, AnnouncesFacts, SentFacts DEF Announces
  <2>2. Bell!Night(now) => f.severity = Critical
    <3>1. settings \in Settings
      BY DEF AlertsTypeOK
    <3>2. Bell!InQuietHours(now) => f.severity = Critical
      BY <2>1 DEF Bell!ShouldSend, Critical, Bell!Critical
    <3>. QED BY <2>1, <3>1, <3>2, QuietHoursAreNight
  <2>3. ASSUME NEW i \in DOMAIN sent', Bell!Night(sent'[i].ts)
        PROVE  sent'[i].severity = Critical
    <3>1. CASE i \in DOMAIN sent
      BY <2>1, <2>3, <3>1 DEF NightKept
    <3>2. CASE i = Len(sent) + 1
      BY <2>1, <2>2, <2>3, <3>2
    <3>. QED BY <2>1, <3>1, <3>2
  <2>. QED BY <2>1, <2>3 DEF NightKept, Bell!Night
<1>2. CASE Keeps
  BY <1>2 DEF Keeps, NightKept, Bell!Night
<1>3. CASE Restarts
  BY <1>3 DEF Restarts, NightKept, Bell!Night
<1>. QED BY <1>1, <1>2, <1>3, StepCases

\* Why a notification that is allowed otherwise is held back.
LEMMA CoolingHasReason ==
  ASSUME AlertsTypeOK, Recalled, NEW layer \in Layers, NEW severity \in Nat,
         Bell!Cooling(layer, severity)
  PROVE  \E i \in DOMAIN sent : /\ seen < i /\ sent[i].layer = layer /\ sent[i].severity >= severity
                                /\ now < sent[i].ts + settings.cooldown
<1>1. PICK k \in DOMAIN sent :
        /\ LatestOf(layer, k)
        /\ lastSent[layer] = [ts |-> sent[k].ts, severity |-> sent[k].severity]
  BY DEF Recalled, Bell!Cooling
<1>2. now < sent[k].ts + settings.cooldown /\ severity <= sent[k].severity
  BY <1>1 DEF Bell!Cooling
<1>3. sent[k].severity \in Nat
  BY SentFacts DEF Risk, Critical
<1>. QED BY <1>1, <1>2, <1>3 DEF LatestOf

\* The invariant says why a notification would be held back.
LEMMA QuietFromRecord ==
  ASSUME AlertsTypeOK, Recalled, NightKept
  PROVE  Bell!QuietWithReason
<1>1. \A i \in DOMAIN sent : Bell!Night(sent[i].ts) => sent[i].severity = Bell!Critical
  BY DEF NightKept, Critical, Bell!Critical
<1>2. ASSUME NEW layer \in Layers, NEW severity \in settings.floor .. Bell!Critical,
             settings.enabled, ~Bell!Night(now), ~Bell!ShouldSend(layer, severity)
      PROVE  \E i \in DOMAIN sent : /\ seen < i /\ sent[i].layer = layer /\ sent[i].severity >= severity
                                    /\ now < sent[i].ts + settings.cooldown
  <2>1. settings \in Settings /\ now \in Nat
    BY DEF AlertsTypeOK
  <2>2. settings.floor \in Nat
    BY <2>1, SettingsFacts, SeverityIsRank
  <2>3. severity \in Nat /\ severity >= settings.floor
    BY <2>2 DEF Bell!Critical
  <2>4. ~Bell!InQuietHours(now)
    BY <1>2, <2>1, QuietHoursAreNight
  <2>5. Bell!Cooling(layer, severity)
    BY <1>2, <2>3, <2>4 DEF Bell!ShouldSend
  <2>. QED BY <2>3, <2>5, CoolingHasReason
<1>. QED BY <1>1, <1>2 DEF Bell!QuietWithReason

\* An incident that has just opened in the daytime is one the user has heard of,
\* where notifications are written to a log.
LoggedIsHeard ==
  LET opening == now - 1
  IN  /\ result.opened /\ backend = "log"
      /\ settings.enabled /\ incident.severity >= settings.floor /\ ~Bell!Night(opening)
      => \E i \in DOMAIN sent :
           /\ seen < i /\ sent[i].layer = incident.layer
           /\ sent[i].severity >= incident.severity /\ opening < sent[i].ts + settings.cooldown

\* What is logged on an opening is heard, and nothing is lost of it.
LEMMA LoggedStep ==
  ASSUME AlertsTypeOK, Recalled, LoggedIsHeard, [AlertsNext]_vars
  PROVE  LoggedIsHeard'
<1>1. ASSUME NEW f \in Frames, NEW delivered \in Bell!Answers(backend), Tick(f, delivered)
      PROVE  LoggedIsHeard'
  <2>1. /\ now' = now + 1 /\ Observe(f) /\ UNCHANGED <<settings, seen, backend>> /\ now \in Nat
        /\ \/ Announces(f)
           \/ /\ UNCHANGED <<lastSent, sent>>
              /\ result'.opened /\ delivered => ~Bell!ShouldSend(incident'.layer, f.severity)
    BY <1>1, TickFacts DEF Announces, AlertsTypeOK
  <2>2. settings \in Settings /\ settings.cooldown \in Nat \ {0} /\ settings.floor \in Nat
    BY SettingsFacts, SeverityIsRank DEF AlertsTypeOK
  <2>3. ASSUME result'.opened, backend = "log", settings.enabled,
               incident'.severity >= settings.floor, ~Bell!Night(now)
        PROVE  \E i \in DOMAIN sent' :
                 /\ seen < i /\ sent'[i].layer = incident'.layer
                 /\ sent'[i].severity >= incident'.severity /\ now < sent'[i].ts + settings.cooldown
    <3>1. /\ incident'.layer \in Layers /\ incident'.severity = f.severity /\ f.severity \in Nat
      BY <2>1, <2>3, ObserveMoves DEF AlertsTypeOK, Risk, Critical
    <3>2. CASE Announces(f)
      <4>0. seen < Len(sent) + 1
        BY SentFacts DEF AlertsTypeOK
      <4>1. /\ DOMAIN sent' = 1 .. Len(sent) + 1 /\ Len(sent) \in Nat
            /\ sent'[Len(sent) + 1].layer = incident'.layer
            /\ sent'[Len(sent) + 1].severity = f.severity
            /\ sent'[Len(sent) + 1].ts = now
        BY <3>2, AnnouncesFacts, SentFacts
      <4>2. /\ Len(sent) + 1 \in DOMAIN sent' /\ now < now + settings.cooldown
            /\ f.severity >= incident'.severity
        BY <2>1, <2>2, <3>1, <4>1
      <4>. QED BY <4>0, <4>1, <4>2
    <3>3. CASE ~Announces(f)
      <4>1. delivered
        BY <2>3 DEF Bell!Answers
      <4>2. ~Bell!InQuietHours(now)
        BY <2>1, <2>2, <2>3, QuietHoursAreNight
      <4>3. Bell!Cooling(incident'.layer, f.severity)
        BY <2>1, <2>3, <3>1, <3>3, <4>1, <4>2 DEF Bell!ShouldSend
      <4>4. sent' = sent
        BY <2>1, <3>3
      <4>5. \E i \in DOMAIN sent :
              /\ seen < i /\ sent[i].layer = incident'.layer /\ sent[i].severity >= f.severity
              /\ now < sent[i].ts + settings.cooldown
        BY <3>1, <4>3, CoolingHasReason
      <4>. QED BY <3>1, <4>4, <4>5
    <3>. QED BY <3>2, <3>3
  <2>4. now' - 1 = now
    BY <2>1
  <2>. QED BY <2>1, <2>3, <2>4 DEF LoggedIsHeard, Bell!Night
<1>2. CASE EmptyTick
  BY <1>2 DEF EmptyTick, LoggedIsHeard, Unchanged
<1>3. CASE Restart
  BY <1>3 DEF Restart, LoggedIsHeard, Unchanged
<1>4. CASE UNCHANGED vars
  BY <1>4 DEF vars, scorerVars, bellVars, LoggedIsHeard, Bell!Night
<1>. QED BY <1>1, <1>2, <1>3, <1>4 DEF AlertsNext

-----------------------------------------------------------------------------
\* The inductive invariant of the composition.
AlertsInv ==
  /\ AlertsTypeOK /\ InOrder /\ Recalled /\ Spaced /\ NightKept
  /\ OneAlertPerEpisode /\ OncePerLevel /\ LoggedIsHeard

\* The invariant holds at the start,
LEMMA AlertsInitInv == AlertsInit => AlertsInv
<1> SUFFICES ASSUME AlertsInit PROVE AlertsInv
  OBVIOUS
<1>1. AlertsTypeOK /\ InOrder /\ Recalled /\ Spaced
  BY AlertsInitially
<1>2. DOMAIN sent = {} /\ result = Unchanged
  BY DEF AlertsInit, Bell!Init, Init
<1>3. NightKept /\ OneAlertPerEpisode /\ OncePerLevel
  BY <1>2 DEF NightKept, OneAlertPerEpisode, OncePerLevel, Bell!OncePerLevel
<1>4. LoggedIsHeard
  BY <1>2 DEF LoggedIsHeard, Unchanged
<1>. QED BY <1>1, <1>3, <1>4 DEF AlertsInv

\* every step keeps it,
LEMMA AlertsStepInv == AlertsInv /\ [AlertsNext]_vars => AlertsInv'
<1> SUFFICES ASSUME AlertsInv, [AlertsNext]_vars PROVE AlertsInv'
  OBVIOUS
<1>. USE DEF AlertsInv
<1>1. AlertsTypeOK' /\ InOrder'
  BY AlertsType
<1>2. Recalled' /\ Spaced'
  BY RecalledStep, SpacedStep
<1>3. NightKept' /\ LoggedIsHeard'
  BY NightStep, LoggedStep
<1>4. OneAlertPerEpisode' /\ OncePerLevel'
  BY OneAlertStep, OnceStep
<1>. QED BY <1>1, <1>2, <1>3, <1>4

\* and so it always holds.
LEMMA AlertsAlways == AlertsSpec => []AlertsInv
<1>1. AlertsInit => AlertsInv
  BY AlertsInitInv
<1>2. AlertsInv /\ [AlertsNext]_vars => AlertsInv'
  BY AlertsStepInv
<1>. QED BY <1>1, <1>2, PTL DEF AlertsSpec

\* An episode interrupts the user once: between two notifications of one run of
\* the agent lie a whole quiet run and a whole alerting run of frames.
THEOREM OneAlertCorrect == AlertsSpec => []OneAlertPerEpisode
<1>1. AlertsInv => OneAlertPerEpisode
  BY DEF AlertsInv
<1>. QED BY <1>1, AlertsAlways, PTL

\* Within a cooldown a layer interrupts again only for a worse severity.
THEOREM OncePerLevelCorrect == AlertsSpec => []OncePerLevel
<1>1. AlertsInv => OncePerLevel
  BY DEF AlertsInv
<1>. QED BY <1>1, AlertsAlways, PTL

\* The comparisons of _in_quiet_hours keep every night, for any day length and any
\* window, and a notification that is held back in the daytime has its reason.
THEOREM QuietHoursCorrect == AlertsSpec => []QuietWithReason
<1>1. AlertsInv => QuietWithReason
  <2>1. LoggedIsHeard => (Bell!QuietWithReason => QuietWithReason)
    BY DEF LoggedIsHeard, QuietWithReason
  <2>. QED BY <2>1, QuietFromRecord DEF AlertsInv
<1>. QED BY <1>1, AlertsAlways, PTL

-----------------------------------------------------------------------------
\* The harness next to the agent.
ReplayTypeOK ==
  /\ warmFrom \in Nat
  /\ lastAlert \in [Layers -> Nat \cup {NoAlert}]
  /\ alerts \in [Layers -> Nat]

\* The interruptions a count stands for: those before its alert were paid for by
\* earlier counts, and those since are of rising severities.
PaidFor(layer) ==
  \/ Cardinality(Shown(layer)) <= 2 * (alerts[layer] - 1)
  \/ \E k \in DOMAIN sent :
       /\ LatestOf(layer, k) /\ sent[k].ts >= lastAlert[layer]
       /\ Cardinality(Shown(layer)) <= 2 * (alerts[layer] - 1) + sent[k].severity - 1

\* Every notification about a layer is paid for by the counts of its alerts.
Counted ==
  \A layer \in Layers :
    IF lastAlert[layer] = NoAlert
      THEN Shown(layer) = {}
      ELSE /\ warmFrom <= lastAlert[layer] /\ lastAlert[layer] < now
           /\ alerts[layer] >= 1
           /\ PaidFor(layer)

\* The inductive invariant of the replay.
ReplayInv == AlertsInv /\ ReplayTypeOK /\ Counted

\* A replay shows finitely many notifications.
LEMMA ShownFinite ==
  ASSUME AlertsTypeOK, NEW layer
  PROVE  IsFiniteSet(Shown(layer)) /\ Cardinality(Shown(layer)) \in Nat
<1>1. Shown(layer) \subseteq 1 .. Len(sent) /\ Len(sent) \in Nat
  BY SentFacts DEF Shown
<1>2. IsFiniteSet(1 .. Len(sent))
  BY <1>1, FS_Interval
<1>. QED BY <1>1, <1>2, FS_Subset, FS_CardinalityType

\* A notification is shown once more of its own layer and of no other.
LEMMA ShownMore ==
  ASSUME AlertsTypeOK, UNCHANGED warmFrom, NEW f \in Frames, Announces(f), NEW layer \in Layers
  PROVE  IF layer = incident'.layer /\ now >= warmFrom
           THEN /\ Cardinality(Shown(layer)') = Cardinality(Shown(layer)) + 1
                /\ \E k \in DOMAIN sent' : LatestOf(layer, k)' /\ sent'[k].ts = now
                                           /\ sent'[k].severity = f.severity
           ELSE Shown(layer)' = Shown(layer)
<1>1. /\ DOMAIN sent' = 1 .. Len(sent) + 1 /\ DOMAIN sent = 1 .. Len(sent) /\ Len(sent) \in Nat
      /\ \A i \in DOMAIN sent : sent'[i] = sent[i]
      /\ sent'[Len(sent) + 1].layer = incident'.layer
      /\ sent'[Len(sent) + 1].severity = f.severity
      /\ sent'[Len(sent) + 1].ts = now
  BY AnnouncesFacts, SentFacts
<1>2. seen' = seen /\ warmFrom' = warmFrom /\ seen < Len(sent) + 1
  BY SentFacts DEF Announces, AlertsTypeOK
<1>3. CASE layer = incident'.layer /\ now >= warmFrom
  <2>. DEFINE new == Len(sent) + 1
  <2>1. Shown(layer)' = Shown(layer) \cup {new} /\ new \notin Shown(layer)
    BY <1>1, <1>2, <1>3 DEF Shown
  <2>2. Cardinality(Shown(layer)') = Cardinality(Shown(layer)) + 1
    <3>1. IsFiniteSet(Shown(layer))
      BY ShownFinite
    <3>. HIDE DEF new
    <3>. QED BY <2>1, <3>1, FS_AddElement
  <2>3. PICK k \in DOMAIN sent' : k = Len(sent) + 1
    BY <1>1
  <2>4. sent'[k].layer = layer /\ seen' < k /\ \A i \in DOMAIN sent' : i <= k
    BY <1>1, <1>2, <1>3, <2>3
  <2>5. LatestOf(layer, k)'
    BY <2>3, <2>4 DEF LatestOf
  <2>6. sent'[k].ts = now /\ sent'[k].severity = f.severity
    BY <1>1, <2>3
  <2>. QED BY <1>3, <2>2, <2>3, <2>5, <2>6
<1>4. CASE ~(layer = incident'.layer /\ now >= warmFrom)
  BY <1>1, <1>2, <1>4 DEF Shown
<1>. QED BY <1>3, <1>4

\* One opening, and what the harness makes of it.
LEMMA OpeningIsCounted ==
  ASSUME ReplayInv, NEW f \in Frames, Observe(f), now' = now + 1,
         UNCHANGED <<settings, seen, backend, warmFrom>>,
         Announces(f) \/ UNCHANGED <<lastSent, sent>>, Tally
  PROVE  ReplayTypeOK' /\ Counted'
<1>. USE DEF ReplayInv, AlertsInv
<1>1. /\ now \in Nat /\ warmFrom \in Nat /\ NoAlert \notin Nat /\ settings.cooldown \in Nat
      /\ lastAlert \in [Layers -> Nat \cup {NoAlert}] /\ alerts \in [Layers -> Nat]
  BY ReplayAssumption, SettingsFacts DEF ReplayTypeOK, AlertsTypeOK
<1>2. result'.opened => incident'.layer \in Layers
  BY ObserveMoves DEF AlertsTypeOK
<1>3. ReplayTypeOK'
  <2>1. CASE UNCHANGED <<lastAlert, alerts>>
    BY <1>1, <2>1 DEF ReplayTypeOK
  <2>2. CASE ~UNCHANGED <<lastAlert, alerts>>
    <3>1. /\ result'.opened
          /\ lastAlert' = [lastAlert EXCEPT ![incident'.layer] = now]
          /\ alerts' = [alerts EXCEPT ![incident'.layer] = @ + 1]
      BY <2>2 DEF Tally
    <3>. QED BY <1>1, <1>2, <3>1 DEF ReplayTypeOK
  <2>. QED BY <2>1, <2>2
<1>4. ASSUME NEW layer \in Layers
      PROVE  IF lastAlert'[layer] = NoAlert
               THEN Shown(layer)' = {}
               ELSE /\ warmFrom' <= lastAlert'[layer] /\ lastAlert'[layer] < now'
                    /\ alerts'[layer] >= 1
                    /\ PaidFor(layer)'
  <2>1. /\ alerts[layer] \in Nat /\ lastAlert[layer] \in Nat \cup {NoAlert}
        /\ Cardinality(Shown(layer)) \in Nat
    BY <1>1, ShownFinite
  <2>2. \A k \in DOMAIN sent : sent[k].severity \in 2 .. 3 /\ sent[k].ts \in Nat
    BY SentFacts DEF Risk, Critical
  \* Either this layer opens and is counted, or its count stays.
  <2>3. \/ /\ result'.opened /\ layer = incident'.layer /\ now >= warmFrom /\ ~Repeated(layer)
           /\ lastAlert'[layer] = now /\ alerts'[layer] = alerts[layer] + 1
        \/ /\ lastAlert'[layer] = lastAlert[layer] /\ alerts'[layer] = alerts[layer]
           /\ result'.opened /\ layer = incident'.layer /\ now >= warmFrom => Repeated(layer)
    BY <1>1 DEF Tally
  <2>4. CASE /\ result'.opened /\ layer = incident'.layer /\ now >= warmFrom
             /\ lastAlert'[layer] = now /\ alerts'[layer] = alerts[layer] + 1
    <3>1. Cardinality(Shown(layer)) <= 2 * alerts[layer]
      <4>1. CASE lastAlert[layer] = NoAlert
        <5>1. Shown(layer) = {}
          BY <4>1 DEF Counted
        <5>2. Cardinality(Shown(layer)) = 0
          BY <5>1, FS_EmptySet
        <5>. QED BY <2>1, <5>2
      <4>2. CASE lastAlert[layer] # NoAlert
        <5>1. alerts[layer] >= 1 /\ PaidFor(layer)
          BY <4>2 DEF Counted
        <5>. QED BY <2>1, <2>2, <5>1 DEF PaidFor
      <4>. QED BY <4>1, <4>2
    <3>2. PaidFor(layer)'
      <4>1. CASE Announces(f)
        <5>1. /\ Cardinality(Shown(layer)') = Cardinality(Shown(layer)) + 1
              /\ f.severity \in 2 .. 3
          BY <2>4, <4>1, ShownMore, AnnouncesFacts DEF Risk, Critical
        <5>2. PICK k \in DOMAIN sent' : LatestOf(layer, k)' /\ sent'[k].ts = now
                                        /\ sent'[k].severity = f.severity
          BY <2>4, <4>1, ShownMore
        <5>3. Cardinality(Shown(layer)') <= 2 * (alerts'[layer] - 1) + f.severity - 1
          BY <2>1, <2>4, <3>1, <5>1
        <5>4. sent'[k].ts >= lastAlert'[layer]
          BY <1>1, <2>4, <5>2
        <5>. QED BY <5>2, <5>3, <5>4 DEF PaidFor
      <4>2. CASE UNCHANGED <<lastSent, sent>>
        <5>1. Shown(layer)' = Shown(layer)
          BY <4>2 DEF Shown
        <5>2. Cardinality(Shown(layer)') <= 2 * (alerts'[layer] - 1)
          BY <2>1, <2>4, <3>1, <5>1
        <5>. QED BY <5>2 DEF PaidFor
      <4>. QED BY <4>1, <4>2
    <3>. QED BY <1>1, <2>1, <2>4, <3>2
  <2>5. CASE /\ lastAlert'[layer] = lastAlert[layer] /\ alerts'[layer] = alerts[layer]
             /\ result'.opened /\ layer = incident'.layer /\ now >= warmFrom => Repeated(layer)
    <3>1. CASE Shown(layer)' = Shown(layer)
               /\ \A k \in DOMAIN sent : LatestOf(layer, k) /\ lastAlert[layer] # NoAlert
                    => LatestOf(layer, k)' /\ k \in DOMAIN sent' /\ sent'[k] = sent[k]
      <4>1. CASE lastAlert[layer] = NoAlert
        BY <2>5, <3>1, <4>1 DEF Counted
      <4>2. CASE lastAlert[layer] # NoAlert
        <5>1. /\ warmFrom <= lastAlert[layer] /\ lastAlert[layer] < now
              /\ alerts[layer] >= 1 /\ PaidFor(layer)
          BY <4>2 DEF Counted
        <5>2. PaidFor(layer)'
          BY <2>5, <3>1, <4>2, <5>1 DEF PaidFor
        <5>. QED BY <1>1, <2>1, <2>5, <4>2, <5>1, <5>2
      <4>. QED BY <4>1, <4>2
    <3>2. CASE UNCHANGED <<lastSent, sent>>
      BY <3>1, <3>2 DEF Shown, LatestOf
    <3>3. CASE Announces(f) /\ layer # incident'.layer
      <4>1. Shown(layer)' = Shown(layer)
        BY <3>3, ShownMore
      <4>2. /\ DOMAIN sent' = 1 .. Len(sent) + 1 /\ DOMAIN sent = 1 .. Len(sent) /\ Len(sent) \in Nat
            /\ \A i \in DOMAIN sent : sent'[i] = sent[i]
            /\ sent'[Len(sent) + 1].layer = incident'.layer
        BY <3>3, AnnouncesFacts, SentFacts
      <4>3. \A k \in DOMAIN sent : LatestOf(layer, k) => LatestOf(layer, k)'
        BY <3>3, <4>2 DEF LatestOf
      <4>. QED BY <3>1, <4>1, <4>2, <4>3
    <3>4. CASE Announces(f) /\ layer = incident'.layer /\ ~(now >= warmFrom)
      <4>1. Shown(layer)' = Shown(layer)
        BY <3>4, ShownMore
      <4>2. lastAlert[layer] = NoAlert
        BY <1>1, <2>1, <3>4 DEF Counted
      <4>. QED BY <3>1, <4>1, <4>2
    <3>5. CASE Announces(f) /\ layer = incident'.layer /\ now >= warmFrom
      <4>1. /\ lastAlert[layer] # NoAlert /\ now < lastAlert[layer] + settings.cooldown
            /\ warmFrom <= lastAlert[layer] /\ lastAlert[layer] < now
            /\ alerts[layer] >= 1 /\ PaidFor(layer) /\ lastAlert[layer] \in Nat
        BY <1>1, <2>1, <2>5, <3>5 DEF Announces, Repeated, Counted
      <4>2. /\ Cardinality(Shown(layer)') = Cardinality(Shown(layer)) + 1
            /\ f.severity \in 2 .. 3
            /\ Bell!ShouldSend(layer, f.severity)
        BY <3>5, ShownMore, AnnouncesFacts DEF Risk, Critical
      <4>3. PICK k \in DOMAIN sent' : LatestOf(layer, k)' /\ sent'[k].ts = now
                                      /\ sent'[k].severity = f.severity
        BY <3>5, ShownMore
      <4>4. Cardinality(Shown(layer)) + 1 <= 2 * (alerts[layer] - 1) + f.severity - 1
        <5>1. CASE Cardinality(Shown(layer)) <= 2 * (alerts[layer] - 1)
          BY <2>1, <4>2, <5>1
        <5>2. ASSUME NEW l \in DOMAIN sent, LatestOf(layer, l), sent[l].ts >= lastAlert[layer],
                     Cardinality(Shown(layer)) <= 2 * (alerts[layer] - 1) + sent[l].severity - 1
              PROVE  Cardinality(Shown(layer)) + 1 <= 2 * (alerts[layer] - 1) + f.severity - 1
          <6>1. lastSent[layer] = [ts |-> sent[l].ts, severity |-> sent[l].severity]
                /\ lastSent[layer] # NeverSent
            <7>1. lastSent[layer] # NeverSent
              BY <5>2 DEF Recalled, LatestOf
            <7>2. PICK m \in DOMAIN sent :
                    /\ LatestOf(layer, m)
                    /\ lastSent[layer] = [ts |-> sent[m].ts, severity |-> sent[m].severity]
              BY <7>1 DEF Recalled
            <7>3. m = l
              <8>1. m <= l /\ l <= m
                BY <5>2, <7>2 DEF LatestOf
              <8>. QED BY <5>2, <7>2, <8>1, SentFacts
            <7>. QED BY <7>1, <7>2, <7>3
          <6>2. now < sent[l].ts + settings.cooldown
            BY <1>1, <2>2, <4>1, <5>2
          <6>3. ~(f.severity <= sent[l].severity)
            BY <4>2, <6>1, <6>2 DEF Bell!ShouldSend, Bell!Cooling
          <6>. QED BY <2>1, <2>2, <4>2, <5>2, <6>3
        <5>. QED BY <4>1, <5>1, <5>2 DEF PaidFor
      <4>5. PaidFor(layer)'
        BY <1>1, <2>1, <2>5, <4>1, <4>2, <4>3, <4>4 DEF PaidFor
      <4>. QED BY <1>1, <2>5, <4>1, <4>5
    <3>. QED BY <3>2, <3>3, <3>4, <3>5
  <2>. QED BY <2>3, <2>4, <2>5
<1>. QED BY <1>3, <1>4 DEF Counted

\* Before the first recording nothing is counted.
LEMMA ReplayInitially == ReplayInit => ReplayInv
<1> SUFFICES ASSUME ReplayInit PROVE ReplayInv
  OBVIOUS
<1>1. AlertsInv /\ DOMAIN sent = {}
  BY AlertsInitInv DEF ReplayInit, AlertsInit, Bell!Init
<1>2. ReplayTypeOK
  BY ReplayAssumption DEF ReplayInit, ReplayTypeOK
<1>3. Counted
  BY <1>1 DEF ReplayInit, Counted, Shown
<1>. QED BY <1>1, <1>2, <1>3 DEF ReplayInv

\* Every step of the replay is one of the agent and its notifier, or leaves
\* them alone.
LEMMA ReplayIsAlerts == [ReplayNext]_replayVars => [AlertsNext]_vars
BY DEF ReplayNext, AlertsNext, NextRecording, replayVars

\* Every step of the replay keeps the count.
LEMMA ReplayStep == ReplayInv /\ [ReplayNext]_replayVars => ReplayInv'
<1> SUFFICES ASSUME ReplayInv, [ReplayNext]_replayVars PROVE ReplayInv'
  OBVIOUS
<1>1. AlertsInv'
  BY ReplayIsAlerts, AlertsStepInv DEF ReplayInv
<1>2. ASSUME NEW f \in Frames, NEW delivered, Tick(f, delivered), Tally, UNCHANGED warmFrom
      PROVE  ReplayTypeOK' /\ Counted'
  <2>1. /\ now' = now + 1 /\ Observe(f) /\ UNCHANGED <<settings, seen, backend>>
        /\ Announces(f) \/ UNCHANGED <<lastSent, sent>>
    BY <1>2, TickFacts DEF Announces
  <2>. QED BY <1>2, <2>1, OpeningIsCounted
<1>3. ASSUME UNCHANGED <<warmFrom, lastAlert, alerts, lastSent, sent, seen>>,
             now' \in {now, now + 1}
      PROVE  ReplayTypeOK' /\ Counted'
  <2>1. now \in Nat /\ ReplayTypeOK
    BY DEF ReplayInv, AlertsInv, AlertsTypeOK
  <2>2. \A layer : Shown(layer)' = Shown(layer) /\ (PaidFor(layer)' <=> PaidFor(layer))
    BY <1>3 DEF Shown, PaidFor, LatestOf
  <2>3. ASSUME NEW layer \in Layers
        PROVE  IF lastAlert'[layer] = NoAlert
                 THEN Shown(layer)' = {}
                 ELSE /\ warmFrom' <= lastAlert'[layer] /\ lastAlert'[layer] < now'
                      /\ alerts'[layer] >= 1
                      /\ PaidFor(layer)'
    <3>1. lastAlert[layer] \in Nat \cup {NoAlert}
      BY <2>1 DEF ReplayTypeOK
    <3>. QED BY <1>3, <2>1, <2>2, <3>1 DEF ReplayInv, Counted
  <2>. QED BY <1>3, <2>1, <2>3 DEF Counted, ReplayTypeOK
<1>4. ASSUME NextRecording PROVE ReplayTypeOK' /\ Counted'
  <2>1. /\ seen' = Len(sent) /\ sent' = sent /\ warmFrom' = warmFrom
        /\ lastAlert' = [layer \in Layers |-> NoAlert]
        /\ alerts' = [layer \in Layers |-> 0]
    BY <1>4 DEF NextRecording, Restart, Bell!Recreate
  <2>2. \A layer : Shown(layer)' = {}
    <3>1. \A i \in DOMAIN sent' : ~(seen' < i)
      BY <2>1, SentFacts DEF ReplayInv, AlertsInv
    <3>. QED BY <3>1 DEF Shown
  <2>. QED BY <2>1, <2>2 DEF Counted, ReplayTypeOK, ReplayInv
<1>5. ASSUME EmptyTick, UNCHANGED <<warmFrom, lastAlert, alerts>>
      PROVE  ReplayTypeOK' /\ Counted'
  BY <1>3, <1>5 DEF EmptyTick, bellVars
<1>6. ASSUME UNCHANGED replayVars PROVE ReplayTypeOK' /\ Counted'
  BY <1>3, <1>6 DEF replayVars, vars, bellVars
<1>7. ReplayTypeOK' /\ Counted'
  BY <1>2, <1>4, <1>5, <1>6 DEF ReplayNext
<1>. QED BY <1>1, <1>7 DEF ReplayInv

\* Whatever the harness counts, the agent it stands for interrupts at most once
\* per count and level of alert.
THEOREM CountBoundCorrect == ReplaySpec => []CountBoundsInterruptions
<1>1. ReplayInit => ReplayInv
  BY ReplayInitially
<1>2. ReplayInv /\ [ReplayNext]_replayVars => ReplayInv'
  BY ReplayStep
<1>3. ReplayInv => CountBoundsInterruptions
  <2> SUFFICES ASSUME ReplayInv, NEW layer \in Layers
               PROVE  Cardinality(Shown(layer)) <= alerts[layer] * Cardinality(Risk .. Critical)
    BY DEF CountBoundsInterruptions
  <2>1. /\ alerts[layer] \in Nat /\ Cardinality(Shown(layer)) \in Nat
        /\ \A k \in DOMAIN sent : sent[k].severity \in 2 .. 3
    BY ShownFinite, SentFacts DEF ReplayInv, AlertsInv, ReplayTypeOK, Risk, Critical
  <2>2. Cardinality(Risk .. Critical) = 2
    <3>1. \A a, b \in Int : a <= b => Cardinality(a .. b) = b - a + 1
      BY FS_Interval
    <3>2. Risk \in Int /\ Critical \in Int /\ Risk <= Critical /\ Critical - Risk + 1 = 2
      BY DEF Risk, Critical
    <3>. QED BY <3>1, <3>2
  <2>3. CASE lastAlert[layer] = NoAlert
    <3>1. Shown(layer) = {}
      BY <2>3 DEF ReplayInv, Counted
    <3>2. Cardinality(Shown(layer)) = 0
      BY <3>1, FS_EmptySet
    <3>. QED BY <2>1, <2>2, <3>2
  <2>4. CASE lastAlert[layer] # NoAlert
    <3>1. alerts[layer] >= 1 /\ PaidFor(layer)
      BY <2>4 DEF ReplayInv, Counted
    <3>2. Cardinality(Shown(layer)) <= alerts[layer] * 2
      BY <2>1, <3>1 DEF PaidFor
    <3>. QED BY <2>2, <3>2
  <2>. QED BY <2>3, <2>4
<1>. QED BY <1>1, <1>2, <1>3, PTL DEF ReplaySpec

\* The replay harness watches the same agent: what is proved of its notifications
\* holds of every replay.
THEOREM ReplayImplementsAlerts == ReplaySpec => AlertsSpec
<1>1. ReplayInit => AlertsInit
  BY DEF ReplayInit
<1>2. [ReplayNext]_replayVars => [AlertsNext]_vars
  BY ReplayIsAlerts
<1>. QED BY <1>1, <1>2, PTL DEF ReplaySpec, AlertsSpec
=============================================================================
