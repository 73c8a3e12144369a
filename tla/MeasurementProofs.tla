------------------------- MODULE MeasurementProofs --------------------------
(***************************************************************************)
(* From the wire to the frame.  The first part is about what the rounds    *)
(* of the collectors say, the second about how it gets to the scorer.      *)
(***************************************************************************)
EXTENDS Rounds, Pipeline, FiniteSetTheorems, TLAPS, WellFoundedInduction

(***************************************************************************)
(* What the rounds say, for any networks, collectors, targets, lifetimes   *)
(* of the route cache and moves.  Beside TypeOK the inductive invariant    *)
(* says where the cache was filled (Cached), what holds of a round until   *)
(* it ends (Underway: where it was begun, and that it has counted what it  *)
(* has heard), and what the memories of the gateway and of TCP rest on     *)
(* (Witnessed).  The properties speak of the round that has just ended,    *)
(* so each follows from the step that ended it.                            *)
(***************************************************************************)
USE RoundsAssumption

\* Where a host may be.
Places == Networks \cup {Nowhere}

\* The host was there when the cache was filled.
Cached ==
  /\ here \in visited
  /\ route.known => route.net \in visited /\ route.at <= now
  /\ route.known /\ route.net \in Networks => route.net = here \/ route.at <= was[route.net]

\* A round that asked for the route asked while the host was there, or soon after.
Near(r) ==
  /\ r.since <= now
  /\ r.about \in Networks =>
       /\ r.about \in visited
       /\ r.about = here \/ r.since < was[r.about] + TTL

\* What a round counted is what came back.
Sums(r) ==
  /\ r.failed <= r.sent
  /\ TRUE \in r.heard <=> r.failed < r.sent
  /\ FALSE \in r.heard <=> r.failed > 0

\* What holds of a round until it ends.
Underway(c, r) ==
  /\ Near(r)
  /\ c \in Tallying => Sums(r) /\ r.left > 0
  /\ c = "gateway" => r.about # Nowhere
  /\ c = "captive" => r.read \in {"nothing", "head"}

\* A gateway answered, segments were resent, because there was one and they were.
Witnessed ==
  /\ answered => ~(visited \subseteq Silent \cup {Nowhere})
  /\ wire = "resent" /\ previous.segments => watched

\* The inductive invariant.
IInv == TypeOK /\ Cached /\ Witnessed /\ \A c \in AllCollectors : round[c].on => Underway(c, round[c])

\* What a round says when it ends, in the terms of the round.
Right(c, r, says) ==
  /\ Near(r)
  /\ says \in {"radio", "roamed"} => InterfaceKind(r.about) # "ethernet"
  /\ says = "loss" => r.heard = {FALSE}
  /\ says = "fine" => r.heard = {TRUE}
  /\ says = "partial" => r.heard = BOOLEAN
  /\ c \in Tallying /\ says = "nothing" => r.heard = {}
  /\ c = "gateway" /\ says \in {"loss", "partial"} => ~(visited \subseteq Silent \cup {Nowhere})
  /\ c = "system" /\ r.read = "resent" => watched
  /\ c = "captive" /\ says = "clear" => r.page = "expected"
  /\ c = "captive" /\ says = "portal" /\ r.page = "expected" => r.read = "part"

\* What the rounds say.
Spoken == SpeaksOfHere /\ SaysWhatTheWireSaid /\ PortalIsSeen

-----------------------------------------------------------------------------
\* Rounds are rounds.
LEMMA Rounded ==
  ASSUME TypeOK
  PROVE  Idle \in Round /\ ~Idle.on /\ Begun \in Round
BY DEF TypeOK, Idle, Begun, Round, Stages, Sendings

\* What the end of a round does ...
LEMMA Ends ==
  ASSUME TypeOK, NEW c \in AllCollectors, NEW r \in Round, NEW says \in Sayings, End(c, r, says)
  PROVE  /\ round' \in [AllCollectors -> Round]
         /\ ~round'[c].on /\ \A d \in AllCollectors \ {c} : round'[d] = round[d]
         /\ failures' \in [AllCollectors -> 0 .. 2]
         /\ result' = [by |-> c, says |-> says, round |-> r]
         /\ result' \in [by : AllCollectors \cup {"nobody"}, says : Sayings, round : Round]
<1>1. round' = [round EXCEPT ![c] = Idle] /\ result' = [by |-> c, says |-> says, round |-> r]
  BY DEF End
<1>2. failures' \in [AllCollectors -> 0 .. 2]
  BY DEF End, TypeOK
<1>. QED BY <1>1, <1>2, Rounded DEF TypeOK

\* ... and what its going on does.
LEMMA Continues ==
  ASSUME TypeOK, NEW c \in AllCollectors, NEW r \in Round, Goes(c, r)
  PROVE  /\ round' \in [AllCollectors -> Round]
         /\ round'[c] = r /\ \A d \in AllCollectors \ {c} : round'[d] = round[d]
         /\ failures' = failures /\ result' = NoResult
         /\ result' \in [by : AllCollectors \cup {"nobody"}, says : Sayings, round : Round]
BY Rounded DEF Goes, TypeOK, NoResult, Sayings

\* The route that a round finds.
LEMMA Resolves ==
  ASSUME TypeOK
  PROVE  /\ Resolve \in [net : Places, at : Nat, known : BOOLEAN]
         /\ Resolve.known
         /\ \/ Resolve = route /\ route.known /\ now - route.at < TTL
            \/ Resolve.net = here /\ Resolve.at = now
<1>1. route \in [net : Places, at : Nat, known : BOOLEAN]
  BY DEF TypeOK, Places
<1>2. Discovered \in [net : Places, at : Nat, known : BOOLEAN] /\ Discovered.known
      /\ Discovered.net = here /\ Discovered.at = now
  BY DEF TypeOK, Discovered, Places
<1>3. CASE route.known /\ now - route.at < TTL
  <2>1. Resolve = route
    BY <1>3 DEF Resolve
  <2>2. Resolve \in [net : Places, at : Nat, known : BOOLEAN]
    BY <1>1, <2>1
  <2>3. Resolve.known
    BY <1>3, <2>1, Zenon
  <2>. QED BY <1>3, <2>1, <2>2, <2>3, Zenon
<1>4. CASE ~(route.known /\ now - route.at < TTL)
  <2>1. Resolve = Discovered
    BY <1>4 DEF Resolve
  <2>. QED BY <1>2, <2>1
<1>. QED BY <1>3, <1>4

\* What is said of the probes is one of the sayings.
LEMMA VerdictSays ==
  ASSUME NEW sent, NEW failed
  PROVE  Verdict(sent, failed) \in Sayings
BY DEF Verdict, Sayings

\* The counts of a verdict.
LEMMA VerdictCounts ==
  ASSUME NEW sent \in Nat, NEW failed \in Nat, failed <= sent
  PROVE  /\ Verdict(sent, failed) = "loss" => failed > 0 /\ ~(failed < sent)
         /\ Verdict(sent, failed) = "fine" => ~(failed > 0) /\ failed < sent
         /\ Verdict(sent, failed) = "partial" => failed > 0 /\ failed < sent
         /\ Verdict(sent, failed) = "nothing" => ~(failed > 0) /\ ~(failed < sent)
<1>1. CASE sent = 0
  <2>1. Verdict(sent, failed) = "nothing"
    BY <1>1, SMT DEF Verdict
  <2>. QED BY <1>1, <2>1
<1>2. CASE sent # 0 /\ failed = sent
  BY <1>2 DEF Verdict
<1>3. CASE sent # 0 /\ failed # sent /\ failed = 0
  BY <1>3 DEF Verdict
<1>4. CASE sent # 0 /\ failed # sent /\ failed # 0
  <2>1. Verdict(sent, failed) = "partial"
    BY <1>4, Zenon DEF Verdict
  <2>. QED BY <1>4, <2>1
<1>. QED BY <1>1, <1>2, <1>3, <1>4

\* A probe is counted by what became of it.
LEMMA Counts ==
  ASSUME NEW r \in Round, r.left > 0, NEW granted \in BOOLEAN, NEW ok \in BOOLEAN
  PROVE  /\ Counted(r, granted, ok) \in Round
         /\ Counted(r, granted, ok).on = r.on
         /\ Sums(r) => Sums(Counted(r, granted, ok))
<1>. DEFINE q == Counted(r, granted, ok)
<1>1. r.left \in Nat /\ r.sent \in Nat /\ r.failed \in Nat /\ r.heard \in SUBSET BOOLEAN
  BY DEF Round
<1>2. CASE ~granted
  <2>1. q = [r EXCEPT !.left = @ - 1]
    BY <1>2 DEF Counted
  <2>2. r.left - 1 \in Nat
    BY <1>1
  <2>3. q \in Round /\ q.on = r.on /\ q.sent = r.sent /\ q.failed = r.failed /\ q.heard = r.heard
    BY <2>1, <2>2 DEF Round
  <2>. QED BY <2>3 DEF Sums
<1>3. CASE granted
  <2>. DEFINE f == IF ok THEN r.failed ELSE r.failed + 1
  <2>1. q = [r EXCEPT !.left = r.left - 1, !.sent = r.sent + 1, !.failed = f,
                      !.heard = r.heard \cup {ok}]
    BY <1>3 DEF Counted, Round
  <2>2. r.left - 1 \in Nat /\ r.sent + 1 \in Nat /\ f \in Nat
        /\ r.heard \cup {ok} \in SUBSET BOOLEAN
    BY <1>1
  <2>. HIDE DEF f
  <2>3. q \in Round /\ q.on = r.on /\ q.sent = r.sent + 1 /\ q.failed = f
        /\ q.heard = r.heard \cup {ok}
    BY <2>1, <2>2 DEF Round
  <2>4. f = IF ok THEN r.failed ELSE r.failed + 1
    BY DEF f
  <2>. HIDE DEF q
  <2>5. ASSUME Sums(r) PROVE Sums(q)
    <3>0. r.failed <= r.sent
      BY <2>5 DEF Sums
    <3>1. CASE ok
      <4>1. q.heard = r.heard \cup {TRUE} /\ q.failed = r.failed
        BY <2>3, <2>4, <3>1, Zenon
      <4>2. TRUE \in q.heard /\ (FALSE \in q.heard <=> FALSE \in r.heard)
        BY <4>1, Zenon
      <4>3. q.failed < q.sent /\ q.failed <= q.sent
        BY <1>1, <2>3, <3>0, <4>1
      <4>. QED BY <2>5, <4>1, <4>2, <4>3, Zenon DEF Sums
    <3>2. CASE ~ok
      <4>1. q.heard = r.heard \cup {FALSE} /\ q.failed = r.failed + 1
        BY <2>3, <2>4, <3>2, Zenon
      <4>2. FALSE \in q.heard /\ (TRUE \in q.heard <=> TRUE \in r.heard)
        BY <4>1, Zenon
      <4>3. q.failed <= q.sent /\ q.failed > 0 /\ (q.failed < q.sent <=> r.failed < r.sent)
        BY <1>1, <2>3, <3>0, <4>1
      <4>. QED BY <2>5, <4>2, <4>3, Zenon DEF Sums
    <3>. QED BY <3>1, <3>2
  <2>. QED BY <2>3, <2>5 DEF q
<1>. QED BY <1>2, <1>3

-----------------------------------------------------------------------------
\* The variables keep their types.
LEMMA InitType == Init => TypeOK
<1> SUFFICES ASSUME Init PROVE TypeOK
  OBVIOUS
<1>1. Idle \in Round /\ ~Idle.on
  BY DEF Init, Idle, Round, Stages, Sendings
<1>2. NoResult \in [by : AllCollectors \cup {"nobody"}, says : Sayings, round : Round]
  BY <1>1 DEF NoResult, Sayings
<1>3. round \in [AllCollectors -> Round] /\ \A c \in AllCollectors : ~round[c].on
  BY <1>1 DEF Init
<1>4. Tallying \subseteq AllCollectors
  BY DEF Tallying, AllCollectors, Active
<1>5. route \in [net : Networks \cup {Nowhere}, at : Nat, known : BOOLEAN]
  BY DEF Init
<1>6. previous \in [path : Traces, counters : BOOLEAN, cell : Readings, turn : Nat, segments : BOOLEAN]
  BY DEF Init, Traces, Readings
<1>7. failures \in [AllCollectors -> 0 .. 2] /\ was \in [Networks -> Nat]
  BY DEF Init
<1>8. now \in Nat /\ moves \in Nat /\ here \in Networks \cup {Nowhere} /\ visited \subseteq Networks \cup {Nowhere}
      /\ paused \in BOOLEAN /\ enabled \in Switches /\ answered \in BOOLEAN
      /\ wire \in Sendings /\ watched \in BOOLEAN /\ result = NoResult
  BY DEF Init
<1>. QED BY <1>2, <1>3, <1>4, <1>5, <1>6, <1>7, <1>8 DEF TypeOK

-----------------------------------------------------------------------------
\* A step of a round keeps the invariant.
LEMMA RoundStep ==
  ASSUME IInv, NEW c \in AllCollectors, NEW r \in Round, NEW says \in Sayings,
         End(c, r, says) \/ (Goes(c, r) /\ Underway(c, r)),
         UNCHANGED <<outside, switches>>, route' = route \/ route' = Resolve,
         answered' \in BOOLEAN, wire' \in Sendings, watched' \in BOOLEAN,
         previous' \in [path : Traces, counters : BOOLEAN, cell : Readings, turn : Nat, segments : BOOLEAN],
         Witnessed'
  PROVE  IInv'
<1>0. TypeOK /\ Cached
  BY DEF IInv
<1>1. UNCHANGED <<now, here, was, visited, moves, paused, enabled>>
  BY DEF outside, switches
<1>2. /\ round' \in [AllCollectors -> Round]
      /\ failures' \in [AllCollectors -> 0 .. 2]
      /\ result' \in [by : AllCollectors \cup {"nobody"}, says : Sayings, round : Round]
      /\ \A d \in AllCollectors : round'[d].on => Underway(d, round'[d])
  <2>1. CASE End(c, r, says)
    <3>1. ~round'[c].on /\ \A d \in AllCollectors \ {c} : round'[d] = round[d]
      BY <1>0, <2>1, Ends
    <3>. QED BY <1>0, <2>1, <3>1, Ends DEF IInv
  <2>2. CASE Goes(c, r) /\ Underway(c, r)
    <3>1. round'[c] = r /\ \A d \in AllCollectors \ {c} : round'[d] = round[d]
      BY <1>0, <2>2, Continues
    <3>. QED BY <1>0, <2>2, <3>1, Continues DEF IInv, TypeOK
  <2>. QED BY <2>1, <2>2
<1>3. Tallying \subseteq AllCollectors
  BY DEF Tallying, AllCollectors, Active
<1>4. \A d \in Tallying : round'[d].on => round'[d].left > 0
  BY <1>2, <1>3 DEF Underway
<1>5. route' \in [net : Networks \cup {Nowhere}, at : Nat, known : BOOLEAN]
  BY <1>0, Resolves DEF TypeOK, Places
<1>6. TypeOK'
  BY <1>0, <1>1, <1>2, <1>4, <1>5 DEF TypeOK
<1>7. Cached'
  <2>1. CASE route' = route
    BY <1>0, <1>1, <2>1 DEF Cached
  <2>2. CASE route' = Resolve
    BY <1>0, <1>1, <2>2, Resolves DEF Cached, TypeOK
  <2>. QED BY <2>1, <2>2
<1>8. \A d \in AllCollectors : (Underway(d, round[d]))' <=> Underway(d, round'[d])
  BY <1>1 DEF Underway, Near, Sums
<1>. QED BY <1>2, <1>6, <1>7, <1>8 DEF IInv

\* A round that ends right is spoken of as the properties ask.
LEMMA RightIsSpoken ==
  ASSUME IInv, NEW c \in AllCollectors, NEW r \in Round, NEW says \in Sayings,
         End(c, r, says), Right(c, r, says), UNCHANGED <<outside, watched>>
  PROVE  Spoken'
<1>1. UNCHANGED <<now, here, was, visited, moves, watched>>
  BY DEF outside
<1>2. result'.by = c /\ result'.says = says /\ result'.round = r
  BY DEF End
<1>3. SpeaksOfHere'
  <2>1. r.about \in Networks => r.about = here \/ r.since < was[r.about] + TTL
    BY DEF Right, Near
  <2>2. says \in {"radio", "roamed"} /\ InterfaceKind(here) = "ethernet" => r.about # here
    BY DEF Right
  <2>. QED BY <1>1, <1>2, <2>1, <2>2 DEF SpeaksOfHere, InterfaceKind
<1>4. SaysWhatTheWireSaid'
  <2>1. result'.round.heard = r.heard /\ result'.round.read = r.read
    BY <1>2
  <2>2. /\ says = "loss" => r.heard = {FALSE}
        /\ says = "fine" => r.heard = {TRUE}
        /\ says = "partial" => r.heard = BOOLEAN
        /\ c \in Tallying /\ says = "nothing" => r.heard = {}
        /\ c = "gateway" /\ says \in {"loss", "partial"} => ~(visited' \subseteq Silent \cup {Nowhere})
        /\ c = "system" /\ r.read = "resent" => watched'
    <3>1. visited' = visited /\ watched' = watched
      BY <1>1
    <3>2. /\ says = "loss" => r.heard = {FALSE}
          /\ says = "fine" => r.heard = {TRUE}
          /\ says = "partial" => r.heard = BOOLEAN
          /\ c \in Tallying /\ says = "nothing" => r.heard = {}
      BY Zenon DEF Right
    <3>3. c = "gateway" /\ says \in {"loss", "partial"} => ~(visited \subseteq Silent \cup {Nowhere})
      BY Zenon DEF Right
    <3>4. c = "system" /\ r.read = "resent" => watched
      BY Zenon DEF Right
    <3>5. c = "gateway" /\ says \in {"loss", "partial"} => ~(visited' \subseteq Silent \cup {Nowhere})
      BY <3>1, <3>3, Zenon
    <3>6. c = "system" /\ r.read = "resent" => watched'
      BY <3>1, <3>4, SMT
    <3>. QED BY <3>2, <3>5, <3>6, Zenon
  <2>. QED BY <1>2, <2>1, <2>2, Zenon DEF SaysWhatTheWireSaid
<1>5. PortalIsSeen'
  BY <1>2, Zenon DEF PortalIsSeen, Right
<1>. QED BY <1>3, <1>4, <1>5 DEF Spoken

\* Nothing is said in any other step.
LEMMA SilenceIsSpoken ==
  ASSUME IInv', result' = NoResult
  PROVE  Spoken'
<1>1. result'.by = "nobody" /\ result'.says = "nothing" /\ result'.round = Idle
  BY DEF NoResult
<1>2. SpeaksOfHere'
  BY <1>1 DEF SpeaksOfHere, Idle
<1>3. SaysWhatTheWireSaid'
  BY <1>1, Zenon DEF SaysWhatTheWireSaid, Tallying
<1>4. PortalIsSeen'
  BY <1>1 DEF PortalIsSeen
<1>. QED BY <1>2, <1>3, <1>4 DEF Spoken

-----------------------------------------------------------------------------
\* A set of two things.
LEMMA Pair ==
  ASSUME NEW a, NEW b, a # b
  PROVE  Cardinality({a, b}) = 2
<1>1. IsFiniteSet({a}) /\ Cardinality({a}) = 1
  BY FS_Singleton
<1>2. {a, b} = {a} \cup {b} /\ b \notin {a}
  OBVIOUS
<1>. QED BY <1>1, <1>2, FS_AddElement

\* gateway.py: a loss is only reported by a gateway that answers, or by an agent
\* whose gateways have answered.
LEMMA GatewaySteps ==
  ASSUME IInv, \/ \E granted \in BOOLEAN : AskGateway(granted)
               \/ \E answers \in Replies : Pinged(answers)
  PROVE  IInv' /\ Spoken'
<1>0. TypeOK /\ Cached /\ Witnessed
  BY DEF IInv
<1>1. "gateway" \in AllCollectors /\ "gateway" \notin Tallying
  BY DEF AllCollectors, Active, Tallying
<1>2. ASSUME NEW granted \in BOOLEAN, AskGateway(granted) PROVE IInv' /\ Spoken'
  <2>. DEFINE r == [Begun EXCEPT !.about = Resolve.net]
  <2>1. r \in Round /\ r.about = Resolve.net /\ r.since = now /\ r.heard = {}
    BY <1>0, Rounded, Resolves DEF Begun, Idle, Round, Places
  <2>2. Near(r)
    BY <1>0, <2>1, Resolves DEF Near, Cached, TypeOK
  <2>. HIDE DEF r
  <2>3. UNCHANGED <<outside, switches, memory>> /\ route' = Resolve
    BY <1>2 DEF AskGateway
  <2>4. (r.about # Nowhere /\ Goes("gateway", r)) \/ End("gateway", r, "nothing")
    BY <1>2 DEF AskGateway, r
  <2>5. IInv'
    <3>1. End("gateway", r, "nothing") \/ (Goes("gateway", r) /\ Underway("gateway", r))
      BY <1>1, <2>2, <2>4 DEF Underway
    <3>2. "nothing" \in Sayings
      BY DEF Sayings
    <3>. QED BY <1>0, <1>1, <2>1, <2>3, <3>1, <3>2, RoundStep
             DEF memory, tcp, outside, TypeOK, Witnessed
  <2>6. CASE End("gateway", r, "nothing")
    <3>1. Right("gateway", r, "nothing")
      BY <1>1, <2>2 DEF Right
    <3>. QED BY <1>1, <2>1, <2>3, <2>5, <2>6, <3>1, RightIsSpoken DEF memory, tcp, Sayings
  <2>7. CASE Goes("gateway", r)
    BY <2>5, <2>7, SilenceIsSpoken DEF Goes
  <2>. QED BY <2>4, <2>5, <2>6, <2>7
<1>3. ASSUME NEW answers \in Replies, Pinged(answers) PROVE IInv' /\ Spoken'
  <2>. DEFINE r == [round["gateway"] EXCEPT !.heard = answers]
              replied == TRUE \in answers
              failed == IF FALSE \in answers THEN 1 ELSE 0
              says == IF Unmeasurable(replied) THEN "nothing" ELSE Verdict(Cardinality(answers), failed)
  <2>1. answers \in SUBSET BOOLEAN /\ (answers = {TRUE} \/ answers = {FALSE} \/ answers = BOOLEAN)
    BY DEF Replies
  <2>2. r \in Round /\ r.heard = answers /\ r.about = round["gateway"].about
        /\ r.since = round["gateway"].since /\ r.on = round["gateway"].on
    BY <1>0, <1>1, <2>1 DEF TypeOK, Round
  <2>3. says \in Sayings
    BY VerdictSays DEF Sayings
  <2>4. /\ End("gateway", r, says)
        /\ r.on /\ (replied => r.about \notin Silent) /\ answered' = (answered \/ replied)
        /\ UNCHANGED <<outside, switches, route, previous, tcp>>
    BY <1>3 DEF Pinged
  <2>5. Underway("gateway", round["gateway"])
    BY <1>1, <2>2, <2>4 DEF IInv
  <2>6. Near(r) /\ r.about # Nowhere
    BY <2>2, <2>5 DEF Underway, Near
  <2>7. r.about \in Networks /\ r.about \in visited
    BY <2>2, <2>6 DEF Near, Round
  <2>8. answered' => ~(visited \subseteq Silent \cup {Nowhere})
    BY <1>0, <2>4, <2>6, <2>7, Zenon DEF Witnessed
  <2>9. IInv'
    <3>1. answered' \in BOOLEAN
      BY <1>0, <2>4 DEF TypeOK
    <3>2. Witnessed'
      BY <1>0, <2>4, <2>8, Zenon DEF Witnessed, outside, tcp
    <3>3. UNCHANGED <<previous, wire, watched>>
      BY <2>4 DEF tcp
    <3>. HIDE DEF r, says
    <3>. QED BY <1>0, <1>1, <2>2, <2>3, <2>4, <3>1, <3>2, <3>3, RoundStep DEF TypeOK
  <2>10. Right("gateway", r, says)
    <3>1. says \in {"loss", "partial"} => answered'
      BY <2>4, Zenon DEF Unmeasurable
    <3>2. says \notin {"radio", "roamed"}
      BY DEF Verdict
    <3>3. (says = "loss" => answers = {FALSE}) /\ (says = "fine" => answers = {TRUE})
          /\ (says = "partial" => answers = BOOLEAN)
      <4>1. CASE answers = {TRUE}
        <5>1. failed = 0 /\ Cardinality(answers) = 1
          BY <4>1, FS_Singleton
        <5>. QED BY <4>1, <5>1 DEF Verdict
      <4>2. CASE answers = {FALSE}
        <5>1. failed = 1 /\ Cardinality(answers) = 1
          BY <4>2, FS_Singleton
        <5>. QED BY <4>2, <5>1 DEF Verdict
      <4>3. CASE answers = BOOLEAN
        <5>1. BOOLEAN = {TRUE, FALSE} /\ TRUE # FALSE /\ TRUE \in answers /\ FALSE \in answers
          BY <4>3, Zenon
        <5>2. failed = 1 /\ Cardinality(answers) = 2
          <6>1. failed = 1 /\ answers = {TRUE, FALSE}
            BY <4>3, <5>1, Zenon
          <6>2. Cardinality({TRUE, FALSE}) = 2
            BY <5>1, Pair, Zenon
          <6>. QED BY <6>1, <6>2, Zenon
        <5>3. says \in {"nothing", "partial"}
          <6>1. Verdict(2, 1) = "partial"
            BY DEF Verdict
          <6>2. Verdict(Cardinality(answers), failed) = "partial"
            BY <5>2, <6>1, Zenon
          <6>. QED BY <6>2, Zenon
        <5>. QED BY <4>3, <5>3
      <4>. QED BY <2>1, <4>1, <4>2, <4>3
    <3>. HIDE DEF r, says
    <3>. QED BY <1>1, <2>2, <2>6, <2>8, <3>1, <3>2, <3>3, Zenon DEF Right
  <2>. HIDE DEF r, says
  <2>. QED BY <1>1, <2>2, <2>3, <2>4, <2>9, <2>10, RightIsSpoken DEF tcp
<1>. QED BY <1>2, <1>3

\* dns.py and https_probe.py: what is said of the targets is what was heard of them.
LEMMA TargetSteps ==
  ASSUME IInv, NEW c \in Tallying,
         \/ BeginTargets(c)
         \/ \E granted \in BOOLEAN, ok \in Outcomes : Target(c, granted, ok)
  PROVE  IInv' /\ Spoken'
<1>0. TypeOK /\ Cached /\ Witnessed
  BY DEF IInv
<1>1. c \in AllCollectors /\ c \notin {"gateway", "captive", "path", "system", "wifi"}
  BY DEF AllCollectors, Active, Tallying
<1>2. ASSUME BeginTargets(c) PROVE IInv' /\ Spoken'
  <2>. DEFINE r == [Begun EXCEPT !.left = Targets]
  <2>1. r \in Round /\ r.about = Nowhere /\ r.since = now /\ r.left = Targets
        /\ r.sent = 0 /\ r.failed = 0 /\ r.heard = {}
    BY <1>0, Rounded DEF Begun, Idle, Round
  <2>2. UNCHANGED <<outside, switches, route, memory>> /\ Goes(c, r)
    BY <1>2 DEF BeginTargets
  <2>. HIDE DEF r
  <2>3. Underway(c, r)
    BY <1>0, <1>1, <2>1 DEF Underway, Near, Sums, TypeOK
  <2>4. IInv'
    BY <1>0, <1>1, <2>1, <2>2, <2>3, RoundStep DEF memory, tcp, outside, TypeOK, Witnessed, Sayings
  <2>. QED BY <2>2, <2>4, SilenceIsSpoken DEF Goes
<1>3. ASSUME NEW granted \in BOOLEAN, NEW ok \in BOOLEAN, Target(c, granted, ok)
      PROVE  IInv' /\ Spoken'
  <2>. DEFINE r == Counted(round[c], granted, ok)
              says == Verdict(r.sent, r.failed)
  <2>1. /\ round[c].on /\ UNCHANGED <<outside, switches, route, memory>>
        /\ \/ r.left > 0 /\ Goes(c, r)
           \/ ~(r.left > 0) /\ End(c, r, says)
    BY <1>3 DEF Target
  <2>2. round[c] \in Round /\ round[c].left > 0 /\ Underway(c, round[c])
    BY <1>0, <1>1, <2>1 DEF TypeOK, IInv
  <2>3. r \in Round /\ Sums(r)
    BY <2>2, Counts DEF Underway
  <2>4. r.about = round[c].about /\ r.since = round[c].since
    BY <2>2 DEF Counted, Round
  <2>5. Near(r)
    BY <2>2, <2>4 DEF Underway, Near
  <2>6. says \in Sayings
    BY VerdictSays
  <2>. HIDE DEF r
  <2>7. IInv'
    <3>1. End(c, r, says) \/ (Goes(c, r) /\ Underway(c, r))
      BY <1>1, <2>1, <2>3, <2>5 DEF Underway
    <3>. HIDE DEF says
    <3>. QED BY <1>0, <1>1, <2>1, <2>3, <2>6, <3>1, RoundStep
             DEF memory, tcp, outside, TypeOK, Witnessed
  <2>8. CASE Goes(c, r)
    BY <2>7, <2>8, SilenceIsSpoken DEF Goes
  <2>9. CASE End(c, r, says)
    <3>1. says \notin {"radio", "roamed"}
      BY DEF Verdict
    <3>2. r.sent \in Nat /\ r.failed \in Nat /\ r.failed <= r.sent /\ r.heard \in SUBSET BOOLEAN
      BY <2>3 DEF Round, Sums
    <3>3. /\ says = "loss" => r.failed > 0 /\ ~(r.failed < r.sent)
          /\ says = "fine" => ~(r.failed > 0) /\ r.failed < r.sent
          /\ says = "partial" => r.failed > 0 /\ r.failed < r.sent
          /\ says = "nothing" => ~(r.failed > 0) /\ ~(r.failed < r.sent)
      BY <3>2, VerdictCounts
    <3>. HIDE DEF says
    <3>4. /\ says = "loss" => FALSE \in r.heard /\ TRUE \notin r.heard
          /\ says = "fine" => FALSE \notin r.heard /\ TRUE \in r.heard
          /\ says = "partial" => FALSE \in r.heard /\ TRUE \in r.heard
          /\ says = "nothing" => FALSE \notin r.heard /\ TRUE \notin r.heard
      BY <2>3, <3>3, Zenon DEF Sums
    <3>5. /\ FALSE \in r.heard /\ TRUE \notin r.heard => r.heard = {FALSE}
          /\ FALSE \notin r.heard /\ TRUE \in r.heard => r.heard = {TRUE}
          /\ FALSE \in r.heard /\ TRUE \in r.heard => r.heard = BOOLEAN
          /\ FALSE \notin r.heard /\ TRUE \notin r.heard => r.heard = {}
      BY <3>2, Zenon
    <3>6. Right(c, r, says)
      BY <1>1, <2>5, <3>1, <3>4, <3>5, Zenon DEF Right
    <3>7. UNCHANGED <<outside, watched>>
      BY <2>1 DEF memory, tcp
    <3>. QED BY <1>1, <2>3, <2>6, <2>7, <2>9, <3>6, <3>7, RightIsSpoken
  <2>. QED BY <2>1, <2>8, <2>9
<1>. QED BY <1>2, <1>3 DEF Outcomes

\* captive.py: the answer is judged by what has been read of it.
LEMMA CaptiveSteps ==
  ASSUME IInv, \/ \E granted \in BOOLEAN, page \in {"expected", "status", "body"} : AskPortal(granted, page)
               \/ \E read \in {"head", "part", "whole"} : Receive(read)
               \/ \E broken \in BOOLEAN : ReceiveNoMore(broken)
  PROVE  IInv' /\ Spoken'
<1>0. TypeOK /\ Cached /\ Witnessed
  BY DEF IInv
<1>1. "captive" \in AllCollectors /\ "captive" \notin Tallying
  BY DEF AllCollectors, Active, Tallying
<1>2. ASSUME NEW r \in Round, NEW says \in {"nothing", "clear", "portal"}, Near(r),
             UNCHANGED <<outside, switches, route, memory>>,
             \/ Goes("captive", r) /\ r.read \in {"nothing", "head"}
             \/ /\ End("captive", r, says)
                /\ says = "clear" => r.page = "expected"
                /\ says = "portal" /\ r.page = "expected" => r.read = "part"
      PROVE  IInv' /\ Spoken'
  <2>0. says \in Sayings /\ says \notin {"radio", "roamed", "loss", "fine", "partial"}
    BY DEF Sayings
  <2>1. End("captive", r, says) \/ (Goes("captive", r) /\ Underway("captive", r))
    BY <1>1, <1>2 DEF Underway
  <2>2. IInv'
    BY <1>0, <1>1, <1>2, <2>0, <2>1, RoundStep DEF memory, tcp, outside, TypeOK, Witnessed
  <2>3. CASE Goes("captive", r)
    BY <2>2, <2>3, SilenceIsSpoken DEF Goes
  <2>4. CASE End("captive", r, says) /\ (says = "clear" => r.page = "expected")
             /\ (says = "portal" /\ r.page = "expected" => r.read = "part")
    <3>1. Right("captive", r, says)
      BY <1>1, <1>2, <2>0, <2>4 DEF Right
    <3>2. UNCHANGED <<outside, watched>>
      BY <1>2 DEF memory, tcp
    <3>. QED BY <1>1, <1>2, <2>0, <2>2, <2>4, <3>1, <3>2, RightIsSpoken
  <2>. QED BY <1>2, <2>3, <2>4
<1>3. ASSUME NEW granted \in BOOLEAN, NEW page \in {"expected", "status", "body"}, AskPortal(granted, page)
      PROVE  IInv' /\ Spoken'
  <2>. DEFINE r == [Begun EXCEPT !.page = page]
  <2>1. /\ r \in Round /\ r.about = Nowhere /\ r.since = now /\ r.read = "nothing"
        /\ Begun \in Round /\ Begun.about = Nowhere /\ Begun.since = now
    BY <1>0, Rounded DEF Begun, Idle, Round
  <2>2. Near(r) /\ Near(Begun)
    BY <1>0, <2>1 DEF Near, TypeOK
  <2>3. UNCHANGED <<outside, switches, route, memory>>
        /\ (Goes("captive", r) \/ End("captive", Begun, "nothing"))
    BY <1>3 DEF AskPortal
  <2>. HIDE DEF r
  <2>. QED BY <1>2, <2>1, <2>2, <2>3
<1>4. ASSUME NEW read \in {"head", "part", "whole"}, Receive(read)
      PROVE  IInv' /\ Spoken'
  <2>. DEFINE r == [round["captive"] EXCEPT !.read = read]
              says == Classify(r.page, read)
  <2>0. round["captive"] \in Round
    BY <1>0, <1>1 DEF TypeOK
  <2>1. /\ r \in Round /\ r.read = read /\ r.about = round["captive"].about
        /\ r.since = round["captive"].since /\ r.on = round["captive"].on
        /\ r.page \in {"expected", "status", "body"}
    BY <2>0 DEF Round, Stages
  <2>. HIDE DEF r
  <2>2. /\ r.on /\ UNCHANGED <<outside, switches, route, memory>>
        /\ \/ Stages[read] >= Stages["part"] /\ End("captive", r, says)
           \/ ~(Stages[read] >= Stages["part"]) /\ Goes("captive", r)
    BY <1>4 DEF Receive, r
  <2>3. Near(r)
    BY <1>1, <2>1, <2>2 DEF IInv, Underway, Near
  <2>4. Stages[read] >= Stages["part"] <=> read # "head"
    BY DEF Stages
  <2>5. says \in {"nothing", "clear", "portal"}
    BY DEF Classify
  <2>6. read # "head" => /\ says = "clear" => r.page = "expected"
                         /\ says = "portal" /\ r.page = "expected" => r.read = "part"
    BY <2>1 DEF Classify
  <2>. HIDE DEF says
  <2>. QED BY <1>2, <2>1, <2>2, <2>3, <2>4, <2>5, <2>6
<1>5. ASSUME NEW broken \in BOOLEAN, ReceiveNoMore(broken)
      PROVE  IInv' /\ Spoken'
  <2>. DEFINE r == round["captive"]
              says == IF broken THEN "nothing" ELSE Classify(r.page, r.read)
  <2>1. r \in Round /\ r.on /\ End("captive", r, says) /\ UNCHANGED <<outside, switches, route, memory>>
    BY <1>0, <1>1, <1>5 DEF TypeOK, ReceiveNoMore
  <2>2. Near(r) /\ r.read \in {"nothing", "head"}
    BY <1>1, <2>1 DEF IInv, Underway
  <2>3. says \in {"nothing", "clear", "portal"}
    BY DEF Classify
  <2>4. (says = "clear" => r.page = "expected") /\ (says = "portal" => r.page # "expected")
    BY <2>2 DEF Classify
  <2>. HIDE DEF r, says
  <2>. QED BY <1>2, <2>1, <2>2, <2>3, <2>4
<1>. QED BY <1>3, <1>4, <1>5

\* path.py
LEMMA PathSteps ==
  ASSUME IInv, \/ \E granted \in BOOLEAN : AskPath(granted)
               \/ \E hops \in Traces : Traced(hops)
  PROVE  IInv' /\ Spoken'
<1>0. TypeOK /\ Cached /\ Witnessed
  BY DEF IInv
<1>1. "path" \in AllCollectors /\ "path" \notin Tallying /\ "path" \notin {"gateway", "captive", "system"}
  BY DEF AllCollectors, Active, Tallying
<1>2. ASSUME NEW r \in Round, NEW says \in {"nothing", "failed", "same", "changed"}, Near(r),
             Goes("path", r) \/ End("path", r, says),
             UNCHANGED <<outside, switches, route, answered, wire, watched, previous.segments>>,
             previous' \in [path : Traces, counters : BOOLEAN, cell : Readings, turn : Nat, segments : BOOLEAN]
      PROVE  IInv' /\ Spoken'
  <2>0. says \in Sayings /\ says \notin {"radio", "roamed", "loss", "fine", "partial"}
    BY DEF Sayings
  <2>1. End("path", r, says) \/ (Goes("path", r) /\ Underway("path", r))
    BY <1>1, <1>2 DEF Underway
  <2>2. IInv'
    BY <1>0, <1>1, <1>2, <2>0, <2>1, RoundStep DEF outside, TypeOK, Witnessed
  <2>3. CASE Goes("path", r)
    BY <2>2, <2>3, SilenceIsSpoken DEF Goes
  <2>4. CASE End("path", r, says)
    <3>1. Right("path", r, says)
      BY <1>1, <1>2, <2>0 DEF Right
    <3>. QED BY <1>1, <1>2, <2>0, <2>2, <2>4, <3>1, RightIsSpoken
  <2>. QED BY <1>2, <2>3, <2>4
<1>3. ASSUME NEW granted \in BOOLEAN, AskPath(granted) PROVE IInv' /\ Spoken'
  <2>1. Begun \in Round /\ Begun.about = Nowhere /\ Begun.since = now
    BY <1>0, Rounded DEF Begun, Idle
  <2>2. Near(Begun)
    BY <1>0, <2>1 DEF Near, TypeOK
  <2>3. /\ UNCHANGED <<outside, switches, route, answered, wire, watched, previous, previous.segments>>
        /\ (Goes("path", Begun) \/ End("path", Begun, "nothing"))
    BY <1>3 DEF AskPath, memory, tcp
  <2>. QED BY <1>0, <1>2, <2>1, <2>2, <2>3 DEF TypeOK
<1>4. ASSUME NEW hops \in Traces, Traced(hops) PROVE IInv' /\ Spoken'
  <2>. DEFINE r == round["path"]
  <2>1. /\ r \in Round /\ r.on /\ UNCHANGED <<outside, switches, route, answered, wire, watched>>
        /\ \/ End("path", r, "failed") /\ previous' = previous
           \/ /\ \E says \in {"same", "changed"} : End("path", r, says)
              /\ previous' = [previous EXCEPT !.path = hops]
    BY <1>0, <1>1, <1>4 DEF TypeOK, Traced, tcp
  <2>2. Near(r)
    BY <1>1, <2>1 DEF IInv, Underway
  <2>3. /\ previous' \in [path : Traces, counters : BOOLEAN, cell : Readings, turn : Nat, segments : BOOLEAN]
        /\ previous'.segments = previous.segments
    BY <1>0, <2>1 DEF TypeOK
  <2>. HIDE DEF r
  <2>. QED BY <1>2, <2>1, <2>2, <2>3
<1>. QED BY <1>3, <1>4

-----------------------------------------------------------------------------
\* system.py and wifi.py: a reading is of the cached route, and the segments that
\* were resent before the first reading are not counted.
LEMMA ReadingSteps ==
  ASSUME IInv, \/ \E counted, readable, backwards \in BOOLEAN : ReadSystem(counted, readable, backwards)
               \/ \E reading \in Readings : ReadWifi(reading)
  PROVE  IInv' /\ Spoken'
<1>0. TypeOK /\ Cached /\ Witnessed
  BY DEF IInv
<1>1. /\ {"system", "wifi"} \subseteq AllCollectors
      /\ {"system", "wifi"} \cap (Tallying \cup {"gateway", "captive"}) = {}
  BY DEF AllCollectors, Active, Tallying
<1>. DEFINE q == [Begun EXCEPT !.about = Resolve.net]
<1>2. q \in Round /\ q.about = Resolve.net /\ q.since = now /\ Near(q)
  <2>1. q \in Round /\ q.about = Resolve.net /\ q.since = now
    BY <1>0, Rounded, Resolves DEF Begun, Idle, Round, Places
  <2>. HIDE DEF q
  <2>. QED BY <1>0, <2>1, Resolves DEF Near, Cached, TypeOK
<1>3. ASSUME NEW counted \in BOOLEAN, NEW readable \in BOOLEAN, NEW backwards \in BOOLEAN,
             ReadSystem(counted, readable, backwards)
      PROVE  IInv' /\ Spoken'
  <2>. DEFINE turn == (previous.turn + 1) % RetransEvery
              read == turn = 1 /\ readable
              got == IF backwards THEN "nothing" ELSE Segments(read)
              r == [Begun EXCEPT !.about = Resolve.net, !.read = got]
  <2>1. got \in Sendings /\ (got = "resent" => watched)
    BY <1>0 DEF TypeOK, Segments, Sendings, Witnessed
  <2>2. turn \in Nat
    BY <1>0 DEF TypeOK
  <2>3. r = [q EXCEPT !.read = got]
    BY DEF Begun, Idle
  <2>. HIDE DEF got, q
  <2>4. r \in Round /\ r.about = q.about /\ r.since = now /\ r.read = got
    BY <1>2, <2>1, <2>3 DEF Round
  <2>5. Near(r)
    BY <1>2, <2>4 DEF Near
  <2>6. PICK says \in {"rates", "host"} : End("system", r, says)
    BY <1>3 DEF ReadSystem, got
  <2>7. /\ UNCHANGED <<outside, switches, answered, watched>> /\ route' = Resolve
        /\ wire' = IF read THEN "nothing" ELSE wire
        /\ previous' = [previous EXCEPT !.counters = @ \/ (counted /\ r.about # Nowhere),
                                        !.turn = turn, !.segments = @ \/ read]
    BY <1>3 DEF ReadSystem, got
  <2>. HIDE DEF r, turn
  <2>8. /\ previous' \in [path : Traces, counters : BOOLEAN, cell : Readings, turn : Nat, segments : BOOLEAN]
        /\ previous'.segments = (previous.segments \/ read)
    BY <1>0, <2>2, <2>7 DEF TypeOK
  <2>9. wire' \in Sendings /\ (wire' = "resent" => wire = "resent" /\ ~read)
    BY <1>0, <2>7 DEF TypeOK, Sendings
  <2>10. answered' = answered /\ watched' = watched /\ visited' = visited
    BY <2>7 DEF outside
  <2>11. Witnessed'
    <3>1. answered' => ~(visited' \subseteq Silent \cup {Nowhere})
      BY <1>0, <2>10, SMT DEF Witnessed
    <3>2. wire' = "resent" /\ previous'.segments => watched'
      BY <1>0, <2>8, <2>9, <2>10, SMT DEF Witnessed
    <3>. QED BY <3>1, <3>2 DEF Witnessed
  <2>12. answered' \in BOOLEAN /\ watched' \in BOOLEAN
    BY <1>0, <2>10, SMT DEF TypeOK
  <2>13. says \in Sayings
    BY DEF Sayings
  <2>14. IInv'
    BY <1>0, <1>1, <2>4, <2>6, <2>7, <2>8, <2>9, <2>11, <2>12, <2>13, RoundStep
  <2>15. Right("system", r, says)
    BY <1>1, <2>1, <2>4, <2>5 DEF Right
  <2>. QED BY <1>1, <2>4, <2>6, <2>7, <2>13, <2>14, <2>15, RightIsSpoken
<1>4. ASSUME NEW reading \in Readings, ReadWifi(reading) PROVE IInv' /\ Spoken'
  <2>. DEFINE silent == InterfaceKind(q.about) = "ethernet" \/ reading = "none"
              says == CASE silent          -> "nothing"
                        [] ~silent /\ Roamed(reading) -> "roamed"
                        [] OTHER           -> "radio"
  <2>1. /\ UNCHANGED <<outside, switches, answered, wire, watched>> /\ route' = Resolve
        /\ previous' = [previous EXCEPT !.cell = IF silent \/ reading = "hidden" THEN @ ELSE reading]
        /\ End("wifi", q, says)
    BY <1>4 DEF ReadWifi, tcp
  <2>2. says \in {"nothing", "roamed", "radio"}
        /\ (says \in {"radio", "roamed"} => InterfaceKind(q.about) # "ethernet")
    OBVIOUS
  <2>. HIDE DEF q
  <2>3. /\ previous' \in [path : Traces, counters : BOOLEAN, cell : Readings, turn : Nat, segments : BOOLEAN]
        /\ previous'.segments = previous.segments
    BY <1>0, <2>1 DEF TypeOK
  <2>. HIDE DEF says
  <2>4. says \in Sayings /\ says \notin {"loss", "fine", "partial"}
    BY <2>2 DEF Sayings
  <2>5. IInv'
    <3>1. UNCHANGED <<answered, visited, wire, watched, previous.segments>>
      BY <2>1, <2>3 DEF outside
    <3>2. Witnessed'
      BY <1>0, <3>1, SMT DEF Witnessed
    <3>3. answered' \in BOOLEAN /\ watched' \in BOOLEAN /\ wire' \in Sendings
      BY <1>0, <3>1 DEF TypeOK
    <3>. QED BY <1>1, <1>2, <2>1, <2>3, <2>4, <3>2, <3>3, RoundStep
  <2>6. Right("wifi", q, says)
    BY <1>1, <1>2, <2>2, <2>4 DEF Right
  <2>. QED BY <1>1, <1>2, <2>1, <2>4, <2>5, <2>6, RightIsSpoken
<1>. QED BY <1>3, <1>4

-----------------------------------------------------------------------------
\* The clock, the host that moves, sends or pauses: no round says anything.
LEMMA WorldSteps ==
  ASSUME IInv, \/ Tick \/ Switch
               \/ \E what \in Sendings \ {"nothing"} : Transmit(what)
               \/ \E net \in Networks \cup {Nowhere} : Move(net)
  PROVE  IInv' /\ Spoken'
<1>0. TypeOK /\ Cached /\ Witnessed
  BY DEF IInv
<1>1. /\ UNCHANGED <<enabled, route, round, answered, previous, failures>> /\ result' = NoResult
  BY DEF Tick, Switch, Transmit, Move, Still, Quiet
<1>2. NoResult \in [by : AllCollectors \cup {"nobody"}, says : Sayings, round : Round]
  BY <1>0, Rounded DEF NoResult, Sayings
<1>3. ASSUME Witnessed', Cached', \A c \in AllCollectors : round[c].on => Near(round[c])',
             now' \in Nat, moves' \in Nat, here' \in Networks \cup {Nowhere}, was' \in [Networks -> Nat],
             visited' \subseteq Networks \cup {Nowhere}, paused' \in BOOLEAN,
             wire' \in Sendings, watched' \in BOOLEAN
      PROVE  IInv' /\ Spoken'
  <2>1. TypeOK'
    BY <1>0, <1>1, <1>2, <1>3 DEF TypeOK
  <2>2. \A c \in AllCollectors : round'[c].on => Underway(c, round[c])'
    BY <1>1, <1>3 DEF IInv, Underway, Sums
  <2>3. IInv'
    BY <1>3, <2>1, <2>2 DEF IInv
  <2>. QED BY <1>1, <2>3, SilenceIsSpoken
<1>4. \A c \in AllCollectors : round[c].on => Near(round[c])
  BY DEF IInv, Underway
<1>5. \A c \in AllCollectors : round[c] \in Round
  BY <1>0 DEF TypeOK
<1>6. CASE Tick
  <2>1. now' = now + 1 /\ UNCHANGED <<here, was, visited, moves, paused, wire, watched>>
    BY <1>6 DEF Tick, Still, tcp
  <2>2. Witnessed' /\ Cached'
    BY <1>0, <1>1, <2>1 DEF Witnessed, Cached, TypeOK
  <2>3. \A c \in AllCollectors : round[c].on => Near(round[c])'
    BY <1>0, <1>1, <1>4, <1>5, <2>1 DEF Near, Round, TypeOK
  <2>. QED BY <1>0, <1>3, <2>1, <2>2, <2>3 DEF TypeOK
<1>7. CASE Switch
  <2>1. paused' = ~paused /\ UNCHANGED <<now, here, was, visited, moves, wire, watched>>
    BY <1>7 DEF Switch, Still, tcp, outside
  <2>2. Witnessed' /\ Cached'
    BY <1>0, <1>1, <2>1 DEF Witnessed, Cached
  <2>3. \A c \in AllCollectors : round[c].on => Near(round[c])'
    BY <1>1, <1>4, <2>1 DEF Near
  <2>. QED BY <1>0, <1>3, <2>1, <2>2, <2>3 DEF TypeOK
<1>8. ASSUME NEW what \in Sendings \ {"nothing"}, Transmit(what) PROVE IInv' /\ Spoken'
  <2>1. /\ wire' = what /\ watched' = (watched \/ (what = "resent" /\ previous.segments))
        /\ UNCHANGED <<now, here, was, visited, moves, paused>>
    BY <1>8 DEF Transmit, outside
  <2>2. Witnessed'
    <3>1. answered' => ~(visited' \subseteq Silent \cup {Nowhere})
      BY <1>0, <1>1, <2>1, SMT DEF Witnessed
    <3>2. previous' = previous
      BY <1>1
    <3>3. CASE what = "resent" /\ previous.segments
      <4>1. watched' = TRUE
        BY <2>1, <3>3
      <4>. QED BY <3>1, <4>1 DEF Witnessed
    <3>4. CASE ~(what = "resent" /\ previous.segments)
      BY <2>1, <3>1, <3>2, <3>4 DEF Witnessed
    <3>. QED BY <3>3, <3>4
  <2>3. Cached'
    BY <1>0, <1>1, <2>1 DEF Cached
  <2>4. \A c \in AllCollectors : round[c].on => Near(round[c])'
    BY <1>1, <1>4, <2>1 DEF Near
  <2>5. watched' \in BOOLEAN /\ wire' \in Sendings
    BY <2>1
  <2>. QED BY <1>0, <1>3, <2>1, <2>2, <2>3, <2>4, <2>5 DEF TypeOK
<1>9. ASSUME NEW net \in Networks \cup {Nowhere}, Move(net) PROVE IInv' /\ Spoken'
  <2>1. /\ moves' = moves + 1 /\ here' = net /\ net # here /\ visited' = visited \cup {net}
        /\ was' = [n \in Networks |-> IF n = here THEN now ELSE was[n]]
        /\ UNCHANGED <<now, paused, wire, watched>>
    BY <1>9 DEF Move, Still, tcp
  <2>2. Witnessed'
    <3>1. answered' => ~(visited' \subseteq Silent \cup {Nowhere})
      BY <1>0, <1>1, <2>1 DEF Witnessed
    <3>2. wire = "resent" /\ previous.segments => watched
      BY <1>0, Zenon DEF Witnessed
    <3>3. UNCHANGED <<wire, previous, watched>>
      BY <1>1, <2>1
    <3>4. wire' = "resent" /\ previous'.segments => watched'
      BY <3>2, <3>3
    <3>. QED BY <3>1, <3>4 DEF Witnessed
  <2>3. Cached'
    BY <1>0, <1>1, <2>1 DEF Cached, TypeOK
  <2>4. ASSUME NEW c \in AllCollectors, round[c].on PROVE Near(round[c])'
    <3>. DEFINE r == round[c]
    <3>1. r \in Round /\ Near(r) /\ r' = r
      BY <1>1, <1>4, <1>5, <2>4
    <3>2. r.since \in Nat
      BY <3>1 DEF Round
    <3>. HIDE DEF r
    <3>3. r.about \in Networks => r.about = here' \/ r.since < was'[r.about] + TTL
      BY <1>0, <2>1, <3>1, <3>2 DEF Near, TypeOK
    <3>4. Near(r)'
      BY <2>1, <3>1, <3>3 DEF Near
    <3>. QED BY <3>4 DEF r
  <2>5. was' \in [Networks -> Nat]
    BY <1>0, <2>1 DEF TypeOK
  <2>. QED BY <1>0, <1>3, <2>1, <2>2, <2>3, <2>4, <2>5 DEF TypeOK
<1>. QED BY <1>6, <1>7, <1>8, <1>9

-----------------------------------------------------------------------------
\* No round is under way at the start.
LEMMA InitInvariant == Init => IInv /\ Spoken
<1> SUFFICES ASSUME Init PROVE IInv /\ Spoken
  OBVIOUS
<1>1. TypeOK
  BY InitType
<1>2. \A c \in AllCollectors : ~round[c].on
  BY DEF Init, Idle
<1>3. Cached /\ Witnessed
  BY DEF Init, Cached, Witnessed
<1>4. result.by = "nobody" /\ result.says = "nothing" /\ result.round = Idle
  BY DEF Init, NoResult
<1>5. SpeaksOfHere
  BY <1>4 DEF SpeaksOfHere, Idle
<1>6. SaysWhatTheWireSaid
  BY <1>4, Zenon DEF SaysWhatTheWireSaid, Tallying
<1>7. PortalIsSeen
  BY <1>4 DEF PortalIsSeen
<1>. QED BY <1>1, <1>2, <1>3, <1>5, <1>6, <1>7 DEF IInv, Spoken

\* Every step keeps the invariant, and speaks as it should or, if it stutters, again.
LEMMA StepInvariant == IInv /\ Spoken /\ [Next]_vars => IInv' /\ Spoken'
<1> SUFFICES ASSUME IInv, Spoken, [Next]_vars PROVE IInv' /\ Spoken'
  OBVIOUS
<1>1. CASE Next
  BY <1>1, GatewaySteps, TargetSteps, CaptiveSteps, PathSteps, ReadingSteps, WorldSteps, Zenon DEF Next
<1>2. CASE UNCHANGED vars
  <2>1. IInv'
    BY <1>2 DEF IInv, TypeOK, Cached, Witnessed, Underway, Near, Sums,
                vars, outside, switches, memory, tcp
  <2>2. Spoken'
    BY <1>2 DEF Spoken, SpeaksOfHere, SaysWhatTheWireSaid, PortalIsSeen,
                vars, outside, memory, tcp
  <2>. QED BY <2>1, <2>2
<1>. QED BY <1>1, <1>2

\* The variables of the collectors keep their types, for any constants.
THEOREM TypeCorrect == Spec => []TypeOK
<1>1. IInv => TypeOK
  BY DEF IInv
<1>. QED BY InitInvariant, StepInvariant, <1>1, PTL DEF Spec

\* What a round says of a network it says of one the host is on or has only just left.
THEOREM PlaceCorrect == Spec => []SpeaksOfHere
<1>1. Spoken => SpeaksOfHere
  BY DEF Spoken
<1>. QED BY InitInvariant, StepInvariant, <1>1, PTL DEF Spec

\* Nothing is called lost, fine or resent that was not sent and so heard of.
THEOREM WireCorrect == Spec => []SaysWhatTheWireSaid
<1>1. Spoken => SaysWhatTheWireSaid
  BY DEF Spoken
<1>. QED BY InitInvariant, StepInvariant, <1>1, PTL DEF Spec

\* A sign-in page is never taken for the expected answer, nor a cut answer for it.
THEOREM PortalCorrect == Spec => []PortalIsSeen
<1>1. Spoken => PortalIsSeen
  BY DEF Spoken
<1>. QED BY InitInvariant, StepInvariant, <1>1, PTL DEF Spec

-----------------------------------------------------------------------------
HIDE RoundsAssumption

(***************************************************************************)
(* For any features, values, windows and ages, deliveries get to the       *)
(* scorer once, or go stale.  The inductive invariant says where each      *)
(* delivery is (Accounted) and what is carried forward (LastIsNewest); it  *)
(* holds because the agent ticks once per moment (TicksAdvance).           *)
(***************************************************************************)
\* n is the latest scored sample that has the feature.
Newest(f, n) == n \in Measured(f) /\ \A i \in Measured(f) : i <= n

\* When the last sample was scored.
LastTs == scored[Len(scored)].ts

\* Types: the sample in flight is the one the assembler was last emptied for.
PipelineTypeOK ==
  /\ clock \in Nat /\ lastTake \in Nat /\ lastTake <= clock
  /\ pending \in SampleValues
  /\ sample # NoSample => /\ sample \in [ts : Nat, values : SampleValues]
                          /\ sample.ts = lastTake
  /\ scored \in Seq([ts : Nat, values : SampleValues])

\* The agent ticks once per moment.
TicksAdvance ==
  /\ \A i \in DOMAIN scored : scored[i].ts <= lastTake
  /\ sample # NoSample => \A i \in DOMAIN scored : scored[i].ts < sample.ts
  /\ \A i, j \in DOMAIN scored : i < j => scored[i].ts < scored[j].ts

\* What is carried forward is the newest measurement, until it is too old.
LastIsNewest ==
  /\ DOMAIN last \subseteq Features
  /\ \A f \in DOMAIN last : \E n \in Measured(f) :
       /\ Newest(f, n)
       /\ last[f] = Point(scored[n].ts, scored[n].values[f])
       /\ LastTs - scored[n].ts <= Staleness[f]
  /\ \A f \in Features \ DOMAIN last : \A i \in Measured(f) :
       LastTs - scored[i].ts > Staleness[f]

\* The frame is computed from what is carried forward.
FrameShape ==
  IF Len(scored) = 0
    THEN frame = NoFrame
    ELSE LET values == [f \in DOMAIN last |-> last[f].value]
         IN  /\ frame.ts = LastTs
             /\ frame.values = values
             /\ frame.derived = Derived(values)
             /\ frame.coverage = Coverage(values)

\* Where each delivery is.
Accounted ==
  /\ DOMAIN pending \subseteq DOMAIN delivered
  /\ sample # NoSample => DOMAIN sample.values \subseteq DOMAIN delivered
  /\ \A f \in DOMAIN delivered :
       /\ f \in Features /\ delivered[f].ts \in Nat /\ delivered[f].ts <= clock
       /\ IF f \in DOMAIN pending THEN pending[f] = delivered[f].value
          ELSE IF sample # NoSample /\ f \in DOMAIN sample.values
            THEN sample.values[f] = delivered[f].value /\ delivered[f].ts <= sample.ts
            ELSE \E n \in Measured(f) : /\ Newest(f, n)
                                        /\ scored[n].values[f] = delivered[f].value
                                        /\ delivered[f].ts <= scored[n].ts

\* The inductive invariant of the pipeline.
PipelineInv ==
  PipelineTypeOK /\ TicksAdvance /\ LastIsNewest /\ FrameShape /\ Accounted

-----------------------------------------------------------------------------
\* A bounded set of numbers has a greatest one,
LEMMA GreatestNumber ==
  ASSUME NEW N \in Nat, NEW S \in SUBSET (0 .. N), S # {}
  PROVE  Max(S) \in S /\ \A y \in S : Max(S) >= y
<1>. DEFINE T == {N - x : x \in S}
<1>1. \A x \in S : x \in Nat /\ x <= N
  OBVIOUS
<1>2. T \subseteq Nat /\ T # {}
  <2>1. \A x \in S : N - x \in Nat
    BY <1>1
  <2>. QED BY <2>1
<1>3. \E m \in T : \A k \in T : ~(<<k, m>> \in OpToRel(<, Nat))
  <2>. HIDE DEF T
  <2>. QED BY <1>2, WFMin, NatLessThanWellFounded, Zenon
<1>4. \E m \in T : \A k \in T : ~(k < m)
  BY <1>2, <1>3, Zenon DEF OpToRel
<1>5. \E x \in S : \A y \in S : x >= y
  <2>. PICK x \in S : \A k \in T : ~(k < N - x)
    BY <1>4
  <2>1. ASSUME NEW y \in S PROVE x >= y
    <3>1. N - y \in T
      OBVIOUS
    <3>2. ~(N - y < N - x)
      BY <3>1
    <3>3. x \in Nat /\ y \in Nat /\ x \in Int /\ y \in Int
      BY <1>1
    <3>. QED BY <3>2, <3>3
  <2>. QED BY <2>1
<1>. QED BY <1>5 DEF Max

\* so a set of places in a sequence has.
LEMMA GreatestPlace ==
  ASSUME NEW N \in Nat, NEW S \in SUBSET (1 .. N), S # {}
  PROVE  Max(S) \in S /\ \A y \in S : Max(S) >= y
<1>1. S \in SUBSET (0 .. N)
  OBVIOUS
<1>. QED BY <1>1, GreatestNumber

\* The one that nothing exceeds is the greatest.
LEMMA GreatestIs ==
  ASSUME NEW N \in Nat, NEW S \in SUBSET (1 .. N), NEW n \in S, \A i \in S : i <= n
  PROVE  Max(S) = n
<1>1. Max(S) \in S /\ \A y \in S : Max(S) >= y
  BY GreatestPlace, Zenon
<1>2. \A y \in S : y \in Int
  OBVIOUS
<1>3. Max(S) \in Int /\ Max(S) <= n /\ Max(S) >= n /\ n \in Int
  BY <1>1, <1>2
<1>. QED BY <1>3

\* A difference, cut off at zero.
LEMMA NotNegative ==
  ASSUME NEW d \in Int
  PROVE  Max({0, d}) = IF d > 0 THEN d ELSE 0
<1>. DEFINE m == IF d > 0 THEN d ELSE 0
<1>1. m \in {0, d} /\ \A y \in {0, d} : m >= y
  OBVIOUS
<1>2. \A x \in {0, d} : (\A y \in {0, d} : x >= y) => x = m
  OBVIOUS
<1>. QED BY <1>1, <1>2 DEF Max

\* The values of a sample are integers, of some features.
LEMMA SampleValuesFacts ==
  /\ \A v \in SampleValues : /\ DOMAIN v \subseteq Features /\ \A f \in DOMAIN v : v[f] \in Int
  /\ \A D \in SUBSET Features : \A v \in [D -> Int] : v \in SampleValues
BY DEF SampleValues

\* The samples the pipeline was pushed, by their places.
LEMMA ScoredFacts ==
  ASSUME PipelineTypeOK
  PROVE  /\ Len(scored) \in Nat /\ DOMAIN scored = 1 .. Len(scored)
         /\ \A i \in DOMAIN scored : /\ scored[i].ts \in Nat /\ scored[i].values \in SampleValues
                                     /\ DOMAIN scored[i].values \subseteq Features
         /\ \A f : Measured(f) \subseteq 1 .. Len(scored)
         /\ \A f : \A i \in Measured(f) : scored[i].values[f] \in Int
<1>. DEFINE Sampled == [ts : Nat, values : SampleValues]
<1>1. scored \in Seq(Sampled)
  BY DEF PipelineTypeOK
<1>2. \A x \in Sampled : x.ts \in Nat /\ x.values \in SampleValues
  OBVIOUS
<1>. HIDE DEF Sampled
<1>3. Len(scored) \in Nat /\ DOMAIN scored = 1 .. Len(scored) /\ \A i \in DOMAIN scored : scored[i] \in Sampled
  BY <1>1
<1>4. \A f : Measured(f) \subseteq 1 .. Len(scored)
  BY <1>3 DEF Measured
<1>5. \A f : \A i \in Measured(f) : i \in DOMAIN scored /\ f \in DOMAIN scored[i].values
  BY DEF Measured
<1>. QED BY <1>2, <1>3, <1>4, <1>5, SampleValuesFacts

\* Nothing has been delivered at the start.
LEMMA PipelineInitially == PipelineInit => PipelineInv
<1> SUFFICES ASSUME PipelineInit PROVE PipelineInv
  OBVIOUS
<1>1. /\ clock = 1 /\ lastTake = 0 /\ pending = Empty /\ sample = NoSample /\ last = Empty
      /\ frame = NoFrame /\ delivered = Empty /\ scored = << >>
  BY DEF PipelineInit
<1>2. Empty \in SampleValues /\ DOMAIN Empty = {}
  <2>1. Empty \in [{} -> Int] /\ DOMAIN Empty = {}
    BY DEF Empty
  <2>. QED BY <2>1, SampleValuesFacts
<1>3. DOMAIN scored = {} /\ Len(scored) = 0 /\ \A f : Measured(f) = {}
  BY <1>1 DEF Measured
<1>4. PipelineTypeOK
  BY <1>1, <1>2 DEF PipelineTypeOK
<1>5. TicksAdvance
  BY <1>1, <1>3 DEF TicksAdvance
<1>6. LastIsNewest
  BY <1>1, <1>2, <1>3 DEF LastIsNewest
<1>7. FrameShape
  BY <1>1, <1>3 DEF FrameShape
<1>8. Accounted
  BY <1>1, <1>2 DEF Accounted
<1>. QED BY <1>4, <1>5, <1>6, <1>7, <1>8 DEF PipelineInv

-----------------------------------------------------------------------------
\* The invariant says what a frame shows.
LEMMA NewestIsLatest ==
  ASSUME PipelineInv, Len(scored) > 0, NEW f \in Features
  PROVE  LET lately == {i \in Measured(f) : frame.ts - scored[i].ts <= Staleness[f]}
         IN  /\ lately # {} <=> f \in DOMAIN last
             /\ f \in DOMAIN last => last[f].value = scored[Max(lately)].values[f]
<1>. USE DEF PipelineInv
<1>. DEFINE lately == {i \in Measured(f) : frame.ts - scored[i].ts <= Staleness[f]}
<1>1. frame.ts = LastTs
  BY ScoredFacts DEF FrameShape
<1>2. CASE f \in DOMAIN last
  <2>1. PICK n \in Measured(f) :
          /\ Newest(f, n)
          /\ last[f] = Point(scored[n].ts, scored[n].values[f])
          /\ LastTs - scored[n].ts <= Staleness[f]
    BY <1>2 DEF LastIsNewest
  <2>2. n \in lately /\ \A i \in lately : i <= n
    BY <1>1, <2>1 DEF Newest
  <2>3. lately \in SUBSET (1 .. Len(scored)) /\ Len(scored) \in Nat
    BY ScoredFacts
  <2>4. Max(lately) = n
    <3>. HIDE DEF lately
    <3>. QED BY <2>2, <2>3, GreatestIs
  <2>. QED BY <1>2, <2>1, <2>2, <2>4 DEF Point
<1>3. CASE f \notin DOMAIN last
  <2>1. \A i \in Measured(f) : LastTs - scored[i].ts > Staleness[f]
    BY <1>3 DEF LastIsNewest
  <2>2. Staleness[f] \in Nat /\ LastTs \in Nat /\ \A i \in Measured(f) : scored[i].ts \in Nat
    BY ScoredFacts, PipelineAssumption DEF LastTs, Measured
  <2>3. lately = {}
    BY <1>1, <2>1, <2>2
  <2>. QED BY <1>3, <2>3
<1>. QED BY <1>2, <1>3

\* So the frame is the recent history,
LEMMA FrameFromInvariant == PipelineInv => FrameIsRecentHistory
<1> SUFFICES ASSUME PipelineInv, frame # NoFrame PROVE FrameIsRecentHistory
  BY DEF FrameIsRecentHistory
<1>. DEFINE lately(f) == {i \in Measured(f) : frame.ts - scored[i].ts <= Staleness[f]}
            known == {f \in Features : lately(f) # {}}
            latest(f) == scored[Max(lately(f))].values[f]
            values == [f \in DOMAIN last |-> last[f].value]
<1>1. /\ Len(scored) \in Nat /\ Len(scored) > 0 /\ DOMAIN last \subseteq Features
      /\ frame.values = values /\ frame.derived = Derived(values)
      /\ frame.coverage = Cardinality(DOMAIN values)
  BY ScoredFacts DEF PipelineInv, FrameShape, LastIsNewest, Coverage
<1>2. \A f \in Features : /\ lately(f) # {} <=> f \in DOMAIN last
                          /\ f \in DOMAIN last => last[f].value = latest(f)
  BY <1>1, NewestIsLatest
<1>3. \A f \in DOMAIN last : last[f].value \in Int
  BY ScoredFacts DEF PipelineInv, LastIsNewest, Point
<1>. HIDE DEF lately
<1>4. known = DOMAIN last
  BY <1>1, <1>2
<1>5. \A f \in known : latest(f) \in Int /\ values[f] = latest(f)
  BY <1>1, <1>2, <1>3, <1>4
<1>. HIDE DEF latest, known
<1>6. frame.values = [f \in known |-> latest(f)]
  BY <1>1, <1>4, <1>5
<1>7. ASSUME NEW leg \in Legs
      PROVE  IF {leg[1], leg[2]} \subseteq known
               THEN /\ frame.derived[leg] >= latest(leg[1]) - latest(leg[2])
                    /\ frame.derived[leg] > 0 => latest(leg[1]) > latest(leg[2])
               ELSE leg \notin DOMAIN frame.derived
  <2>1. DOMAIN values = known
    BY <1>4
  <2>2. CASE {leg[1], leg[2]} \subseteq known
    <3>1. frame.derived[leg] = Max({0, latest(leg[1]) - latest(leg[2])})
      BY <1>1, <1>5, <2>1, <2>2 DEF Derived
    <3>2. latest(leg[1]) \in Int /\ latest(leg[2]) \in Int
      BY <1>5, <2>2
    <3>3. latest(leg[1]) - latest(leg[2]) \in Int
      BY <3>2
    <3>. QED BY <2>2, <3>1, <3>2, <3>3, NotNegative
  <2>3. CASE ~({leg[1], leg[2]} \subseteq known)
    BY <1>1, <2>1, <2>3 DEF Derived
  <2>. QED BY <2>2, <2>3
<1>8. frame.coverage = Cardinality(known)
  BY <1>1, <1>4
<1>. QED BY <1>6, <1>7, <1>8 DEF FrameIsRecentHistory, lately, known, latest

\* and a delivery that has left the assembler is found in it.
LEMMA LossFromInvariant == PipelineInv => NoneIsLost
<1> SUFFICES ASSUME PipelineInv, sample = NoSample, NEW f \in DOMAIN delivered
             PROVE  IF f \in DOMAIN pending
                      THEN pending[f] = delivered[f].value
                      ELSE \/ f \in DOMAIN last /\ last[f].value = delivered[f].value
                           \/ f \notin DOMAIN last /\ frame.ts - delivered[f].ts > Staleness[f]
  BY DEF NoneIsLost
<1>. USE DEF PipelineInv
<1>1. CASE f \in DOMAIN pending
  BY <1>1 DEF Accounted
<1>2. CASE f \notin DOMAIN pending
  <2>1. PICK n \in Measured(f) : /\ Newest(f, n)
                                 /\ scored[n].values[f] = delivered[f].value
                                 /\ delivered[f].ts <= scored[n].ts
    BY <1>2 DEF Accounted
  <2>2. f \in Features /\ delivered[f].ts \in Nat /\ Staleness[f] \in Nat
    BY PipelineAssumption DEF Accounted
  <2>3. CASE f \in DOMAIN last
    <3>1. PICK m \in Measured(f) :
            /\ Newest(f, m) /\ last[f] = Point(scored[m].ts, scored[m].values[f])
      BY <2>3 DEF LastIsNewest
    <3>2. m = n
      <4>1. m <= n /\ n <= m
        BY <2>1, <3>1 DEF Newest
      <4>2. m \in Nat /\ n \in Nat
        BY <2>1, <3>1, ScoredFacts
      <4>. QED BY <4>1, <4>2
    <3>. QED BY <1>2, <2>1, <2>3, <3>1, <3>2 DEF Point
  <2>4. CASE f \notin DOMAIN last
    <3>1. LastTs - scored[n].ts > Staleness[f]
      BY <2>1, <2>2, <2>4 DEF LastIsNewest
    <3>2. n \in 1 .. Len(scored) /\ Len(scored) \in Nat /\ scored[n].ts \in Nat /\ LastTs \in Nat
      BY <2>1, ScoredFacts DEF LastTs
    <3>3. frame.ts = LastTs
      BY <3>2 DEF FrameShape
    <3>. QED BY <1>2, <2>1, <2>2, <2>4, <3>1, <3>2, <3>3
  <2>. QED BY <2>3, <2>4
<1>. QED BY <1>1, <1>2

-----------------------------------------------------------------------------
\* What does not touch the history keeps what is said of it.
LEMMA HistoryKept ==
  ASSUME UNCHANGED <<scored, last, frame>>
  PROVE  /\ LastIsNewest => LastIsNewest'
         /\ FrameShape => FrameShape'
         /\ LastTs' = LastTs
         /\ \A f : Measured(f)' = Measured(f) /\ \A n : Newest(f, n)' <=> Newest(f, n)
<1>1. /\ LastTs' = LastTs
      /\ \A f : Measured(f)' = Measured(f)
  BY DEF LastTs, Measured
<1>2. \A f, n : Newest(f, n)' <=> Newest(f, n)
  BY <1>1 DEF Newest
<1>3. LastIsNewest => LastIsNewest'
  BY <1>1, <1>2, Zenon DEF LastIsNewest
<1>4. FrameShape => FrameShape'
  BY <1>1 DEF FrameShape
<1>. QED BY <1>1, <1>2, <1>3, <1>4

\* A delivery goes through its stages on its own.
Stage(f) ==
  IF f \in DOMAIN pending THEN pending[f] = delivered[f].value
  ELSE IF sample # NoSample /\ f \in DOMAIN sample.values
    THEN sample.values[f] = delivered[f].value /\ delivered[f].ts <= sample.ts
    ELSE \E n \in Measured(f) : /\ Newest(f, n)
                                /\ scored[n].values[f] = delivered[f].value
                                /\ delivered[f].ts <= scored[n].ts

\* A worker delivers while the scoring loop is anywhere.
LEMMA DeliverStep ==
  ASSUME PipelineInv, NEW f \in Features, NEW value \in Values[f], Deliver(f, value)
  PROVE  PipelineInv'
<1>. USE DEF PipelineInv
<1>1. /\ UNCHANGED <<clock, sample, scored, last, frame, lastTake>>
      /\ pending' = [x \in {f} \cup DOMAIN pending |-> IF x = f THEN value ELSE pending[x]]
      /\ delivered' = [x \in {f} \cup DOMAIN delivered |-> IF x = f THEN Point(clock, value)
                                                                    ELSE delivered[x]]
  BY DEF Deliver, Updated
<1>2. value \in Int /\ clock \in Nat /\ Values[f] \subseteq Int
  BY PipelineAssumption DEF PipelineTypeOK
<1>3. pending' \in SampleValues
  <2>1. /\ DOMAIN pending \subseteq Features /\ \A x \in DOMAIN pending : pending[x] \in Int
    BY SampleValuesFacts DEF PipelineTypeOK
  <2>2. pending' \in [{f} \cup DOMAIN pending -> Int]
    BY <1>1, <1>2, <2>1
  <2>. QED BY <2>1, <2>2, SampleValuesFacts
<1>4. PipelineTypeOK' /\ TicksAdvance'
  BY <1>1, <1>3 DEF PipelineTypeOK, TicksAdvance
<1>5. LastIsNewest' /\ FrameShape'
  BY <1>1, HistoryKept
<1>6. Accounted'
  <2>1. DOMAIN pending' \subseteq DOMAIN delivered' /\ DOMAIN delivered \subseteq DOMAIN delivered'
    BY <1>1 DEF Accounted
  <2>2. ASSUME NEW x \in DOMAIN delivered'
        PROVE  /\ x \in Features /\ delivered'[x].ts \in Nat /\ delivered'[x].ts <= clock'
               /\ Stage(x)'
    <3>1. CASE x = f
      BY <1>1, <1>2, <3>1 DEF Stage, Point
    <3>2. CASE x # f
      <4>1. /\ x \in DOMAIN delivered /\ delivered'[x] = delivered[x]
            /\ x \in DOMAIN pending' <=> x \in DOMAIN pending
            /\ x \in DOMAIN pending => pending'[x] = pending[x]
        BY <1>1, <3>2
      <4>2. x \in Features /\ delivered[x].ts \in Nat /\ delivered[x].ts <= clock /\ Stage(x)
        BY <4>1 DEF Accounted, Stage
      <4>3. Measured(x)' = Measured(x) /\ \A n : Newest(x, n)' <=> Newest(x, n)
        BY <1>1, HistoryKept
      <4>4. Stage(x)'
        BY <1>1, <4>1, <4>2, <4>3 DEF Stage
      <4>. QED BY <1>1, <4>1, <4>2, <4>4
    <3>. QED BY <3>1, <3>2
  <2>. QED BY <1>1, <2>1, <2>2 DEF Accounted, Stage
<1>. QED BY <1>4, <1>5, <1>6

\* The tick empties the assembler.
LEMMA TakeStep == ASSUME PipelineInv, Take PROVE PipelineInv'
<1>. USE DEF PipelineInv
<1>1. /\ UNCHANGED <<clock, scored, last, frame, delivered>> /\ sample = NoSample
      /\ lastTake' = clock /\ lastTake < clock /\ clock \in Nat
      /\ pending' = Empty /\ DOMAIN pending' = {} /\ pending' \in SampleValues
      /\ sample' = IF pending = Empty THEN NoSample ELSE [ts |-> clock, values |-> pending]
  <2>1. Empty \in [{} -> Int] /\ DOMAIN Empty = {}
    BY DEF Empty
  <2>2. Empty \in SampleValues
    BY <2>1, SampleValuesFacts
  <2>. QED BY <2>1, <2>2 DEF Take, PipelineTypeOK
<1>2. /\ lastTake \in Nat /\ pending \in SampleValues /\ scored \in Seq([ts : Nat, values : SampleValues])
  BY DEF PipelineTypeOK
<1>3. PipelineTypeOK'
  BY <1>1, <1>2 DEF PipelineTypeOK
<1>4. TicksAdvance'
  <2>1. \A i \in DOMAIN scored : scored[i].ts < clock
    BY <1>1, <1>2, ScoredFacts DEF TicksAdvance
  <2>. QED BY <1>1, <2>1, ScoredFacts DEF TicksAdvance
<1>5. LastIsNewest' /\ FrameShape'
  BY <1>1, HistoryKept
<1>6. Accounted'
  <2>1. CASE pending = Empty
    <3>1. sample' = NoSample /\ DOMAIN pending = {}
      BY <1>1, <2>1
    <3>2. ASSUME NEW x \in DOMAIN delivered PROVE Stage(x)'
      <4>1. Stage(x)
        BY DEF Accounted, Stage
      <4>2. Measured(x)' = Measured(x) /\ \A n : Newest(x, n)' <=> Newest(x, n)
        BY <1>1, HistoryKept
      <4>. QED BY <1>1, <3>1, <4>1, <4>2 DEF Stage
    <3>. QED BY <1>1, <3>1, <3>2 DEF Accounted, Stage
  <2>2. CASE pending # Empty
    <3>1. sample' = [ts |-> clock, values |-> pending]
      BY <1>1, <2>2
    <3>2. sample' # NoSample
      BY <1>1, <1>2, <3>1, PipelineAssumption
    <3>3. ASSUME NEW x \in DOMAIN delivered PROVE Stage(x)'
      <4>1. Stage(x) /\ delivered[x].ts <= clock
        BY DEF Accounted, Stage
      <4>2. Measured(x)' = Measured(x) /\ \A n : Newest(x, n)' <=> Newest(x, n)
        BY <1>1, HistoryKept
      <4>. QED BY <1>1, <3>1, <3>2, <4>1, <4>2 DEF Stage
    <3>. QED BY <1>1, <3>1, <3>2, <3>3 DEF Accounted, Stage
  <2>. QED BY <2>1, <2>2
<1>. QED BY <1>3, <1>4, <1>5, <1>6

\* A tick that fails takes its sample with it, and the deliveries it held.
LEMMA TickFailsStep == ASSUME PipelineInv, TickFails PROVE PipelineInv'
<1>. USE DEF PipelineInv
<1>. DEFINE kept == DOMAIN delivered \ (DOMAIN sample.values \ DOMAIN pending)
<1>1. /\ UNCHANGED <<clock, pending, scored, last, frame, lastTake>>
      /\ sample # NoSample /\ sample' = NoSample
      /\ delivered' = [x \in kept |-> delivered[x]]
  BY DEF TickFails, Restrict
<1>2. PipelineTypeOK' /\ TicksAdvance'
  BY <1>1 DEF PipelineTypeOK, TicksAdvance
<1>3. LastIsNewest' /\ FrameShape'
  BY <1>1, HistoryKept
<1>4. Accounted'
  <2>1. DOMAIN pending' \subseteq DOMAIN delivered'
    BY <1>1 DEF Accounted
  <2>2. ASSUME NEW x \in DOMAIN delivered'
        PROVE  /\ x \in Features /\ delivered'[x].ts \in Nat /\ delivered'[x].ts <= clock'
               /\ Stage(x)'
    <3>1. x \in kept /\ x \in DOMAIN delivered /\ delivered'[x] = delivered[x]
      BY <1>1
    <3>2. x \in Features /\ delivered[x].ts \in Nat /\ delivered[x].ts <= clock /\ Stage(x)
      BY <3>1 DEF Accounted, Stage
    <3>3. Measured(x)' = Measured(x) /\ \A n : Newest(x, n)' <=> Newest(x, n)
      BY <1>1, HistoryKept
    <3>. QED BY <1>1, <3>1, <3>2, <3>3 DEF Stage
  <2>. QED BY <1>1, <2>1, <2>2 DEF Accounted, Stage
<1>. QED BY <1>2, <1>3, <1>4

\* A wipe takes what was scored; what was not yet scored stays.
LEMMA WipeStep == ASSUME PipelineInv, Wipe PROVE PipelineInv'
<1>. USE DEF PipelineInv
<1>. DEFINE kept == DOMAIN pending \cup (IF sample = NoSample THEN {} ELSE DOMAIN sample.values)
<1>1. /\ UNCHANGED <<clock, pending, sample, lastTake>>
      /\ last' = Empty /\ frame' = NoFrame /\ scored' = << >>
      /\ delivered' = [x \in kept |-> delivered[x]]
  BY DEF Wipe, Restrict
<1>2. DOMAIN scored' = {} /\ Len(scored') = 0 /\ DOMAIN last' = {} /\ \A f : Measured(f)' = {}
  BY <1>1 DEF Empty, Measured
<1>3. scored' \in Seq([ts : Nat, values : SampleValues])
  BY <1>1
<1>4. PipelineTypeOK'
  BY <1>1, <1>3 DEF PipelineTypeOK
<1>5. TicksAdvance' /\ LastIsNewest' /\ FrameShape'
  BY <1>1, <1>2 DEF TicksAdvance, LastIsNewest, FrameShape
<1>6. Accounted'
  <2>1. kept \subseteq DOMAIN delivered
    BY DEF Accounted
  <2>2. ASSUME NEW x \in kept PROVE Stage(x)'
    <3>1. Stage(x)
      BY <2>1 DEF Accounted, Stage
    <3>. QED BY <1>1, <2>1, <3>1 DEF Stage
  <2>. QED BY <1>1, <2>1, <2>2 DEF Accounted, Stage
<1>. QED BY <1>4, <1>5, <1>6

\* A push, without what it does to the windows.
LEMMA PushFacts ==
  ASSUME PipelineInv, Push
  PROVE  LET ts == sample.ts
             measured == DOMAIN sample.values
             latest == [f \in measured \cup DOMAIN last |->
                          IF f \in measured THEN Point(ts, sample.values[f]) ELSE last[f]]
             carried == {f \in DOMAIN latest : ts - latest[f].ts <= Staleness[f]}
         IN  /\ UNCHANGED <<clock, pending, lastTake, delivered>>
             /\ sample # NoSample /\ sample' = NoSample
             /\ last' = [f \in carried |-> latest[f]]
             /\ scored' = Append(scored, [ts |-> ts, values |-> sample.values])
             /\ frame'.ts = ts
             /\ frame'.values = [f \in carried |-> latest[f].value]
             /\ frame'.derived = Derived([f \in carried |-> latest[f].value])
             /\ frame'.coverage = Coverage([f \in carried |-> latest[f].value])
<1>. DEFINE points == [f \in DOMAIN sample.values |-> Point(sample.ts, sample.values[f])]
<1>1. Updated(last, points) =
        [f \in DOMAIN sample.values \cup DOMAIN last |->
           IF f \in DOMAIN sample.values THEN Point(sample.ts, sample.values[f]) ELSE last[f]]
  BY DEF Updated
<1>. QED BY <1>1 DEF Push, Restrict, StillFresh

\* A push makes the sample the newest of each feature it has.
LEMMA PushStep == ASSUME PipelineInv, Push PROVE PipelineInv'
<1>. USE DEF PipelineInv
<1>. DEFINE ts == sample.ts
            measured == DOMAIN sample.values
            latest == [f \in measured \cup DOMAIN last |->
                          IF f \in measured THEN Point(ts, sample.values[f]) ELSE last[f]]
            carried == {f \in DOMAIN latest : ts - latest[f].ts <= Staleness[f]}
<1>1. /\ UNCHANGED <<clock, pending, lastTake, delivered>>
      /\ sample # NoSample /\ sample' = NoSample
      /\ last' = [f \in carried |-> latest[f]]
      /\ scored' = Append(scored, [ts |-> ts, values |-> sample.values])
      /\ frame'.ts = ts
      /\ frame'.values = [f \in carried |-> latest[f].value]
      /\ frame'.derived = Derived([f \in carried |-> latest[f].value])
      /\ frame'.coverage = Coverage([f \in carried |-> latest[f].value])
  BY PushFacts
<1>2. /\ ts \in Nat /\ sample.values \in SampleValues /\ measured \subseteq Features
      /\ \A f \in measured : sample.values[f] \in Int
      /\ ts = lastTake /\ DOMAIN last \subseteq Features
  BY <1>1, SampleValuesFacts DEF PipelineTypeOK, LastIsNewest
<1>3. /\ Len(scored) \in Nat /\ Len(scored') = Len(scored) + 1
      /\ DOMAIN scored = 1 .. Len(scored) /\ DOMAIN scored' = 1 .. Len(scored) + 1
      /\ \A i \in DOMAIN scored : scored'[i] = scored[i]
      /\ scored'[Len(scored) + 1].ts = ts /\ scored'[Len(scored) + 1].values = sample.values
      /\ scored' \in Seq([ts : Nat, values : SampleValues])
  <2>. DEFINE Sampled == [ts : Nat, values : SampleValues]
              s == [ts |-> ts, values |-> sample.values]
  <2>1. scored \in Seq(Sampled) /\ s \in Sampled
    BY <1>2 DEF PipelineTypeOK
  <2>. HIDE DEF Sampled, s
  <2>2. scored' = Append(scored, s)
    BY <1>1 DEF s
  <2>3. /\ Len(scored) \in Nat /\ Len(scored') = Len(scored) + 1
        /\ DOMAIN scored = 1 .. Len(scored) /\ DOMAIN scored' = 1 .. Len(scored) + 1
        /\ \A i \in DOMAIN scored : scored'[i] = scored[i]
        /\ scored'[Len(scored) + 1] = s
        /\ scored' \in Seq(Sampled)
    BY <2>1, <2>2
  <2>. QED BY <2>3 DEF s, Sampled
<1>. DEFINE new == Len(scored) + 1
<1>4. \A i \in DOMAIN scored : scored[i].ts \in Nat /\ scored[i].ts < ts
  BY <1>1, ScoredFacts DEF TicksAdvance
<1>5. LastTs' = ts
  BY <1>3 DEF LastTs
<1>6. \A f : Measured(f)' = IF f \in measured THEN Measured(f) \cup {new} ELSE Measured(f)
  BY <1>3 DEF Measured
<1>7. /\ \A f : Measured(f) \subseteq DOMAIN scored
      /\ \A f : \A n : f \notin measured => (Newest(f, n)' <=> Newest(f, n))
      /\ \A f : f \in measured => Measured(f)' = Measured(f) \cup {new}
  BY <1>6 DEF Measured, Newest
<1>8. PipelineTypeOK'
  BY <1>1, <1>3 DEF PipelineTypeOK
<1>9. TicksAdvance'
  BY <1>1, <1>2, <1>3, <1>4 DEF TicksAdvance
<1>10. DOMAIN latest = measured \cup DOMAIN last /\ carried \subseteq DOMAIN latest /\ DOMAIN last' = carried
       /\ \A f \in carried : last'[f] = latest[f]
  BY <1>1
<1>. HIDE DEF carried
<1>11. FrameShape'
  <2>1. [f \in DOMAIN last' |-> last'[f].value] = [f \in carried |-> latest[f].value]
    BY <1>10
  <2>2. Len(scored') # 0
    BY <1>3
  <2>. QED BY <1>1, <1>5, <2>1, <2>2 DEF FrameShape
<1>12. LastIsNewest'
  <2>1. DOMAIN last' \subseteq Features
    BY <1>2, <1>10
  <2>2. ASSUME NEW f \in carried
        PROVE  \E n \in Measured(f)' :
                 /\ Newest(f, n)'
                 /\ last'[f] = Point(scored'[n].ts, scored'[n].values[f])
                 /\ LastTs' - scored'[n].ts <= Staleness[f]
    <3>1. f \in Features /\ Staleness[f] \in Nat /\ ts - latest[f].ts <= Staleness[f]
      BY <1>2, <1>10, PipelineAssumption DEF carried
    <3>2. CASE f \in measured
      <4>. PICK n \in Nat : n = new
        BY <1>3
      <4>1. n \in Measured(f)' /\ \A i \in Measured(f)' : i <= n
        BY <1>3, <1>7, <3>2
      <4>2. Newest(f, n)'
        BY <4>1 DEF Newest
      <4>3. last'[f] = Point(ts, sample.values[f])
        BY <1>10, <3>2
      <4>4. scored'[n].ts = ts /\ scored'[n].values = sample.values
        BY <1>3
      <4>5. LastTs' - scored'[n].ts <= Staleness[f]
        BY <1>2, <1>5, <3>1, <4>4
      <4>. QED BY <4>1, <4>2, <4>3, <4>4, <4>5
    <3>3. CASE f \notin measured
      <4>1. f \in DOMAIN last /\ last'[f] = last[f] /\ latest[f] = last[f]
        BY <1>10, <3>3
      <4>2. PICK n \in Measured(f) :
              /\ Newest(f, n) /\ last[f] = Point(scored[n].ts, scored[n].values[f])
        BY <4>1 DEF LastIsNewest
      <4>3. n \in Measured(f)' /\ Newest(f, n)' /\ scored'[n] = scored[n]
        BY <1>3, <1>6, <1>7, <3>3, <4>2
      <4>4. LastTs' - scored'[n].ts <= Staleness[f]
        BY <1>5, <3>1, <4>1, <4>2, <4>3 DEF Point
      <4>. QED BY <4>1, <4>2, <4>3, <4>4
    <3>. QED BY <3>2, <3>3
  <2>3. ASSUME NEW f \in Features, f \notin carried, NEW i \in Measured(f)'
        PROVE  LastTs' - scored'[i].ts > Staleness[f]
    <3>1. Staleness[f] \in Nat
      BY PipelineAssumption
    <3>2. f \notin measured
      <4>1. CASE f \in measured
        <5>1. f \in DOMAIN latest /\ latest[f].ts = ts
          BY <4>1 DEF Point
        <5>2. f \in carried
          BY <1>2, <3>1, <5>1 DEF carried
        <5>. QED BY <2>3, <5>2
      <4>. QED BY <4>1
    <3>3. /\ i \in Measured(f) /\ i \in DOMAIN scored /\ scored'[i] = scored[i]
          /\ scored[i].ts \in Nat /\ scored[i].ts < ts
      BY <1>3, <1>4, <1>6, <1>7, <3>2
    <3>4. CASE f \in DOMAIN last
      <4>1. ~(ts - last[f].ts <= Staleness[f])
        BY <1>10, <2>3, <3>2, <3>4 DEF carried
      <4>2. PICK n \in Measured(f) :
              /\ Newest(f, n) /\ last[f] = Point(scored[n].ts, scored[n].values[f])
        BY <3>4 DEF LastIsNewest
      <4>3. n \in DOMAIN scored /\ scored[n].ts \in Nat /\ last[f].ts = scored[n].ts
        BY <1>4, <1>7, <4>2 DEF Point
      <4>4. scored[i].ts <= scored[n].ts
        <5>1. i <= n
          BY <3>3, <4>2 DEF Newest
        <5>2. i \in Nat /\ n \in Nat
          BY <1>3, <3>3, <4>3
        <5>. QED BY <3>3, <4>3, <5>1, <5>2 DEF TicksAdvance
      <4>. QED BY <1>2, <1>5, <3>1, <3>3, <4>1, <4>3, <4>4
    <3>5. CASE f \notin DOMAIN last
      <4>1. LastTs - scored[i].ts > Staleness[f]
        BY <3>3, <3>5 DEF LastIsNewest
      <4>2. Len(scored) \in DOMAIN scored
        BY <1>3, <3>3
      <4>3. LastTs \in Nat /\ LastTs < ts
        BY <1>4, <4>2 DEF LastTs
      <4>. QED BY <1>2, <1>5, <3>1, <3>3, <4>1, <4>3
    <3>. QED BY <3>4, <3>5
  <2>4. \A f \in DOMAIN last' : \E n \in Measured(f)' :
          /\ Newest(f, n)'
          /\ last'[f] = Point(scored'[n].ts, scored'[n].values[f])
          /\ LastTs' - scored'[n].ts <= Staleness[f]
    BY <1>10, <2>2
  <2>5. \A f \in Features \ DOMAIN last' : \A i \in Measured(f)' :
          LastTs' - scored'[i].ts > Staleness[f]
    BY <1>10, <2>3
  <2>. QED BY <2>1, <2>4, <2>5 DEF LastIsNewest
<1>13. Accounted'
  <2>1. ASSUME NEW f \in DOMAIN delivered PROVE Stage(f)'
    <3>1. f \in Features /\ Stage(f)
      BY DEF Accounted, Stage
    <3>2. CASE f \in DOMAIN pending
      BY <1>1, <3>1, <3>2 DEF Stage
    <3>3. CASE f \notin DOMAIN pending /\ f \in measured
      <4>. PICK n \in Nat : n = new
        BY <1>3
      <4>1. n \in Measured(f)' /\ \A i \in Measured(f)' : i <= n
        BY <1>3, <1>7, <3>3
      <4>2. Newest(f, n)'
        BY <4>1 DEF Newest
      <4>3. scored'[n].ts = ts /\ scored'[n].values = sample.values
        BY <1>3
      <4>4. sample.values[f] = delivered[f].value /\ delivered[f].ts <= ts
        BY <1>1, <3>1, <3>3 DEF Stage
      <4>. QED BY <1>1, <3>3, <4>1, <4>2, <4>3, <4>4 DEF Stage
    <3>4. CASE f \notin DOMAIN pending /\ f \notin measured
      <4>1. PICK n \in Measured(f) : /\ Newest(f, n)
                                     /\ scored[n].values[f] = delivered[f].value
                                     /\ delivered[f].ts <= scored[n].ts
        BY <3>1, <3>4 DEF Stage
      <4>2. n \in Measured(f)' /\ Newest(f, n)' /\ scored'[n] = scored[n]
        BY <1>3, <1>6, <1>7, <3>4, <4>1
      <4>. QED BY <1>1, <3>4, <4>1, <4>2 DEF Stage
    <3>. QED BY <3>2, <3>3, <3>4
  <2>. QED BY <1>1, <2>1 DEF Accounted, Stage
<1>. QED BY <1>8, <1>9, <1>11, <1>12, <1>13

\* Every step keeps the invariant,
LEMMA PipelineStep == PipelineInv /\ [PipelineNext]_pipelineVars => PipelineInv'
<1> SUFFICES ASSUME PipelineInv, [PipelineNext]_pipelineVars PROVE PipelineInv'
  OBVIOUS
<1>1. ASSUME /\ UNCHANGED <<pending, sample, last, frame, lastTake, delivered, scored>>
             /\ clock' \in {clock, clock + 1}
      PROVE  PipelineInv'
  <2>. USE DEF PipelineInv
  <2>1. clock \in Nat
    BY DEF PipelineTypeOK
  <2>2. PipelineTypeOK' /\ TicksAdvance'
    BY <1>1, <2>1 DEF PipelineTypeOK, TicksAdvance
  <2>3. LastIsNewest' /\ FrameShape'
    BY <1>1, HistoryKept
  <2>4. ASSUME NEW f \in DOMAIN delivered
        PROVE  /\ f \in Features /\ delivered[f].ts \in Nat /\ delivered[f].ts <= clock'
               /\ Stage(f)'
    <3>1. f \in Features /\ delivered[f].ts \in Nat /\ delivered[f].ts <= clock /\ Stage(f)
      BY DEF Accounted, Stage
    <3>2. Measured(f)' = Measured(f) /\ \A n : Newest(f, n)' <=> Newest(f, n)
      BY <1>1, HistoryKept
    <3>3. Stage(f)'
      BY <1>1, <3>1, <3>2 DEF Stage
    <3>. QED BY <1>1, <2>1, <3>1, <3>3
  <2>5. Accounted'
    BY <1>1, <2>4 DEF Accounted, Stage
  <2>. QED BY <2>2, <2>3, <2>5
<1>2. CASE Pass
  BY <1>1, <1>2 DEF Pass
<1>3. CASE UNCHANGED pipelineVars
  BY <1>1, <1>3 DEF pipelineVars
<1>4. CASE \E f \in Features : \E value \in Values[f] : Deliver(f, value)
  BY <1>4, DeliverStep
<1>5. CASE Take \/ TickFails \/ Push \/ Wipe
  BY <1>5, TakeStep, TickFailsStep, PushStep, WipeStep
<1>. QED BY <1>2, <1>3, <1>4, <1>5 DEF PipelineNext

\* and so it always holds.
LEMMA PipelineAlways == PipelineSpec => []PipelineInv
<1>1. PipelineInit => PipelineInv
  BY PipelineInitially
<1>2. PipelineInv /\ [PipelineNext]_pipelineVars => PipelineInv'
  BY PipelineStep
<1>. QED BY <1>1, <1>2, PTL DEF PipelineSpec

\* Whatever the workers deliver while a tick is under way, and however ticks fail
\* and pipelines are wiped: the last delivery of a feature waits, is carried
\* forward, or has gone stale.
THEOREM NoLossCorrect == PipelineSpec => []NoneIsLost
BY PipelineAlways, LossFromInvariant, PTL

\* A frame shows the last measurements that are recent enough, and compares two
\* legs exactly when it shows both.
THEOREM FrameCorrect == PipelineSpec => []FrameIsRecentHistory
BY PipelineAlways, FrameFromInvariant, PTL

-----------------------------------------------------------------------------
(***************************************************************************)
(* The statistics of a frame, for any windows and any values.  The library *)
(* takes sums with a recursive function, and Summarise is one.  The        *)
(* theorems by induction of the library are about operators, but that a    *)
(* set of numbers has a least one is enough (StrongInduction): with it     *)
(* these functions exist, a sum depends neither on the order nor on the    *)
(* names of what is added, and a pass comes to the cutoff of each window.  *)
(* The inductive invariant (WindowInv) says that a window follows what was *)
(* scored, and has forgotten only what no window reaches.                  *)
(***************************************************************************)
\* What holds of a number when it holds of every smaller one holds of all.
LEMMA StrongInduction ==
  ASSUME NEW T, \A n \in Nat : (\A m \in Nat : m < n => m \in T) => n \in T
  PROVE  \A n \in Nat : n \in T
<1>. DEFINE others == {n \in Nat : n \notin T}
<1>1. SUFFICES ASSUME others # {} PROVE FALSE
  OBVIOUS
<1>2. others \subseteq Nat
  OBVIOUS
<1>3. \E n \in others : \A m \in others : ~(<<m, n>> \in OpToRel(<, Nat))
  <2>. HIDE DEF others
  <2>. QED BY <1>1, <1>2, WFMin, NatLessThanWellFounded, Zenon
<1>4. \E n \in others : \A m \in others : ~(m < n)
  BY <1>2, <1>3, Zenon DEF OpToRel
<1>. QED BY <1>2, <1>4

-----------------------------------------------------------------------------
\* The element of s that a sum over s takes next.
Chosen(s) == CHOOSE x \in s : TRUE
\* g[s] is the sum of v over s, for the subsets s of S.
Unfolds(g, v, S) ==
  g = [s \in SUBSET S |-> IF s = {} THEN 0 ELSE v[Chosen(s)] + g[s \ {Chosen(s)}]]

\* A sum is what such a function has for the whole set.
LEMMA SumChosen ==
  ASSUME NEW v, NEW S
  PROVE  SumFunctionOnSet(v, S) = (CHOOSE g : Unfolds(g, v, S))[S]
BY DEF SumFunctionOnSet, FoldFunctionOnSet, MapThenFoldSet, Unfolds, Chosen

\* Removing one leaves a finite set with one less.
LEMMA OneLess ==
  ASSUME NEW S, IsFiniteSet(S), NEW x \in S
  PROVE  /\ IsFiniteSet(S \ {x}) /\ Cardinality(S \ {x}) \in Nat
         /\ Cardinality(S) \in Nat /\ Cardinality(S) = Cardinality(S \ {x}) + 1
<1>1. /\ IsFiniteSet(S \ {x})
      /\ Cardinality(S \ {x}) = IF x \in S THEN Cardinality(S) - 1 ELSE Cardinality(S)
  BY FS_RemoveElement
<1>2. Cardinality(S) \in Nat /\ Cardinality(S \ {x}) \in Nat
  BY <1>1, FS_CardinalityType
<1>. QED BY <1>1, <1>2

\* Sums of functions on finite sets unfold,
LEMMA SumExists ==
  ASSUME NEW v, NEW S, IsFiniteSet(S)
  PROVE  \E g : Unfolds(g, v, S)
<1>. DEFINE Small(n) == {s \in SUBSET S : Cardinality(s) <= n}
            Partly(g, n) == g = [s \in Small(n) |-> IF s = {} THEN 0
                                                   ELSE v[Chosen(s)] + g[s \ {Chosen(s)}]]
            T == {n \in Nat : \E g : Partly(g, n)}
<1>1. \A s \in SUBSET S : IsFiniteSet(s) /\ Cardinality(s) \in Nat /\ (s # {} => Chosen(s) \in s)
  BY FS_Subset, FS_CardinalityType DEF Chosen
<1>2. ASSUME NEW n \in Nat, \A m \in Nat : m < n => m \in T PROVE n \in T
  <2>1. CASE n = 0
    <3>1. Small(n) = {{}}
      <4>1. \A s \in SUBSET S : Cardinality(s) <= n <=> s = {}
        BY <1>1, <2>1, FS_EmptySet
      <4>. QED BY <4>1
    <3>. DEFINE g == [s \in Small(n) |-> 0]
    <3>2. Partly(g, n)
      BY <3>1
    <3>. QED BY <3>2
  <2>2. CASE n # 0
    <3>1. n - 1 \in Nat /\ n - 1 < n
      BY <2>2
    <3>2. PICK g : Partly(g, n - 1)
      BY <1>2, <3>1
    <3>. DEFINE h == [s \in Small(n) |-> IF s = {} THEN 0 ELSE v[Chosen(s)] + g[s \ {Chosen(s)}]]
    <3>3. ASSUME NEW s \in Small(n), s # {}
          PROVE  s \ {Chosen(s)} \in Small(n - 1)
      BY <1>1, <3>1, <3>3, OneLess
    <3>4. \A t \in Small(n - 1) : t \in Small(n)
      BY <1>1, <3>1
    <3>5. \A t \in Small(n - 1) : h[t] = g[t]
      <4>. HIDE DEF Small
      <4>. QED BY <3>2, <3>4
    <3>6. Partly(h, n)
      <4>. HIDE DEF Small
      <4>. QED BY <3>3, <3>5
    <3>. QED BY <3>6
  <2>. QED BY <2>1, <2>2
<1>3. \A n \in Nat : n \in T
  <2>. HIDE DEF T
  <2>. QED BY <1>2, StrongInduction
<1>4. Cardinality(S) \in Nat /\ \A s \in SUBSET S : Cardinality(s) <= Cardinality(S)
  BY FS_CardinalityType, FS_Subset
<1>5. Small(Cardinality(S)) = SUBSET S
  BY <1>4
<1>6. \E g : Partly(g, Cardinality(S))
  BY <1>3, <1>4
<1>. QED BY <1>5, <1>6 DEF Unfolds

\* to the same, whatever set they are taken on,
LEMMA SumAgrees ==
  ASSUME NEW v, NEW S, IsFiniteSet(S), NEW R \in SUBSET S,
         NEW g, Unfolds(g, v, S), NEW h, Unfolds(h, v, R)
  PROVE  g[R] = h[R]
<1>. DEFINE T == {n \in Nat : \A s \in SUBSET R : Cardinality(s) = n => g[s] = h[s]}
<1>1. \A s \in SUBSET R : s \in SUBSET S /\ IsFiniteSet(s) /\ Cardinality(s) \in Nat /\ (s # {} => Chosen(s) \in s)
  BY FS_Subset, FS_CardinalityType DEF Chosen
<1>2. ASSUME NEW n \in Nat, \A m \in Nat : m < n => m \in T PROVE n \in T
  <2>1. ASSUME NEW s \in SUBSET R, Cardinality(s) = n PROVE g[s] = h[s]
    <3>1. CASE s = {}
      BY <1>1, <3>1 DEF Unfolds
    <3>2. CASE s # {}
      <4>. DEFINE t == s \ {Chosen(s)}
      <4>1. t \in SUBSET R /\ Cardinality(t) \in Nat /\ Cardinality(t) < n
        BY <1>1, <2>1, <3>2, OneLess
      <4>2. g[t] = h[t]
        BY <1>2, <4>1
      <4>3. g[s] = v[Chosen(s)] + g[t] /\ h[s] = v[Chosen(s)] + h[t]
        BY <1>1, <3>2 DEF Unfolds
      <4>. QED BY <4>2, <4>3
    <3>. QED BY <3>1, <3>2
  <2>. QED BY <2>1
<1>3. \A n \in Nat : n \in T
  <2>. HIDE DEF T
  <2>. QED BY <1>2, StrongInduction
<1>. QED BY <1>1, <1>3

\* one element at a time.
LEMMA SumUnfolds ==
  ASSUME NEW v, NEW S, IsFiniteSet(S)
  PROVE  SumFunctionOnSet(v, S) =
           IF S = {} THEN 0 ELSE v[Chosen(S)] + SumFunctionOnSet(v, S \ {Chosen(S)})
<1>. DEFINE g == CHOOSE g : Unfolds(g, v, S)
<1>1. Unfolds(g, v, S) /\ SumFunctionOnSet(v, S) = g[S]
  BY SumExists, SumChosen
<1>. HIDE DEF g
<1>2. CASE S = {}
  BY <1>1, <1>2 DEF Unfolds
<1>3. CASE S # {}
  <2>. DEFINE R == S \ {Chosen(S)}
              h == CHOOSE h : Unfolds(h, v, R)
  <2>1. IsFiniteSet(R)
    BY FS_Subset
  <2>2. Unfolds(h, v, R) /\ SumFunctionOnSet(v, R) = h[R]
    BY <2>1, SumExists, SumChosen
  <2>. HIDE DEF h
  <2>3. g[R] = h[R]
    BY <1>1, <2>2, SumAgrees
  <2>4. g[S] = v[Chosen(S)] + g[R]
    BY <1>1, <1>3 DEF Unfolds
  <2>. QED BY <1>1, <1>3, <2>2, <2>3, <2>4
<1>. QED BY <1>2, <1>3

\* A sum of integers is one,
LEMMA SumType ==
  ASSUME NEW S, IsFiniteSet(S), NEW v, \A x \in S : v[x] \in Int
  PROVE  SumFunctionOnSet(v, S) \in Int
<1>. DEFINE Total(s) == SumFunctionOnSet(v, s)
            T == {n \in Nat : \A s \in SUBSET S : Cardinality(s) = n => Total(s) \in Int}
<1>1. ASSUME NEW n \in Nat, \A m \in Nat : m < n => m \in T PROVE n \in T
  <2>1. ASSUME NEW s \in SUBSET S, Cardinality(s) = n PROVE Total(s) \in Int
    <3>1. IsFiniteSet(s)
      BY FS_Subset
    <3>2. Total(s) = IF s = {} THEN 0 ELSE v[Chosen(s)] + Total(s \ {Chosen(s)})
      BY <3>1, SumUnfolds
    <3>3. CASE s # {}
      <4>1. Chosen(s) \in s
        BY <3>3 DEF Chosen
      <4>2. Cardinality(s \ {Chosen(s)}) \in Nat /\ Cardinality(s \ {Chosen(s)}) < n
        BY <2>1, <3>1, <4>1, OneLess
      <4>3. Total(s \ {Chosen(s)}) \in Int
        <5>. HIDE DEF Total
        <5>. QED BY <1>1, <4>2
      <4>. HIDE DEF Total
      <4>. QED BY <3>2, <3>3, <4>1, <4>3
    <3>. QED BY <3>2, <3>3
  <2>. QED BY <2>1
<1>2. \A n \in Nat : n \in T
  <2>. HIDE DEF T
  <2>. QED BY <1>1, StrongInduction
<1>. QED BY <1>2, FS_CardinalityType

\* and does not depend on the order:
LEMMA SumRemoves ==
  ASSUME NEW S, IsFiniteSet(S), NEW v, \A x \in S : v[x] \in Int, NEW x \in S
  PROVE  SumFunctionOnSet(v, S) = v[x] + SumFunctionOnSet(v, S \ {x})
<1>. DEFINE Total(s) == SumFunctionOnSet(v, s)
            T == {n \in Nat : \A s \in SUBSET S : Cardinality(s) = n =>
                                \A y \in s : Total(s) = v[y] + Total(s \ {y})}
<1>1. \A s \in SUBSET S : IsFiniteSet(s) /\ Total(s) \in Int
  <2>1. \A s \in SUBSET S : IsFiniteSet(s)
    BY FS_Subset
  <2>2. ASSUME NEW s \in SUBSET S PROVE SumFunctionOnSet(v, s) \in Int
    BY <2>1, SumType
  <2>. QED BY <2>1, <2>2
<1>2. ASSUME NEW n \in Nat, \A m \in Nat : m < n => m \in T PROVE n \in T
  <2>1. ASSUME NEW s \in SUBSET S, Cardinality(s) = n, NEW y \in s
        PROVE  Total(s) = v[y] + Total(s \ {y})
    <3>. DEFINE z == Chosen(s)
    <3>1. z \in s
      BY DEF Chosen
    <3>2. Total(s) = v[z] + Total(s \ {z})
      BY <1>1, SumUnfolds
    <3>3. CASE z # y
      <4>1. s \ {z} \in SUBSET S /\ s \ {y} \in SUBSET S /\ y \in s \ {z} /\ z \in s \ {y}
            /\ (s \ {z}) \ {y} = (s \ {y}) \ {z} /\ (s \ {z}) \ {y} \in SUBSET S
        BY <3>1, <3>3
      <4>2. /\ Cardinality(s \ {z}) \in Nat /\ Cardinality(s \ {z}) < n
            /\ Cardinality(s \ {y}) \in Nat /\ Cardinality(s \ {y}) < n
        BY <1>1, <2>1, <3>1, OneLess
      <4>3. \A m \in Nat : m < n => \A q \in SUBSET S : Cardinality(q) = m =>
                                     \A u \in q : Total(q) = v[u] + Total(q \ {u})
        BY <1>2
      <4>. HIDE DEF Total, T, z
      <4>4. /\ Total(s \ {z}) = v[y] + Total((s \ {z}) \ {y})
            /\ Total(s \ {y}) = v[z] + Total((s \ {y}) \ {z})
        BY <4>1, <4>2, <4>3
      <4>5. v[y] \in Int /\ v[z] \in Int /\ Total((s \ {z}) \ {y}) \in Int
        BY <1>1, <3>1, <4>1
      <4>6. Total((s \ {y}) \ {z}) = Total((s \ {z}) \ {y})
        BY <4>1, Zenon
      <4>7. \A a, b, c \in Int : a + (b + c) = b + (a + c)
        OBVIOUS
      <4>8. v[z] + (v[y] + Total((s \ {z}) \ {y})) = v[y] + (v[z] + Total((s \ {z}) \ {y}))
        BY <4>5, <4>7
      <4>. QED BY <3>2, <4>4, <4>6, <4>8, Zenon
    <3>. QED BY <3>2, <3>3
  <2>. QED BY <2>1
<1>3. \A n \in Nat : n \in T
  <2>. HIDE DEF T
  <2>. QED BY <1>2, StrongInduction
<1>. QED BY <1>3, FS_CardinalityType

\* Over nothing it is 0,
LEMMA SumEmpty == \A v : SumFunctionOnSet(v, {}) = 0
BY SumUnfolds, FS_EmptySet

\* sums over disjoint sets add up,
LEMMA SumOfUnion ==
  ASSUME NEW A, IsFiniteSet(A), NEW B, IsFiniteSet(B), A \cap B = {},
         NEW v, \A x \in A \cup B : v[x] \in Int
  PROVE  SumFunctionOnSet(v, A \cup B) = SumFunctionOnSet(v, A) + SumFunctionOnSet(v, B)
<1>. DEFINE Total(s) == SumFunctionOnSet(v, s)
            T == {n \in Nat : \A s \in SUBSET B : Cardinality(s) = n =>
                                Total(A \cup s) = Total(A) + Total(s)}
<1>1. \A s \in SUBSET (A \cup B) : IsFiniteSet(s) /\ Total(s) \in Int
  <2>1. \A s \in SUBSET (A \cup B) : IsFiniteSet(s)
    BY FS_Subset, FS_Union
  <2>2. ASSUME NEW s \in SUBSET (A \cup B) PROVE SumFunctionOnSet(v, s) \in Int
    BY <2>1, SumType
  <2>. QED BY <2>1, <2>2
<1>2. ASSUME NEW n \in Nat, \A m \in Nat : m < n => m \in T PROVE n \in T
  <2>1. ASSUME NEW s \in SUBSET B, Cardinality(s) = n
        PROVE  Total(A \cup s) = Total(A) + Total(s)
    <3>1. CASE s = {}
      <4>1. A \cup s = A /\ Total(s) = 0
        BY <3>1, SumEmpty
      <4>2. Total(A) \in Int
        BY <1>1
      <4>3. \A a \in Int : a = a + 0
        OBVIOUS
      <4>. HIDE DEF Total
      <4>. QED BY <4>1, <4>2, <4>3, Zenon
    <3>2. CASE s # {}
      <4>. PICK x \in s : TRUE
        BY <3>2
      <4>1. s \ {x} \in SUBSET B /\ (A \cup s) \ {x} = A \cup (s \ {x}) /\ x \in A \cup s
            /\ A \cup s \in SUBSET (A \cup B) /\ v[x] \in Int
        OBVIOUS
      <4>2. Cardinality(s \ {x}) \in Nat /\ Cardinality(s \ {x}) < n
        <5>1. s \in SUBSET (A \cup B)
          OBVIOUS
        <5>2. IsFiniteSet(s)
          BY <1>1, <5>1
        <5>. QED BY <2>1, <5>2, OneLess
      <4>3. Total(A \cup (s \ {x})) = Total(A) + Total(s \ {x})
        BY <1>2, <4>1, <4>2
      <4>4. /\ Total(A \cup s) = v[x] + Total((A \cup s) \ {x})
            /\ Total(s) = v[x] + Total(s \ {x})
        BY <1>1, <4>1, SumRemoves
      <4>5. Total(A) \in Int /\ Total(s \ {x}) \in Int
        BY <1>1, <4>1
      <4>6. \A a, b, c \in Int : a + (b + c) = b + (a + c)
        OBVIOUS
      <4>. HIDE DEF Total
      <4>7. v[x] + (Total(A) + Total(s \ {x})) = Total(A) + (v[x] + Total(s \ {x}))
        BY <4>1, <4>5, <4>6
      <4>8. Total((A \cup s) \ {x}) = Total(A) + Total(s \ {x})
        BY <4>1, <4>3, Zenon
      <4>. QED BY <4>4, <4>7, <4>8, Zenon
    <3>. QED BY <3>1, <3>2
  <2>. QED BY <2>1
<1>3. \A n \in Nat : n \in T
  <2>. HIDE DEF T
  <2>. QED BY <1>2, StrongInduction
<1>. QED BY <1>3, FS_CardinalityType

\* Renaming keeps the number,
LEMMA RenamedCount ==
  ASSUME NEW S, IsFiniteSet(S), NEW g, \A x, y \in S : g[x] = g[y] => x = y
  PROVE  /\ IsFiniteSet({g[x] : x \in S})
         /\ Cardinality({g[x] : x \in S}) = Cardinality(S)
<1>. DEFINE R == {g[x] : x \in S}
            h == [x \in S |-> g[x]]
<1>1. h \in Surjection(S, R) /\ h \in Injection(S, R)
  BY DEF Surjection, Injection, IsInjective
<1>. HIDE DEF h, R
<1>2. IsFiniteSet(R) /\ Cardinality(R) = Cardinality(S)
  BY <1>1, FS_Surjection
<1>. QED BY <1>2 DEF R

\* and a sum over places renamed is the sum over what they are renamed to.
LEMMA SumRenamed ==
  ASSUME NEW S, IsFiniteSet(S), NEW u, NEW v, NEW g,
         \A x, y \in S : g[x] = g[y] => x = y,
         \A x \in S : u[x] = v[g[x]] /\ u[x] \in Int
  PROVE  SumFunctionOnSet(u, S) = SumFunctionOnSet(v, {g[x] : x \in S})
<1>. DEFINE Img(s) == {g[x] : x \in s}
            T == {n \in Nat : \A s \in SUBSET S : Cardinality(s) = n =>
                                SumFunctionOnSet(u, s) = SumFunctionOnSet(v, Img(s))}
<1>1. \A s \in SUBSET S : IsFiniteSet(s)
  BY FS_Subset
<1>2. ASSUME NEW n \in Nat, \A m \in Nat : m < n => m \in T PROVE n \in T
  <2>1. ASSUME NEW s \in SUBSET S, Cardinality(s) = n
        PROVE  SumFunctionOnSet(u, s) = SumFunctionOnSet(v, Img(s))
    <3>1. CASE s = {}
      <4>1. Img(s) = {}
        BY <3>1
      <4>. QED BY <3>1, <4>1, SumEmpty
    <3>2. CASE s # {}
      <4>. PICK x \in s : TRUE
        BY <3>2
      <4>1. s \ {x} \in SUBSET S /\ g[x] \in Img(s) /\ Img(s) \ {g[x]} = Img(s \ {x})
        OBVIOUS
      <4>2. Cardinality(s \ {x}) \in Nat /\ Cardinality(s \ {x}) < n
        BY <1>1, <2>1, OneLess
      <4>3. SumFunctionOnSet(u, s \ {x}) = SumFunctionOnSet(v, Img(s \ {x}))
        BY <1>2, <4>1, <4>2
      <4>4. SumFunctionOnSet(u, s) = u[x] + SumFunctionOnSet(u, s \ {x})
        <5>1. IsFiniteSet(s) /\ \A y \in s : u[y] \in Int
          BY <1>1
        <5>. HIDE DEF Img
        <5>. QED BY <5>1, SumRemoves
      <4>5. IsFiniteSet(Img(s))
        <5>1. IsFiniteSet(s) /\ \A y, z \in s : g[y] = g[z] => y = z
          BY <1>1
        <5>. QED BY <5>1, RenamedCount
      <4>6. \A y \in Img(s) : v[y] \in Int
        OBVIOUS
      <4>7. SumFunctionOnSet(v, Img(s)) = v[g[x]] + SumFunctionOnSet(v, Img(s) \ {g[x]})
        <5>. HIDE DEF Img
        <5>. QED BY <4>1, <4>5, <4>6, SumRemoves
      <4>. QED BY <4>1, <4>3, <4>4, <4>7
    <3>. QED BY <3>1, <3>2
  <2>. QED BY <2>1
<1>3. \A n \in Nat : n \in T
  <2>. HIDE DEF T
  <2>. QED BY <1>2, StrongInduction
<1>. QED BY <1>3, FS_CardinalityType

-----------------------------------------------------------------------------
\* p is the pass of Summarise over w at ts.
Reads(p, w, ts) ==
  p = [k \in 0 .. Len(Windows) |->
         IF k = 0 THEN [index |-> Len(w.entries), stats |-> NoStats]
                  ELSE Scan(w, ts - Windows[k], p[k - 1])]

\* Summarise has the statistics of such a pass.
LEMMA PassChosen ==
  ASSUME NEW w, NEW ts
  PROVE  Summarise(w, ts) = [k \in DOMAIN Windows |-> (CHOOSE p : Reads(p, w, ts))[k].stats]
BY DEF Summarise, Reads

\* There is one: it is made window by window.
LEMMA PassExists ==
  ASSUME NEW w, NEW ts
  PROVE  \E p : Reads(p, w, ts)
<1>. DEFINE Start == [index |-> Len(w.entries), stats |-> NoStats]
            Go(k, pass) == Scan(w, ts - Windows[k], pass)
            Upto(p, n) == p = [k \in 0 .. n |-> IF k = 0 THEN Start ELSE Go(k, p[k - 1])]
            T == {n \in Nat : \E p : Upto(p, n)}
<1>1. ASSUME NEW n \in Nat, \A m \in Nat : m < n => m \in T PROVE n \in T
  <2>. HIDE DEF Start, Go
  <2>1. CASE n = 0
    <3>1. Upto([k \in 0 .. 0 |-> Start], 0)
      OBVIOUS
    <3>. QED BY <2>1, <3>1
  <2>2. CASE n # 0
    <3>1. n - 1 \in Nat /\ n - 1 < n
      BY <2>2
    <3>2. PICK p : Upto(p, n - 1)
      BY <1>1, <3>1
    <3>. DEFINE q == [k \in 0 .. n |-> IF k = 0 THEN Start ELSE Go(k, p[k - 1])]
    <3>3. \A k \in 0 .. n : k # 0 => k - 1 \in 0 .. n - 1 /\ k - 1 \in 0 .. n
      BY <3>1
    <3>4. \A k \in 0 .. n - 1 : q[k] = p[k]
      BY <3>1, <3>2
    <3>5. \A k \in 0 .. n : k # 0 => Go(k, p[k - 1]) = Go(k, q[k - 1])
      <4>. HIDE DEF q
      <4>. QED BY <3>3, <3>4
    <3>6. \A k \in 0 .. n : q[k] = IF k = 0 THEN Start ELSE Go(k, q[k - 1])
      BY <3>5
    <3>7. Upto(q, n)
      BY <3>6
    <3>. QED BY <3>7
  <2>. QED BY <2>1, <2>2
<1>2. \A n \in Nat : n \in T
  <2>. HIDE DEF T
  <2>. QED BY <1>1, StrongInduction
<1>3. Len(Windows) \in Nat
  BY PipelineAssumption
<1>. QED BY <1>2, <1>3 DEF Reads

-----------------------------------------------------------------------------
\* A window as pushes leave it: in order of time, and dead entries in front.
Ordered(w) ==
  /\ Len(w.entries) \in Nat /\ DOMAIN w.entries = 1 .. Len(w.entries)
  /\ w.dead \in 0 .. Len(w.entries)
  /\ \A i \in DOMAIN w.entries : w.entries[i].ts \in Int /\ w.entries[i].value \in Int
  /\ \A i, j \in DOMAIN w.entries : i < j => w.entries[i].ts < w.entries[j].ts

\* What Scan adds up,
ValueAt(w) == [i \in DOMAIN w.entries |-> w.entries[i].value]
MomentAt(w) ==
  [i \in DOMAIN w.entries |->
     (w.entries[i].ts - w.entries[Len(w.entries)].ts) * ValueAt(w)[i]]

\* and the statistics of some entries, counted afresh.
StatsOver(w, places) ==
  [count |-> Cardinality(places), sum |-> SumFunctionOnSet(ValueAt(w), places),
   moment |-> SumFunctionOnSet(MomentAt(w), places)]

\* The live entries from cutoff on.
From(w, cutoff) == {i \in w.dead + 1 .. Len(w.entries) : w.entries[i].ts >= cutoff}

\* pass has come to index, and counted all it came by.
CameTo(w, pass) ==
  /\ pass.index \in w.dead .. Len(w.entries)
  /\ pass.stats = StatsOver(w, pass.index + 1 .. Len(w.entries))

\* A scan goes on exactly to the cutoff, and counts what it comes by.
LEMMA ScanStep ==
  ASSUME NEW w, Ordered(w), NEW pass, CameTo(w, pass), NEW cutoff \in Int,
         \A i \in pass.index + 1 .. Len(w.entries) : w.entries[i].ts >= cutoff
  PROVE  LET next == Scan(w, cutoff, pass)
         IN  CameTo(w, next) /\ next.index + 1 .. Len(w.entries) = From(w, cutoff)
<1>. DEFINE older == {i \in w.dead + 1 .. pass.index : w.entries[i].ts < cutoff}
            stop == Max({w.dead} \cup older)
            seen == stop + 1 .. pass.index
            rest == pass.index + 1 .. Len(w.entries)
            next == Scan(w, cutoff, pass)
            N == Len(w.entries)
<1>1. /\ N \in Nat /\ w.dead \in 0 .. N /\ pass.index \in w.dead .. N
      /\ w.dead \in Nat /\ pass.index \in Nat
      /\ DOMAIN w.entries = 1 .. N
  BY DEF Ordered, CameTo
<1>2. /\ {w.dead} \cup older \in SUBSET (0 .. N)
      /\ {w.dead} \cup older # {}
  BY <1>1
<1>3. stop \in {w.dead} \cup older /\ \A y \in {w.dead} \cup older : stop >= y
  <2>. HIDE DEF older
  <2>. QED BY <1>1, <1>2, GreatestNumber
<1>4. stop \in w.dead .. pass.index /\ stop \in Nat
  BY <1>1, <1>3
<1>5. /\ next.index = stop
      /\ next.stats = [count  |-> pass.stats.count + Cardinality(seen),
                       sum    |-> pass.stats.sum + SumFunctionOnSet(ValueAt(w), seen),
                       moment |-> pass.stats.moment + SumFunctionOnSet(MomentAt(w), seen)]
  BY DEF Scan, ValueAt, MomentAt
<1>. HIDE DEF stop, next
<1>6. stop + 1 .. N = From(w, cutoff)
  <2>1. ASSUME NEW i \in w.dead + 1 .. N
        PROVE  i > stop <=> w.entries[i].ts >= cutoff
    <3>1. w.entries[i].ts \in Int /\ i \in Nat /\ i \in DOMAIN w.entries
      BY <1>1 DEF Ordered
    <3>2. CASE i > pass.index
      BY <1>1, <1>4, <3>1, <3>2
    <3>3. CASE i <= pass.index /\ i > stop
      <4>1. i \notin older
        BY <1>3, <1>4, <3>1, <3>3
      <4>2. i \in w.dead + 1 .. pass.index
        BY <1>1, <3>3
      <4>. QED BY <3>1, <3>3, <4>1, <4>2
    <3>4. CASE i <= stop
      <4>1. stop \in older
        BY <1>1, <1>3, <3>4
      <4>2. stop \in w.dead + 1 .. pass.index /\ w.entries[stop].ts < cutoff
        BY <4>1
      <4>3. stop \in DOMAIN w.entries
        BY <1>1, <1>4, <4>2
      <4>4. w.entries[stop].ts \in Int
        BY <4>3 DEF Ordered
      <4>5. i = stop \/ i < stop
        BY <1>4, <3>1, <3>4
      <4>6. w.entries[i].ts <= w.entries[stop].ts
        <5>1. i < stop => w.entries[i].ts < w.entries[stop].ts
          BY <3>1, <4>3 DEF Ordered
        <5>. QED BY <3>1, <4>4, <4>5, <5>1
      <4>. QED BY <1>4, <3>1, <3>4, <4>2, <4>4, <4>6
    <3>. QED BY <1>1, <1>4, <3>1, <3>2, <3>3, <3>4
  <2>2. \A i \in stop + 1 .. N : i \in w.dead + 1 .. N /\ i > stop
    BY <1>1, <1>4
  <2>3. \A i \in w.dead + 1 .. N : i > stop => i \in stop + 1 .. N
    BY <1>1, <1>4
  <2>. QED BY <2>1, <2>2, <2>3 DEF From
<1>7. pass.stats = StatsOver(w, rest)
  BY DEF CameTo
<1>8. /\ seen \cup rest = stop + 1 .. N /\ seen \cap rest = {}
      /\ IsFiniteSet(seen) /\ IsFiniteSet(rest) /\ IsFiniteSet(seen \cup rest)
      /\ seen \cup rest \subseteq DOMAIN w.entries
  <2>1. seen \cup rest = stop + 1 .. N /\ seen \cap rest = {} /\ seen \cup rest \subseteq DOMAIN w.entries
    BY <1>1, <1>4
  <2>2. IsFiniteSet(seen) /\ IsFiniteSet(rest)
    <3>1. stop + 1 \in Int /\ pass.index + 1 \in Int /\ pass.index \in Int /\ N \in Int
      BY <1>1, <1>4
    <3>. QED BY <3>1, FS_Interval
  <2>. QED BY <2>1, <2>2, FS_Union
<1>9. \A x \in seen \cup rest : ValueAt(w)[x] \in Int /\ MomentAt(w)[x] \in Int
  <2>1. \A x \in DOMAIN w.entries : ValueAt(w)[x] \in Int
    BY DEF ValueAt, Ordered
  <2>2. ASSUME NEW x \in DOMAIN w.entries PROVE MomentAt(w)[x] \in Int
    <3>1. /\ w.entries[x].ts \in Int /\ w.entries[N].ts \in Int
      BY <1>1 DEF Ordered
    <3>2. \A a, b, c \in Int : (a - b) * c \in Int
      OBVIOUS
    <3>3. (w.entries[x].ts - w.entries[N].ts) * ValueAt(w)[x] \in Int
      BY <2>1, <3>1, <3>2
    <3>. QED BY <3>3 DEF MomentAt
  <2>. QED BY <1>8, <2>1, <2>2
<1>. HIDE DEF seen, rest
<1>10. /\ Cardinality(seen \cup rest) = Cardinality(rest) + Cardinality(seen)
       /\ SumFunctionOnSet(ValueAt(w), seen \cup rest) =
            SumFunctionOnSet(ValueAt(w), rest) + SumFunctionOnSet(ValueAt(w), seen)
       /\ SumFunctionOnSet(MomentAt(w), seen \cup rest) =
            SumFunctionOnSet(MomentAt(w), rest) + SumFunctionOnSet(MomentAt(w), seen)
  <2>1. rest \cup seen = seen \cup rest /\ rest \cap seen = {}
    BY <1>8
  <2>2. Cardinality(seen \cup rest) = Cardinality(rest) + Cardinality(seen)
    <3>1. Cardinality(rest \cup seen) = Cardinality(rest) + Cardinality(seen) - Cardinality(rest \cap seen)
      BY <1>8, FS_Union
    <3>2. Cardinality(rest) \in Nat /\ Cardinality(seen) \in Nat
      BY <1>8, FS_CardinalityType
    <3>3. Cardinality(rest \cap seen) = 0
      BY <2>1, FS_EmptySet
    <3>4. Cardinality(rest \cup seen) = Cardinality(rest) + Cardinality(seen)
      BY <3>1, <3>2, <3>3
    <3>. QED BY <2>1, <3>4
  <2>3. SumFunctionOnSet(ValueAt(w), rest \cup seen) =
            SumFunctionOnSet(ValueAt(w), rest) + SumFunctionOnSet(ValueAt(w), seen)
    BY <1>8, <1>9, <2>1, SumOfUnion
  <2>4. SumFunctionOnSet(MomentAt(w), rest \cup seen) =
            SumFunctionOnSet(MomentAt(w), rest) + SumFunctionOnSet(MomentAt(w), seen)
    BY <1>8, <1>9, <2>1, SumOfUnion
  <2>. QED BY <2>1, <2>2, <2>3, <2>4
<1>11. next.stats = StatsOver(w, seen \cup rest)
  BY <1>5, <1>7, <1>10 DEF StatsOver
<1>12. CameTo(w, next)
  <2>1. next.index \in w.dead .. N
    BY <1>1, <1>4, <1>5
  <2>2. next.index + 1 .. N = seen \cup rest
    BY <1>5, <1>8
  <2>. QED BY <1>11, <2>1, <2>2 DEF CameTo
<1>. QED BY <1>5, <1>6, <1>12 DEF next

\* So each window has the statistics of its live entries.
LEMMA WindowStats ==
  ASSUME NEW w, Ordered(w), NEW ts \in Int, NEW k \in DOMAIN Windows
  PROVE  Summarise(w, ts)[k] = StatsOver(w, From(w, ts - Windows[k]))
<1>. DEFINE p == CHOOSE p : Reads(p, w, ts)
            M == Len(Windows)
            N == Len(w.entries)
            Good(n) == /\ CameTo(w, p[n])
                       /\ n > 0 => p[n].index + 1 .. N = From(w, ts - Windows[n])
            T == {n \in Nat : n <= M => Good(n)}
<1>1. Reads(p, w, ts) /\ Summarise(w, ts)[k] = p[k].stats
  BY PassExists, PassChosen
<1>. HIDE DEF p
<1>2. /\ M \in Nat /\ DOMAIN Windows = 1 .. M
      /\ \A n \in 1 .. M : Windows[n] \in Nat
      /\ \A m, n \in 1 .. M : m < n => Windows[m] < Windows[n]
  BY PipelineAssumption
<1>3. /\ N \in Nat /\ w.dead \in 0 .. N /\ w.dead \in Nat /\ DOMAIN w.entries = 1 .. N
  BY DEF Ordered
<1>4. ASSUME NEW n \in Nat, \A m \in Nat : m < n => m \in T PROVE n \in T
  <2>1. CASE n = 0
    <3>1. p[0] = [index |-> N, stats |-> NoStats]
      BY <1>1, <1>2 DEF Reads
    <3>2. N + 1 .. N = {}
      BY <1>3
    <3>3. StatsOver(w, {}) = NoStats
      BY SumEmpty, FS_EmptySet DEF StatsOver, NoStats
    <3>4. CameTo(w, p[0])
      BY <1>3, <3>1, <3>2, <3>3 DEF CameTo
    <3>. QED BY <2>1, <3>4
  <2>2. CASE n # 0 /\ n <= M
    <3>. DEFINE cutoff == ts - Windows[n]
    <3>1. n - 1 \in Nat /\ n - 1 < n /\ n - 1 <= M /\ n \in 1 .. M /\ n \in 0 .. M
      BY <1>2, <2>2
    <3>2. Good(n - 1)
      BY <1>4, <3>1
    <3>3. p[n] = Scan(w, cutoff, p[n - 1])
      BY <1>1, <2>2, <3>1 DEF Reads
    <3>4. cutoff \in Int
      BY <1>2, <3>1
    <3>5. ASSUME NEW i \in p[n - 1].index + 1 .. N PROVE w.entries[i].ts >= cutoff
      <4>1. CASE n - 1 = 0
        <5>1. p[0].index = N
          BY <1>1, <1>2 DEF Reads
        <5>. QED BY <1>3, <3>5, <4>1, <5>1
      <4>2. CASE n - 1 # 0
        <5>1. n - 1 \in 1 .. M /\ Windows[n - 1] < Windows[n] /\ Windows[n - 1] \in Nat /\ Windows[n] \in Nat
          BY <1>2, <3>1, <4>2
        <5>2. i \in From(w, ts - Windows[n - 1])
          <6>1. n - 1 > 0
            BY <3>1, <4>2
          <6>. QED BY <3>2, <3>5, <6>1
        <5>3. w.entries[i].ts >= ts - Windows[n - 1] /\ w.entries[i].ts \in Int
          BY <1>3, <5>2 DEF From, Ordered
        <5>. QED BY <5>1, <5>3
      <4>. QED BY <4>1, <4>2
    <3>6. CameTo(w, p[n - 1])
      BY <3>2
    <3>. HIDE DEF cutoff
    <3>7. CameTo(w, p[n]) /\ p[n].index + 1 .. N = From(w, cutoff)
      BY <3>3, <3>4, <3>5, <3>6, ScanStep
    <3>. QED BY <3>7 DEF cutoff
  <2>. QED BY <2>1, <2>2
<1>5. \A n \in Nat : n \in T
  <2>. HIDE DEF T
  <2>. QED BY <1>4, StrongInduction
<1>6. k \in Nat /\ k <= M /\ k > 0
  BY <1>2
<1>7. Good(k)
  BY <1>5, <1>6
<1>. QED BY <1>1, <1>6, <1>7 DEF CameTo

\* A set of numbers has a least one.
LEMMA LeastNumber ==
  ASSUME NEW S \in SUBSET Nat, S # {}
  PROVE  Min(S) \in S /\ \A y \in S : Min(S) <= y
<1>1. \E m \in S : \A k \in S : ~(<<k, m>> \in OpToRel(<, Nat))
  BY WFMin, NatLessThanWellFounded, Zenon
<1>2. \E m \in S : \A k \in S : ~(k < m)
  BY <1>1, Zenon DEF OpToRel
<1>3. \E x \in S : \A y \in S : x <= y
  BY <1>2
<1>. QED BY <1>3 DEF Min

-----------------------------------------------------------------------------
\* What a window has entries of.
Points == [ts : Nat, value : Int]

\* What was scored of a feature, at the places where it was measured.
History(f) == [i \in Measured(f) |-> Point(scored[i].ts, scored[i].values[f])]

\* The entries of w are, by src, measurements of history in their order, and what
\* is not among its live ones is from before oldest.
Follows(w, src, history, oldest) ==
  /\ w \in [entries : Seq(Points), dead : Nat] /\ w.dead <= Len(w.entries)
  /\ src \in [1 .. Len(w.entries) -> DOMAIN history]
  /\ \A j, k \in 1 .. Len(w.entries) : j < k => src[j] < src[k]
  /\ \A j \in 1 .. Len(w.entries) : w.entries[j] = history[src[j]]
  /\ \A i \in DOMAIN history :
       (\A j \in w.dead + 1 .. Len(w.entries) : src[j] # i) => history[i].ts < oldest

\* A history: points in order of time.
IsHistory(h) ==
  /\ DOMAIN h \subseteq Nat /\ \A i \in DOMAIN h : h[i] \in Points
  /\ \A i, j \in DOMAIN h : i < j => h[i].ts < h[j].ts

\* What the windows have forgotten is from before the longest of the last frame.
Oldest == IF Len(scored) = 0 THEN 0 - MaxWindow ELSE LastTs - MaxWindow

\* Each window follows what was scored,
Kept == \A f \in Features : \E src : Follows(window[f], src, History(f), Oldest)

\* and the frame has the statistics of the windows.
Summed ==
  frame # NoFrame => frame.aggregates = [f \in DOMAIN frame.values |-> Summarise(window[f], frame.ts)]

\* A new measurement is appended to both.
LEMMA FollowsAppended ==
  ASSUME NEW w, NEW src, NEW history, NEW oldest, Follows(w, src, history, oldest), IsHistory(history),
         NEW n \in Nat, \A i \in DOMAIN history : i < n,
         NEW ts \in Nat, NEW value \in Int,
         NEW longer, longer = [i \in DOMAIN history \cup {n} |-> IF i = n THEN Point(ts, value) ELSE history[i]]
  PROVE  \E s : Follows(Appended(w, ts, value), s, longer, oldest)
<1>. DEFINE N == Len(w.entries)
            v == Appended(w, ts, value)
            p == Point(ts, value)
            s == [j \in 1 .. N + 1 |-> IF j = N + 1 THEN n ELSE src[j]]
<1>1. /\ w \in [entries : Seq(Points), dead : Nat] /\ w.entries \in Seq(Points) /\ N \in Nat
      /\ w.dead \in Nat /\ w.dead <= N
      /\ p \in Points
  BY DEF Follows, Points, Point
<1>2. v.entries = Append(w.entries, p) /\ v.dead = w.dead
  BY <1>1 DEF Appended
<1>3. /\ v.entries \in Seq(Points) /\ Len(v.entries) = N + 1
      /\ v.entries[N + 1] = p /\ \A j \in 1 .. N : v.entries[j] = w.entries[j]
  <2>. HIDE DEF p, v
  <2>. QED BY <1>1, <1>2
<1>4. v \in [entries : Seq(Points), dead : Nat]
  BY <1>1, <1>3 DEF Appended
<1>. HIDE DEF v, p
<1>5. /\ DOMAIN longer = DOMAIN history \cup {n} /\ longer[n] = p /\ n \notin DOMAIN history
      /\ \A i \in DOMAIN history : longer[i] = history[i]
  BY DEF p, IsHistory
<1>6. \A j \in 1 .. N : src[j] \in DOMAIN history /\ w.entries[j] = history[src[j]] /\ src[j] \in Nat /\ src[j] < n
  BY DEF Follows, IsHistory
<1>7. s \in [1 .. N + 1 -> DOMAIN longer]
  BY <1>1, <1>5, <1>6
<1>8. \A j \in 1 .. N + 1 : j \in 1 .. N \/ j = N + 1
  BY <1>1
<1>9. \A j, k \in 1 .. N + 1 : j < k => s[j] < s[k]
  <2>1. ASSUME NEW j \in 1 .. N + 1, NEW k \in 1 .. N + 1, j < k PROVE s[j] < s[k]
    <3>1. j \in 1 .. N
      BY <1>1, <2>1
    <3>2. CASE k = N + 1
      BY <1>1, <1>6, <3>1, <3>2
    <3>3. CASE k \in 1 .. N
      <4>1. s[j] = src[j] /\ s[k] = src[k]
        BY <1>1, <3>1, <3>3
      <4>. QED BY <2>1, <3>1, <3>3, <4>1 DEF Follows
    <3>. QED BY <1>8, <3>2, <3>3
  <2>. QED BY <2>1
<1>10. \A j \in 1 .. N + 1 : v.entries[j] = longer[s[j]]
  BY <1>1, <1>3, <1>5, <1>6, <1>8
<1>11. ASSUME NEW i \in DOMAIN longer, \A j \in v.dead + 1 .. N + 1 : s[j] # i
       PROVE  longer[i].ts < oldest
  <2>1. N + 1 \in v.dead + 1 .. N + 1 /\ s[N + 1] = n
    BY <1>1, <1>2
  <2>2. i \in DOMAIN history
    BY <1>5, <1>11, <2>1
  <2>3. ASSUME NEW j \in w.dead + 1 .. N PROVE src[j] # i
    <3>1. j \in v.dead + 1 .. N + 1 /\ s[j] = src[j]
      BY <1>1, <1>2
    <3>. QED BY <1>11, <3>1
  <2>. QED BY <1>5, <2>2, <2>3 DEF Follows
<1>12. v.dead <= N + 1
  BY <1>1, <1>2
<1>13. Follows(v, s, longer, oldest)
  <2>. HIDE DEF s
  <2>. QED BY <1>3, <1>4, <1>7, <1>9, <1>10, <1>11, <1>12 DEF Follows
<1>. QED BY <1>13 DEF v

\* Pruning forgets only what is from before the longest window, whether it is
\* compacted or not.
LEMMA FollowsPruned ==
  ASSUME NEW w, NEW src, NEW history, NEW oldest \in Int, Follows(w, src, history, oldest), IsHistory(history),
         NEW ts \in Nat, oldest <= ts - MaxWindow
  PROVE  \E s : Follows(Prune(w, ts), s, history, ts - MaxWindow)
<1>. DEFINE N == Len(w.entries)
            limit == ts - MaxWindow
            young == {i \in w.dead + 1 .. N : w.entries[i].ts >= limit}
            dead == IF young = {} THEN N ELSE Min(young) - 1
            v == Cut(w.entries, dead)
<1>1. /\ w \in [entries : Seq(Points), dead : Nat] /\ w.entries \in Seq(Points) /\ N \in Nat
      /\ w.dead \in Nat /\ w.dead <= N /\ MaxWindow \in Nat /\ limit \in Int
      /\ CompactAfter \in Nat
      /\ \A j \in 1 .. N : w.entries[j].ts \in Nat
  <2>1. w \in [entries : Seq(Points), dead : Nat] /\ w.dead <= N
    BY DEF Follows
  <2>2. w.entries \in Seq(Points) /\ w.dead \in Nat
    BY <2>1
  <2>3. N \in Nat /\ \A j \in 1 .. N : w.entries[j] \in Points
    BY <2>2
  <2>4. MaxWindow \in Nat /\ CompactAfter \in Nat
    BY PipelineAssumption DEF MaxWindow
  <2>5. \A x \in Points : x.ts \in Nat
    BY DEF Points
  <2>. QED BY <2>1, <2>2, <2>3, <2>4, <2>5
<1>2. /\ dead \in Nat /\ w.dead <= dead /\ dead <= N
      /\ \A j \in w.dead + 1 .. N : j <= dead => w.entries[j].ts < limit
  <2>1. CASE young = {}
    BY <1>1, <2>1
  <2>2. CASE young # {}
    <3>1. young \in SUBSET Nat /\ young \subseteq w.dead + 1 .. N
      BY <1>1
    <3>. DEFINE m == Min(young)
    <3>2. m \in young /\ \A y \in young : m <= y
      <4>. HIDE DEF young
      <4>. QED BY <2>2, <3>1, LeastNumber
    <3>. HIDE DEF m
    <3>3. dead = m - 1
      BY <2>2 DEF m
    <3>4. m \in Nat /\ w.dead + 1 <= m /\ m <= N
      BY <1>1, <3>2
    <3>5. ASSUME NEW j \in w.dead + 1 .. N, j <= dead PROVE w.entries[j].ts < limit
      <4>1. ~(m <= j) /\ j \in 1 .. N
        BY <1>1, <3>3, <3>4, <3>5
      <4>2. j \notin young
        BY <3>2, <4>1
      <4>3. ~(w.entries[j].ts >= limit)
        BY <4>2
      <4>. QED BY <1>1, <4>1, <4>3
    <3>. QED BY <1>1, <3>3, <3>4, <3>5
  <2>. QED BY <2>1, <2>2
<1>3. Prune(w, ts) = v
  BY DEF Prune
<1>. HIDE DEF dead
<1>4. \A i \in DOMAIN history : history[i].ts \in Nat
  BY DEF IsHistory, Points
<1>5. ASSUME NEW i \in DOMAIN history, \A j \in dead + 1 .. N : src[j] # i
      PROVE  history[i].ts < limit
  <2>1. CASE \A j \in w.dead + 1 .. N : src[j] # i
    <3>1. history[i].ts < oldest
      BY <2>1 DEF Follows
    <3>. QED BY <1>1, <1>4, <3>1
  <2>2. CASE \E j \in w.dead + 1 .. N : src[j] = i
    <3>. PICK j \in w.dead + 1 .. N : src[j] = i
      BY <2>2
    <3>1. j \in 1 .. N /\ j <= dead
      BY <1>1, <1>2, <1>5
    <3>2. w.entries[j] = history[i]
      BY <3>1 DEF Follows
    <3>. QED BY <1>2, <3>1, <3>2
  <2>. QED BY <2>1, <2>2
<1>. HIDE DEF limit
<1>6. CASE dead < CompactAfter
  <2>1. v = [entries |-> w.entries, dead |-> dead]
    BY <1>1, <1>2, <1>6 DEF Cut
  <2>2. Follows(v, src, history, limit)
    BY <1>1, <1>2, <1>5, <2>1 DEF Follows
  <2>. QED BY <1>3, <2>2 DEF limit
<1>7. CASE dead >= CompactAfter
  <2>. DEFINE s == [j \in 1 .. N - dead |-> src[j + dead]]
  <2>1. v = [entries |-> SubSeq(w.entries, dead + 1, N), dead |-> 0]
    BY <1>7 DEF Cut
  <2>2. /\ v.entries \in Seq(Points) /\ Len(v.entries) = N - dead /\ v.dead = 0
        /\ \A j \in 1 .. N - dead : v.entries[j] = w.entries[j + dead]
    BY <1>1, <1>2, <2>1
  <2>3. \A j \in 1 .. N - dead : j + dead \in 1 .. N
    BY <1>1, <1>2
  <2>4. s \in [1 .. N - dead -> DOMAIN history]
    BY <2>3 DEF Follows
  <2>5. \A j, k \in 1 .. N - dead : j < k => s[j] < s[k]
    <3>1. \A j, k \in 1 .. N - dead : j < k => j + dead < k + dead
      BY <1>1, <1>2
    <3>. QED BY <2>3, <3>1 DEF Follows
  <2>6. \A j \in 1 .. N - dead : v.entries[j] = history[s[j]]
    BY <2>2, <2>3 DEF Follows
  <2>7. ASSUME NEW i \in DOMAIN history, \A j \in 1 .. N - dead : s[j] # i
        PROVE  history[i].ts < limit
    <3>1. ASSUME NEW j \in dead + 1 .. N PROVE src[j] # i
      <4>1. j - dead \in 1 .. N - dead /\ (j - dead) + dead = j
        BY <1>1, <1>2
      <4>2. s[j - dead] = src[j]
        BY <4>1
      <4>. QED BY <2>7, <4>1, <4>2
    <3>. QED BY <1>5, <3>1
  <2>8. v \in [entries : Seq(Points), dead : Nat] /\ v.dead <= N - dead
        /\ v.dead + 1 = 1
    BY <1>1, <1>2, <2>1, <2>2
  <2>9. Follows(v, s, history, limit)
    <3>. HIDE DEF s, v
    <3>. QED BY <2>2, <2>4, <2>5, <2>6, <2>7, <2>8 DEF Follows
  <2>. QED BY <1>3, <2>9 DEF limit
<1>. QED BY <1>1, <1>2, <1>6, <1>7

\* The invariant of the windows, beside PipelineInv.
WindowInv == Kept /\ Summed

\* What was scored of a feature is in order of time,
LEMMA HistoryFacts ==
  ASSUME PipelineInv
  PROVE  /\ MaxWindow \in Nat /\ Oldest \in Int
         /\ \A f : IsHistory(History(f)) /\ DOMAIN History(f) = Measured(f)
<1>1. MaxWindow \in Nat
  BY PipelineAssumption DEF MaxWindow
<1>2. Len(scored) # 0 => LastTs \in Nat
  BY ScoredFacts DEF LastTs, PipelineInv
<1>3. ASSUME NEW f PROVE IsHistory(History(f)) /\ DOMAIN History(f) = Measured(f)
  <2>1. /\ DOMAIN History(f) = Measured(f)
        /\ \A i \in Measured(f) : History(f)[i] = Point(scored[i].ts, scored[i].values[f])
    BY DEF History
  <2>2. \A i \in Measured(f) : /\ i \in Nat /\ i \in DOMAIN scored
                               /\ scored[i].ts \in Nat /\ scored[i].values[f] \in Int
    BY ScoredFacts DEF PipelineInv
  <2>3. \A i, j \in Measured(f) : i < j => scored[i].ts < scored[j].ts
    BY <2>2 DEF PipelineInv, TicksAdvance
  <2>4. \A i \in Measured(f) : History(f)[i] \in Points /\ History(f)[i].ts = scored[i].ts
    BY <2>1, <2>2 DEF Point, Points
  <2>. QED BY <2>1, <2>2, <2>3, <2>4 DEF IsHistory
<1>. QED BY <1>1, <1>2, <1>3 DEF Oldest

\* as an invariant that its primed form can be taken of.
Chronological == \A f : IsHistory(History(f))

LEMMA HistoriesInOrder == PipelineInv => Chronological
BY HistoryFacts DEF Chronological

\* The windows start empty,
LEMMA EmptyFollows ==
  ASSUME NEW history, DOMAIN history = {}, NEW oldest
  PROVE  \E s : Follows(EmptyWindow, s, history, oldest)
<1>1. EmptyWindow \in [entries : Seq(Points), dead : Nat] /\ Len(EmptyWindow.entries) = 0 /\ EmptyWindow.dead = 0
  BY DEF EmptyWindow
<1>2. [j \in 1 .. 0 |-> 0] \in [1 .. 0 -> DOMAIN history]
  OBVIOUS
<1>3. Follows(EmptyWindow, [j \in 1 .. 0 |-> 0], history, oldest)
  <2>. DEFINE s == [j \in 1 .. 0 |-> 0]
  <2>1. s \in [1 .. 0 -> DOMAIN history]
    BY <1>2
  <2>. HIDE DEF s
  <2>. QED BY <1>1, <2>1 DEF Follows
<1>. QED BY <1>3

\* as they do after a wipe,
LEMMA WindowsStart ==
  ASSUME window = [f \in Features |-> EmptyWindow], frame = NoFrame, scored = <<>>
  PROVE  WindowInv
<1>1. \A f : DOMAIN History(f) = {}
  BY DEF History, Measured
<1>2. Kept
  BY <1>1, EmptyFollows DEF Kept
<1>. QED BY <1>2 DEF WindowInv, Summed

\* stay as they are between pushes,
LEMMA WindowsStay ==
  ASSUME WindowInv, UNCHANGED <<window, frame, scored>>
  PROVE  WindowInv'
<1>1. /\ \A f : History(f)' = History(f)
      /\ Oldest' = Oldest
  BY DEF History, Measured, Oldest, LastTs
<1>2. Kept'
  BY <1>1 DEF WindowInv, Kept
<1>3. Summed'
  BY DEF WindowInv, Summed
<1>. QED BY <1>2, <1>3 DEF WindowInv

\* and a push fills, prunes and summarises them.
LEMMA PushWindows ==
  ASSUME Push
  PROVE  LET filled(f) == IF f \in DOMAIN sample.values
                            THEN Appended(window[f], sample.ts, sample.values[f]) ELSE window[f]
         IN  /\ window' = [f \in Features |-> IF f \in DOMAIN last' THEN Prune(filled(f), sample.ts) ELSE filled(f)]
             /\ frame'.ts = sample.ts /\ DOMAIN frame'.values = DOMAIN last'
             /\ frame'.aggregates = [f \in DOMAIN last' |-> Summarise(window'[f], sample.ts)]
BY DEF Push, Restrict

\* A push keeps what windows promise: the sample is the newest of the features it
\* has, and the frame of now reaches less far back than the one before.
LEMMA WindowsPushed ==
  ASSUME PipelineInv, PipelineInv', WindowInv, Push
  PROVE  WindowInv'
<1>. DEFINE ts == sample.ts
            measured == DOMAIN sample.values
            filled(f) == IF f \in measured THEN Appended(window[f], ts, sample.values[f]) ELSE window[f]
            new == Len(scored) + 1
<1>1. /\ ts \in Nat /\ sample.values \in SampleValues
      /\ \A f \in measured : sample.values[f] \in Int
  BY SampleValuesFacts DEF Push, PipelineInv, PipelineTypeOK
<1>2. /\ Len(scored) \in Nat /\ Len(scored') = new /\ scored'[new] = [ts |-> ts, values |-> sample.values]
      /\ \A i \in DOMAIN scored : scored'[i] = scored[i]
      /\ DOMAIN scored = 1 .. Len(scored) /\ DOMAIN scored' = 1 .. new
  <2>. DEFINE Sampled == [ts : Nat, values : SampleValues]
              s == [ts |-> ts, values |-> sample.values]
  <2>1. scored \in Seq(Sampled) /\ scored' = Append(scored, s)
    BY DEF Push, PipelineInv, PipelineTypeOK
  <2>. HIDE DEF Sampled, s
  <2>2. /\ Len(scored) \in Nat /\ Len(scored') = Len(scored) + 1
        /\ DOMAIN scored = 1 .. Len(scored) /\ DOMAIN scored' = 1 .. Len(scored) + 1
        /\ \A i \in DOMAIN scored : scored'[i] = scored[i]
        /\ scored'[Len(scored) + 1] = s
    BY <1>1, <2>1
  <2>. QED BY <2>2 DEF s
<1>3. \A f : Measured(f)' = IF f \in measured THEN Measured(f) \cup {new} ELSE Measured(f)
  BY <1>2 DEF Measured
<1>4. \A f : Measured(f) \subseteq DOMAIN scored /\ new \notin Measured(f)
  BY <1>2 DEF Measured
<1>5. /\ MaxWindow \in Nat /\ Oldest \in Int /\ Oldest' = ts - MaxWindow
      /\ Oldest <= Oldest'
  <2>1. LastTs' = ts
    BY <1>2 DEF LastTs
  <2>2. Len(scored) # 0 => LastTs \in Nat /\ LastTs < ts
    <3>1. ASSUME Len(scored) # 0 PROVE Len(scored) \in DOMAIN scored
      BY <1>2, <3>1
    <3>. QED BY <3>1, ScoredFacts DEF LastTs, Push, PipelineInv, TicksAdvance
  <2>. QED BY <1>1, <1>2, <2>1, <2>2, HistoryFacts DEF Oldest, MaxWindow
<1>6. /\ window' = [f \in Features |-> IF f \in DOMAIN last' THEN Prune(filled(f), ts) ELSE filled(f)]
      /\ frame'.ts = ts /\ DOMAIN frame'.values = DOMAIN last'
      /\ frame'.aggregates = [f \in DOMAIN last' |-> Summarise(window'[f], ts)]
  BY PushWindows
<1>7. ASSUME NEW f \in Features
      PROVE  \E s : Follows(window'[f], s, History(f)', Oldest')
  <2>1. PICK src : Follows(window[f], src, History(f), Oldest)
    BY DEF WindowInv, Kept
  <2>2. \E s : Follows(filled(f), s, History(f)', Oldest)
    <3>1. CASE f \in measured
      <4>1. History(f)' = [i \in DOMAIN History(f) \cup {new} |->
                             IF i = new THEN Point(ts, sample.values[f]) ELSE History(f)[i]]
        <5>1. Measured(f)' = Measured(f) \cup {new} /\ DOMAIN History(f) = Measured(f)
          BY <1>3, <3>1 DEF History
        <5>2. \A i \in Measured(f) : scored'[i] = scored[i] /\ i # new
                                     /\ History(f)[i] = Point(scored[i].ts, scored[i].values[f])
          BY <1>2, <1>4 DEF History
        <5>3. History(f)' = [i \in Measured(f)' |-> Point(scored'[i].ts, scored'[i].values[f])]
          BY DEF History
        <5>. QED BY <1>2, <5>1, <5>2, <5>3
      <4>2. /\ IsHistory(History(f)) /\ new \in Nat /\ \A i \in DOMAIN History(f) : i < new
            /\ sample.values[f] \in Int
        BY <1>1, <1>2, <1>4, <3>1, HistoryFacts
      <4>. HIDE DEF new
      <4>3. \E s : Follows(Appended(window[f], ts, sample.values[f]), s, History(f)', Oldest)
        <5>. DEFINE w == window[f]
                    h == History(f)
                    longer == History(f)'
                    value == sample.values[f]
        <5>1. /\ Follows(w, src, h, Oldest) /\ IsHistory(h) /\ value \in Int
              /\ \A i \in DOMAIN h : i < new
              /\ longer = [i \in DOMAIN h \cup {new} |-> IF i = new THEN Point(ts, value) ELSE h[i]]
          BY <2>1, <4>1, <4>2
        <5>. HIDE DEF w, h, longer, value, ts
        <5>2. \E s : Follows(Appended(w, ts, value), s, longer, Oldest)
          BY <1>1, <4>2, <5>1, FollowsAppended
        <5>. QED BY <5>2 DEF w, longer, value, ts
      <4>. QED BY <3>1, <4>3
    <3>2. CASE f \notin measured
      <4>1. Measured(f)' = Measured(f) /\ \A i \in Measured(f) : scored'[i] = scored[i]
        BY <1>2, <1>3, <1>4, <3>2
      <4>2. History(f)' = History(f)
        BY <4>1 DEF History
      <4>. QED BY <2>1, <3>2, <4>2
    <3>. QED BY <3>1, <3>2
  <2>3. PICK s : Follows(filled(f), s, History(f)', Oldest)
    BY <2>2
  <2>4. IsHistory(History(f)')
    <3>1. Chronological'
      BY HistoriesInOrder, PTL
    <3>. QED BY <3>1 DEF Chronological, IsHistory
  <2>5. CASE f \in DOMAIN last'
    <3>1. window'[f] = Prune(filled(f), ts)
      BY <1>6, <2>5
    <3>. HIDE DEF filled
    <3>2. \E q : Follows(Prune(filled(f), ts), q, History(f)', ts - MaxWindow)
      BY <1>1, <1>5, <2>3, <2>4, FollowsPruned
    <3>. QED BY <1>5, <3>1, <3>2
  <2>6. CASE f \notin DOMAIN last'
    <3>1. window'[f] = filled(f)
      BY <1>6, <2>6
    <3>. HIDE DEF filled
    <3>2. \A i \in DOMAIN (History(f)') : (History(f)')[i].ts \in Nat
      BY <2>4 DEF IsHistory, Points
    <3>3. Oldest' \in Int
      BY <1>1, <1>5
    <3>4. Follows(filled(f), s, History(f)', Oldest')
      <4>. DEFINE h == History(f)'
                  later == Oldest'
      <4>1. /\ Follows(filled(f), s, h, Oldest) /\ \A i \in DOMAIN h : h[i].ts \in Nat
            /\ later \in Int /\ Oldest \in Int /\ Oldest <= later
        BY <1>5, <2>3, <3>2, <3>3
      <4>. HIDE DEF h, later
      <4>2. \A i \in DOMAIN h : h[i].ts < Oldest => h[i].ts < later
        BY <4>1
      <4>3. Follows(filled(f), s, h, later)
        BY <4>1, <4>2, Zenon DEF Follows
      <4>. QED BY <4>3 DEF h, later
    <3>. QED BY <3>1, <3>4
  <2>. QED BY <2>5, <2>6
<1>8. Kept'
  BY <1>7 DEF Kept
<1>9. Summed'
  BY <1>6 DEF Summed
<1>. QED BY <1>8, <1>9 DEF WindowInv

\* No other step touches the windows, the frame or what was scored.
LEMMA WindowsAlways == PipelineSpec => [](PipelineInv /\ WindowInv)
<1>1. PipelineInit => PipelineInv /\ WindowInv
  BY PipelineInitially, WindowsStart DEF PipelineInit
<1>2. PipelineInv /\ WindowInv /\ [PipelineNext]_pipelineVars => PipelineInv' /\ WindowInv'
  <2> SUFFICES ASSUME PipelineInv, WindowInv, [PipelineNext]_pipelineVars PROVE PipelineInv' /\ WindowInv'
    OBVIOUS
  <2>1. PipelineInv'
    BY PipelineStep
  <2>2. CASE Push
    BY <2>1, <2>2, WindowsPushed
  <2>3. CASE Wipe
    <3>1. (window = [f \in Features |-> EmptyWindow] /\ frame = NoFrame /\ scored = <<>>)'
      BY <2>3 DEF Wipe
    <3>. QED BY <2>1, <3>1, WindowsStart, PTL
  <2>4. CASE UNCHANGED <<window, frame, scored>>
    BY <2>1, <2>4, WindowsStay
  <2>5. CASE (\E f \in Features : \E value \in Values[f] : Deliver(f, value)) \/ Take \/ TickFails \/ Pass
    BY <2>4, <2>5 DEF Deliver, Take, TickFails, Pass
  <2>6. CASE UNCHANGED pipelineVars
    BY <2>4, <2>6 DEF pipelineVars
  <2>. QED BY <2>2, <2>3, <2>5, <2>6 DEF PipelineNext
<1>. QED BY <1>1, <1>2, PTL DEF PipelineSpec

\* The live entries from a cutoff on are, renamed by the places they come from, all
\* that was scored from the cutoff on; so the statistics are those.
LEMMA RescanFromInvariant ==
  ASSUME PipelineInv, WindowInv
  PROVE  OnePassIsRescan
<1>. SUFFICES ASSUME frame # NoFrame, NEW f \in DOMAIN frame.values, NEW k \in DOMAIN Windows
     PROVE  LET inside == {i \in Measured(f) : scored[i].ts >= frame.ts - Windows[k]}
                newest == scored[Max(Measured(f))].ts
                value == [i \in Measured(f) |-> scored[i].values[f]]
                moment == [i \in Measured(f) |-> (scored[i].ts - newest) * value[i]]
            IN  frame.aggregates[f][k] =
                  [count  |-> Cardinality(inside),
                   sum    |-> SumFunctionOnSet(value, inside),
                   moment |-> SumFunctionOnSet(moment, inside)]
  BY DEF OnePassIsRescan
<1>. DEFINE w == window[f]
            N == Len(w.entries)
            cutoff == frame.ts - Windows[k]
            seen == From(w, cutoff)
            inside == {i \in Measured(f) : scored[i].ts >= frame.ts - Windows[k]}
            newest == scored[Max(Measured(f))].ts
            value == [i \in Measured(f) |-> scored[i].values[f]]
            moment == [i \in Measured(f) |-> (scored[i].ts - newest) * value[i]]
<1>1. /\ Len(scored) \in Nat /\ Len(scored) # 0 /\ frame.ts = LastTs /\ f \in Features
      /\ LastTs \in Nat /\ Oldest = frame.ts - MaxWindow
  <2>1. Len(scored) \in Nat /\ Len(scored) # 0 /\ frame.ts = LastTs /\ DOMAIN frame.values = DOMAIN last
    BY ScoredFacts DEF PipelineInv, FrameShape
  <2>2. LastTs \in Nat
    BY <2>1, ScoredFacts DEF LastTs, PipelineInv
  <2>. QED BY <2>1, <2>2 DEF Oldest, PipelineInv, LastIsNewest
<1>2. PICK src : Follows(w, src, History(f), Oldest)
  BY <1>1 DEF WindowInv, Kept
<1>3. IsHistory(History(f)) /\ DOMAIN History(f) = Measured(f) /\ MaxWindow \in Nat
  BY HistoryFacts
<1>4. \A i \in Measured(f) : /\ History(f)[i] = Point(scored[i].ts, scored[i].values[f])
                             /\ History(f)[i].ts = scored[i].ts /\ History(f)[i].value = scored[i].values[f]
                             /\ scored[i].ts \in Nat /\ scored[i].values[f] \in Int /\ i \in Nat
  BY ScoredFacts DEF History, Point, PipelineInv
<1>5. frame.aggregates[f][k] = Summarise(w, frame.ts)[k]
  BY DEF WindowInv, Summed
<1>. HIDE DEF w
<1>6. /\ w \in [entries : Seq(Points), dead : Nat] /\ w.entries \in Seq(Points)
      /\ w.dead \in Nat /\ w.dead <= N /\ N \in Nat /\ DOMAIN w.entries = 1 .. N
      /\ src \in [1 .. N -> Measured(f)]
      /\ \A j, l \in 1 .. N : j < l => src[j] < src[l]
      /\ \A j \in 1 .. N : /\ src[j] \in Measured(f) /\ w.entries[j] = History(f)[src[j]]
  <2>1. w \in [entries : Seq(Points), dead : Nat] /\ w.dead <= N
    BY <1>2 DEF Follows
  <2>2. w.entries \in Seq(Points) /\ w.dead \in Nat /\ N \in Nat /\ DOMAIN w.entries = 1 .. N
    BY <2>1
  <2>. QED BY <1>2, <1>3, <2>1, <2>2 DEF Follows
<1>7. \A j \in 1 .. N : /\ w.entries[j].ts = scored[src[j]].ts
                        /\ w.entries[j].value = scored[src[j]].values[f]
  BY <1>4, <1>6
<1>8. Ordered(w)
  <2>1. \A i, j \in Measured(f) : i < j => scored[i].ts < scored[j].ts
    BY <1>3, <1>4 DEF IsHistory
  <2>2. \A i \in 1 .. N : w.entries[i].ts \in Int /\ w.entries[i].value \in Int
    <3>1. ASSUME NEW i \in 1 .. N PROVE w.entries[i].ts \in Int /\ w.entries[i].value \in Int
      <4>1. src[i] \in Measured(f)
        BY <1>6
      <4>2. scored[src[i]].ts \in Int /\ scored[src[i]].values[f] \in Int
        BY <1>4, <4>1
      <4>. QED BY <1>7, <4>2
    <3>. QED BY <3>1
  <2>3. \A i, j \in 1 .. N : i < j => w.entries[i].ts < w.entries[j].ts
    BY <1>6, <1>7, <2>1
  <2>4. w.dead \in 0 .. N
    BY <1>6
  <2>. QED BY <1>6, <2>2, <2>3, <2>4 DEF Ordered
<1>9. /\ Windows[k] \in Nat /\ Windows[k] <= MaxWindow /\ cutoff \in Int
      /\ cutoff >= Oldest
  <2>1. /\ Len(Windows) \in DOMAIN Windows /\ Windows[k] \in Nat /\ MaxWindow \in Nat
        /\ k = Len(Windows) \/ k < Len(Windows)
    BY PipelineAssumption DEF MaxWindow
  <2>2. Windows[k] <= MaxWindow
    BY <2>1, PipelineAssumption DEF MaxWindow
  <2>3. Oldest = LastTs - MaxWindow /\ cutoff = LastTs - Windows[k]
    BY <1>1
  <2>. HIDE DEF cutoff
  <2>. QED BY <1>1, <2>1, <2>2, <2>3
<1>10. Summarise(w, frame.ts)[k] = StatsOver(w, seen)
  BY <1>1, <1>8, WindowStats
<1>11. \A j \in seen : j \in 1 .. N /\ src[j] \in Measured(f) /\ w.entries[j].ts >= cutoff
  BY <1>6 DEF From
<1>12. \A x, y \in seen : src[x] = src[y] => x = y
  <2>1. ASSUME NEW x \in seen, NEW y \in seen, src[x] = src[y] PROVE x = y
    <3>1. x \in 1 .. N /\ y \in 1 .. N /\ src[x] \in Nat
      BY <1>4, <1>11
    <3>2. ~(x < y) /\ ~(y < x)
      BY <1>6, <2>1, <3>1
    <3>. QED BY <3>1, <3>2
  <2>. QED BY <2>1
<1>13. {src[j] : j \in seen} = inside
  <2>1. ASSUME NEW i \in inside PROVE \E j \in seen : src[j] = i
    <3>1. i \in Measured(f) /\ scored[i].ts >= cutoff /\ scored[i].ts \in Nat
      BY <1>4
    <3>2. ~(History(f)[i].ts < Oldest)
      BY <1>1, <1>3, <1>4, <1>9, <3>1
    <3>3. PICK j \in w.dead + 1 .. N : src[j] = i
      BY <1>2, <1>3, <3>1, <3>2 DEF Follows
    <3>4. j \in 1 .. N
      BY <1>6
    <3>. QED BY <1>7, <3>1, <3>3, <3>4 DEF From
  <2>2. \A j \in seen : src[j] \in inside
    BY <1>7, <1>11
  <2>. HIDE DEF seen, inside
  <2>. QED BY <2>1, <2>2
<1>14. IsFiniteSet(seen)
  <2>1. seen \in SUBSET (1 .. N) /\ IsFiniteSet(1 .. N)
    BY <1>6, <1>11, FS_Interval
  <2>. QED BY <2>1, FS_Subset
<1>15. Cardinality(inside) = Cardinality(seen)
  <2>. HIDE DEF seen, inside
  <2>. QED BY <1>12, <1>13, <1>14, RenamedCount
<1>16. \A j \in seen : /\ ValueAt(w)[j] = value[src[j]]
                       /\ ValueAt(w)[j] \in Int
  BY <1>4, <1>6, <1>7, <1>11 DEF ValueAt
<1>17. SumFunctionOnSet(ValueAt(w), seen) = SumFunctionOnSet(value, inside)
  <2>. HIDE DEF seen, inside, value
  <2>1. SumFunctionOnSet(ValueAt(w), seen) = SumFunctionOnSet(value, {src[j] : j \in seen})
    BY <1>12, <1>14, <1>16, SumRenamed
  <2>. QED BY <1>13, <2>1
<1>18. SumFunctionOnSet(MomentAt(w), seen) = SumFunctionOnSet(moment, inside)
  <2>1. CASE seen = {}
    <3>1. inside = {}
      <4>. HIDE DEF seen, inside
      <4>. QED BY <1>13, <2>1
    <3>. HIDE DEF seen, inside, moment
    <3>. QED BY <2>1, <3>1, SumEmpty
  <2>2. CASE seen # {}
    <3>. PICK x \in seen : TRUE
      BY <2>2
    <3>1. N \in 1 .. N /\ w.entries[N].ts >= w.entries[x].ts
          /\ w.entries[x].ts >= cutoff /\ w.entries[N].ts \in Int /\ w.entries[x].ts \in Int
      <4>1. x \in 1 .. N /\ w.entries[x].ts >= cutoff
        BY <1>11
      <4>2. N \in 1 .. N
        BY <1>6, <4>1
      <4>3. w.entries[N].ts \in Int /\ w.entries[x].ts \in Int
        <5>1. \A j \in 1 .. N : w.entries[j].ts \in Int
          BY <1>8 DEF Ordered
        <5>. QED BY <4>1, <4>2, <5>1
      <4>4. x < N => w.entries[x].ts < w.entries[N].ts
        BY <1>6, <1>8, <4>1, <4>2 DEF Ordered
      <4>. QED BY <4>1, <4>2, <4>3, <4>4
    <3>2. ASSUME NEW i \in Measured(f) PROVE i <= src[N]
      <4>1. SUFFICES ASSUME i > src[N] PROVE FALSE
        BY <1>4, <1>6, <3>1
      <4>2. src[N] \in Measured(f) /\ scored[src[N]].ts < scored[i].ts
        BY <1>3, <1>4, <1>6, <3>1, <4>1 DEF IsHistory
      <4>3. scored[i].ts >= cutoff
        <5>1. scored[src[N]].ts = w.entries[N].ts
          BY <1>7, <3>1
        <5>2. scored[i].ts \in Int
          BY <1>4
        <5>. HIDE DEF cutoff
        <5>. QED BY <1>9, <3>1, <4>2, <5>1, <5>2
      <4>4. i \in inside
        BY <4>3
      <4>5. PICK j \in seen : src[j] = i
        <5>. HIDE DEF seen, inside
        <5>. QED BY <1>13, <4>4
      <4>6. j = N \/ j < N
        BY <1>6, <1>11
      <4>7. j \in 1 .. N
        BY <1>11
      <4>. QED BY <1>4, <1>6, <3>1, <4>1, <4>5, <4>6, <4>7
    <3>3. Max(Measured(f)) = src[N]
      <4>1. Measured(f) \in SUBSET (1 .. Len(scored)) /\ src[N] \in Measured(f)
        BY <1>6, <3>1, ScoredFacts DEF PipelineInv
      <4>. QED BY <1>1, <3>2, <4>1, GreatestIs
    <3>4. newest = w.entries[N].ts
      BY <1>7, <3>1, <3>3
    <3>5. ASSUME NEW j \in seen
          PROVE  MomentAt(w)[j] = moment[src[j]] /\ MomentAt(w)[j] \in Int
      <4>1. MomentAt(w)[j] = (w.entries[j].ts - w.entries[N].ts) * ValueAt(w)[j]
        BY <1>6, <1>11 DEF MomentAt
      <4>2. moment[src[j]] = (scored[src[j]].ts - newest) * value[src[j]]
        BY <1>11
      <4>3. scored[src[j]].ts = w.entries[j].ts
        BY <1>7, <1>11
      <4>4. MomentAt(w)[j] = moment[src[j]]
        BY <1>16, <3>4, <4>1, <4>2, <4>3
      <4>5. \A a, b, c \in Int : (a - b) * c \in Int
        OBVIOUS
      <4>6. w.entries[j].ts \in Int
        BY <1>4, <1>11, <4>3
      <4>7. (w.entries[j].ts - w.entries[N].ts) * ValueAt(w)[j] \in Int
        BY <1>16, <3>1, <4>5, <4>6
      <4>. QED BY <4>1, <4>4, <4>7, Zenon
    <3>. HIDE DEF seen, inside, moment
    <3>6. SumFunctionOnSet(MomentAt(w), seen) = SumFunctionOnSet(moment, {src[j] : j \in seen})
      BY <1>12, <1>14, <3>5, SumRenamed
    <3>. QED BY <1>13, <3>6
  <2>. QED BY <2>1, <2>2
<1>. HIDE DEF seen, inside, value, moment, cutoff
<1>19. frame.aggregates[f][k] =
         [count |-> Cardinality(inside), sum |-> SumFunctionOnSet(value, inside),
          moment |-> SumFunctionOnSet(moment, inside)]
  BY <1>5, <1>10, <1>15, <1>17, <1>18 DEF StatsOver
<1>. QED BY <1>19 DEF inside, value, moment

\* However samples fall, whatever values they have, whether and when a window was
\* compacted, and however ticks fail and pipelines are wiped: a frame has of each
\* window the statistics of all that was scored in it.
THEOREM OnePassCorrect == PipelineSpec => []OnePassIsRescan
<1>1. PipelineInv /\ WindowInv => OnePassIsRescan
  BY RescanFromInvariant
<1>. QED BY <1>1, WindowsAlways, PTL
=============================================================================
