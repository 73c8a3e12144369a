------------------------------ MODULE MCCards ------------------------------
\* Every mixture of rules that interact, learned scores on a few layers, and
\* conditions that come and go one at a time; and with each frame the least of
\* the details, or most of them with a radio that is bad or one that is good.
EXTENDS Cards, TLC

MCLayers == AttributableLayers

Quiet == [layer \in AttributableLayers |-> 0]
MCLearned == {Quiet, [Quiet EXCEPT !["gateway"] = 120, !["path"] = 160, !["remote_https"] = 160]}

MCSeen ==
  [captive |-> BOOLEAN, loss |-> {0, 1, 2}, dnsFail |-> {0, 2, 3}, httpsFail |-> BOOLEAN, rssi |-> {0, 1, 2},
   retries |-> BOOLEAN, retrans |-> {0, 2}, vpn |-> BOOLEAN,
   learned |-> MCLearned, votes |-> {{}, {"remote_https"}},
   forecast |-> {0, 60}, blind |-> BOOLEAN]

Nothing ==
  [clear |-> FALSE, crowded |-> FALSE, retry |-> 0, roamed |-> FALSE, slowLink |-> FALSE,
   lossy |-> FALSE, rerouted |-> FALSE, halfFail |-> FALSE, slowTls |-> FALSE,
   resends |-> FALSE, busy |-> FALSE]
Wired == [Nothing EXCEPT !.lossy = TRUE, !.halfFail = TRUE, !.slowTls = TRUE, !.busy = TRUE]
Bad == [Wired EXCEPT !.retry = 2, !.roamed = TRUE, !.slowLink = TRUE]
Good == [Wired EXCEPT !.retry = 2, !.clear = TRUE, !.crowded = TRUE, !.rerouted = TRUE]
MCDetails == {Nothing} \cup {[d EXCEPT !.resends = b] : d \in {Wired, Bad, Good}, b \in BOOLEAN}
=============================================================================
