------------------------------- MODULE MCDtn -------------------------------
(***************************************************************************)
(* Instances of DtnSim: three nodes, three packages, up to three contacts. *)
(***************************************************************************)
EXTENDS DtnSim

MCNodes == 1 .. 3
MCPkgs == 1 .. 3
MCEstimates == {1, 2}

MCPairs == {<<1, 2>>, <<1, 3>>, <<2, 3>>}

\* Times 1 to 4 are scanned; 5 is in the slot cut short.
MCContacts ==
    [pair : {<<1, 2>>}, startAt : {1, 2}] \cup [pair : {<<1, 3>>}, startAt : {2, 3}]
    \cup [pair : {<<2, 3>>}, startAt : {2, 3, 5}]
MCTables == UNION {kSubset(k, MCContacts) : k \in 0 .. 3}

Package(s, d, t) == [src |-> s, dst |-> d, startAt |-> t]

Late == Package(1, 2, 5)

\* Two packages that compete for node 2, that cross each other, that start one
\* after the other, and one too late for any scanned slot; and two for which a
\* storage of two, with one package in it, is too small.
MCTraffics ==
    {<<Package(1, 3, 1), Package(2, 3, 1), Late>>, <<Package(1, 3, 1), Package(3, 1, 1), Late>>,
     <<Package(1, 3, 1), Package(1, 3, 2), Late>>, <<Package(2, 3, 1), Late, Late>>,
     <<Package(1, 3, 1), Package(1, 3, 1), Package(2, 3, 1)>>}

Config(oracle, fwd, buf, rcd, trained) ==
    [oracle |-> oracle, fwdMethod |-> fwd, bufSize |-> buf, pkgRcdRoute |-> rcd,
     trained |-> trained, metBefore |-> {q \in MCPairs : trained[q] > 0},
     betweenness |-> [n \in MCNodes |-> n % 3],
     similarity |-> [q \in MCPairs |-> q[2] - q[1]], alfar |-> 1, beta |-> 1]

Untrained == [q \in MCPairs |-> 0]
Trained == [q \in MCPairs |-> CASE q = <<1, 2>> -> 1 [] q = <<1, 3>> -> 0 [] q = <<2, 3>> -> 2]

MCConfigs ==
    {Config("epidemic", "no_replica", b, r, Untrained) : b \in {-1, 1}, r \in {0, 1}}
    \cup {Config("future", "no_replica", b, 0, Untrained) : b \in {-1, 1}}
    \cup {Config("bubble", f, b, 0, Untrained) :
            f \in {"no_replica", "better", "everbest"}, b \in {-1, 1}}
    \cup {Config("bubble", "no_replica", 2, 0, Untrained)}
    \cup {Config("markov", f, -1, 0, Trained) : f \in {"no_replica", "everbest"}}
    \cup {[Config("markov", "no_replica", 1, 0, Untrained) EXCEPT !.metBefore = {<<2, 3>>}]}
    \cup {Config("zoom", "no_replica", -1, 0, Trained), Config("zoom", "better", 1, 0, Untrained)}
    \cup {Config("average", "no_replica", 1, 0, Untrained)}
    \cup {Config("simbet", f, 1, 0, Trained) : f \in {"no_replica", "everbest"}}
    \cup {[Config("simbet", "better", -1, 1, Trained) EXCEPT !.alfar = 0]}
    \cup {[Config("global_social", "everbest", -1, 0, Untrained) EXCEPT !.alfar = x, !.beta = 1 - x] :
            x \in {0, 1}}

MCEvent ==
    {RecvEvent(t, p, v) : t \in 1 .. 5, p \in MCPkgs, v \in MCEstimates \cup {NONE}}
    \cup {CntEvent(c, first) : c \in MCContacts, first \in BOOLEAN}

=============================================================================
