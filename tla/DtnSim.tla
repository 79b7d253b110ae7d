------------------------------- MODULE DtnSim -------------------------------
(***************************************************************************)
(* The delay-tolerant forwarding experiment (exprs/run_adhoc_fwding.c): an *)
(* oracle is trained, packages are generated, one event per package and    *)
(* per contact is put in the event queue, and the main loop consumes the   *)
(* queue.  A package event hands the package to its source; a contact      *)
(* event lets two nodes exchange packages by the rule of the oracle.       *)
(*                                                                         *)
(* Nodes are numbers, in the order strcmp gives their names: the two ends  *)
(* of a contact are in the order of its pair.  A package has the identity, *)
(* source, destination and start of its master record in aSim->pkgs; a     *)
(* copy of it has its own value and routing record (its length only).      *)
(***************************************************************************)
EXTENDS EventQueue, FiniteSets

CONSTANTS
    Nodes,              \* the vehicles, numbered as strcmp orders their names
    Pkgs,               \* 1 .. numPkgs, the packages in order of generation
    Configs,            \* the command lines tried, see ConfigType
    ContactTables,      \* the contact traces tried: sets of [pair, startAt]
    Traffics,           \* the packages tried: Pkgs -> [src, dst, startAt]
    Estimates,          \* the delays an oracle may estimate
    pkgSize,            \* the size of every package
    neighborThreshold   \* meetings that make two nodes neighbours

Pairs == {q \in Nodes \X Nodes : q[1] < q[2]}

NONE == -1          \* no estimate, no value, no limit: -1 in the code

Contacts == [pair : Pairs, startAt : Nat]

\* trained: contacts of a pair in the training phase, before exprStartAt.
\* metBefore: the pairs whose list begins with a contact before exprStartAt,
\* be it of the training phase or of a time that nothing else looks at.
\* betweenness: what the zoom and simbet oracles compute from them and the
\* global social one reads from a file, as it does similarity; inputs here.
\* alfar, beta: the weights of the two; main sets them for simbet only, and
\* the global social oracle finds whatever malloc left there.
ConfigType ==
    [oracle : {"epidemic", "bubble", "markov", "average", "zoom", "future", "simbet", "global_social"},
     fwdMethod : {"no_replica", "better", "everbest"},
     bufSize : Nat \cup {NONE}, pkgRcdRoute : {0, 1}, trained : [Pairs -> Nat],
     metBefore : SUBSET Pairs,
     betweenness : [Nodes -> Nat], similarity : [Pairs -> Nat], alfar : Nat, beta : Nat]

RecvEvent(t, p, v) == [timestamp |-> t, pkg |-> p, value |-> v]
CntEvent(c, first) == [timestamp |-> c.startAt, pair |-> c.pair, first |-> first]

ASSUME DtnAssumption ==
    /\ Nodes \subseteq Nat /\ IsFiniteSet(Nodes)
    /\ IsFiniteSet(Pkgs) /\ Pkgs = 1 .. Cardinality(Pkgs)
    \* With everbest the zoom oracle reads the estimate of a pair it may not
    \* have looked up successfully; that combination is left out.
    /\ \A c \in Configs : c \in ConfigType
                           /\ (c.oracle = "zoom" => c.fwdMethod # "everbest")
                           /\ \A q \in Pairs : c.trained[q] > 0 => q \in c.metBefore
    /\ \A table \in ContactTables :
        /\ IsFiniteSet(table)
        /\ \A c \in table :
            /\ c \in Contacts /\ c.startAt >= exprStartAt
            /\ \A first \in BOOLEAN : CntEvent(c, first) \in Event
    \* add_event would index past the slots for a later package.
    /\ \A t \in Traffics :
        /\ t \in [Pkgs -> [src : Nodes, dst : Nodes, startAt : Nat]]
        /\ \A p \in Pkgs, v \in Estimates \cup {NONE} :
            /\ RecvEvent(t[p].startAt, p, v) \in Event
            /\ InRange(RecvEvent(t[p].startAt, p, v))
    /\ Estimates \subseteq Nat
    /\ pkgSize \in Nat \ {0} /\ neighborThreshold \in Nat \ {0}

VARIABLES
    phase,          \* how far main has come
    config,         \* the command line
    contacts,       \* aSim->cntTable, from exprStartAt on
    pkgs,           \* aSim->pkgs: source, destination and start of each package
    estimation,     \* pair -> estimation of its pairwise record
    metNodes,       \* node -> node -> the number of their meetings
    net             \* what the forwarding changes: see NetInit

dtnVars == <<phase, config, contacts, pkgs, estimation, metNodes, net,
             eventSlots, clock>>

\* stored, usage: the storage of each node.  endAt, hops: the delivery time
\* and the routing record of each master package.
NetInit ==
    [stored |-> [n \in Nodes |-> << >>], usage |-> [n \in Nodes |-> 0],
     endAt |-> [p \in Pkgs |-> 0], hops |-> [p \in Pkgs |-> 0],
     sentPkgs |-> 0, trafficCount |-> 0]

Init ==
    /\ phase = "oracle"
    /\ config \in Configs
    /\ contacts \in ContactTables
    /\ pkgs = << >>
    /\ estimation = [q \in Pairs |-> NONE]
    /\ metNodes = [n \in Nodes |-> [m \in Nodes |-> 0]]
    /\ net = NetInit
    /\ QueueInit

-----------------------------------------------------------------------------
(* Storage (storage.c).  Operators on a value w of net.                    *)

pkg_has_earlier_startAt_than(c, d) == pkgs[c.id].startAt < pkgs[d.id].startAt

Holds(w, n, id) == \E i \in DOMAIN w.stored[n] : w.stored[n][i].id = id

HasRoom(w, n) == config.bufSize = NONE \/ w.usage[n] + pkgSize =< config.bufSize

\* Defect: the usage is not updated.
StorageAdd_Uncounted(w, n, c) ==
    IF HasRoom(w, n)
    THEN [w EXCEPT !.stored[n] =
                AddInSequenceFromTail(@, c, pkg_has_earlier_startAt_than)]
    ELSE w

\* storage_add_pkg: the copy is freed when there is no room for it.
StorageAdd(w, n, c) ==
    IF HasRoom(w, n)
    THEN [w EXCEPT !.stored[n] =
                AddInSequenceFromTail(@, c, pkg_has_earlier_startAt_than),
            !.usage[n] = @ + pkgSize]
    ELSE w

\* Defect: the usage is not given back.
StorageRemove_Counted(w, n, id) ==
    IF Holds(w, n, id)
    THEN [w EXCEPT !.stored[n] = RemoveFirstMatch(@, LAMBDA c : c.id = id)]
    ELSE w

\* storage_remove_pkg: duallist_find gets to the first copy of the package.
StorageRemove(w, n, id) ==
    IF Holds(w, n, id)
    THEN [w EXCEPT !.stored[n] = RemoveFirstMatch(@, LAMBDA c : c.id = id),
                   !.usage[n] = @ - pkgSize]
    ELSE w

-----------------------------------------------------------------------------
(* node_recv and the ways a node passes a package on (cntEvent.c).  The    *)
(* code sets endAt of a copy to the clock exactly when it is handed to its *)
(* destination, so the clock is all that node_recv can find there.         *)

\* Defect: a later arrival replaces an earlier one.
BetterArrival_Later(w, c, now) == w.endAt[c.id] = 0 \/ now > w.endAt[c.id]

\* Whether this arrival at the destination replaces the recorded one.
BetterArrival(w, c, now) ==
    \/ w.endAt[c.id] = 0
    \/ now < w.endAt[c.id]
    \/ now = w.endAt[c.id] /\ c.hops < w.hops[c.id]

Record(w, c, now) ==
    [w EXCEPT !.sentPkgs = @ + 1, !.endAt[c.id] = now, !.hops[c.id] = c.hops]

\* A copy with a TTL of 0 would be dropped at a node that is not its
\* destination (line 901).  generate_v2v_poisson_traffic gives every package
\* a TTL of -1, whatever the options say, and no handler of contacts lowers
\* it, so the test never succeeds.

\* Defect: storage_lookup_pkg is not asked first.
node_recv_Twice(w, n, c, now) ==
    LET counted == [w EXCEPT !.trafficCount = @ + 1] IN
    IF n = pkgs[c.id].dst
    THEN IF BetterArrival(w, c, now) THEN Record(counted, c, now) ELSE counted
    ELSE StorageAdd(counted, n, [c EXCEPT !.hops = @ + config.pkgRcdRoute])

node_recv(w, n, c, now) ==
    LET counted == [w EXCEPT !.trafficCount = @ + 1] IN
    IF n = pkgs[c.id].dst
    THEN IF BetterArrival(w, c, now) THEN Record(counted, c, now) ELSE counted
    ELSE IF Holds(w, n, c.id) THEN counted
    ELSE StorageAdd(counted, n, [c EXCEPT !.hops = @ + config.pkgRcdRoute])

\* Defect: the sender keeps its copy.
HandOver_Keep(w, a, b, c, now) == node_recv(w, b, c, now)

\* The copy goes to b and the sender drops its own, whatever became of it.
HandOver(w, a, b, c, now) == StorageRemove(node_recv(w, b, c, now), a, c.id)

\* Defect: the sender drops every package it passes on.
EpidemicPass_Move(w, a, b, now) ==
    LET Pass(v, c) == HandOver(v, a, b, c, now)
    IN  FoldLeft(Pass, w, w.stored[a])

\* process_epidemic_cnt_event, one direction.
EpidemicPass(w, a, b, now) ==
    LET Pass(v, c) == IF pkgs[c.id].dst = b THEN HandOver(v, a, b, c, now)
                                            ELSE node_recv(v, b, c, now)
    IN  FoldLeft(Pass, w, w.stored[a])

\* Both copies get the new value before b receives its own.
SetValue(w, a, id, value) ==
    [w EXCEPT !.stored[a] =
        [i \in DOMAIN @ |-> IF @[i].id = id THEN [@[i] EXCEPT !.value = value] ELSE @[i]]]

(***************************************************************************)
(* The *_check_for_relaying_pkgs functions, which share their control and  *)
(* differ in the rule: for each copy that a carries, whether b is a better *)
(* carrier than a (fwd), better than the value the copy has seen (ever),   *)
(* and the value it then gets (new).                                       *)
(***************************************************************************)
RelayPass(w, a, b, now, method, rule) ==
    LET Relay(v, c) ==
        CASE pkgs[c.id].dst = b -> HandOver(v, a, b, c, now)
          [] pkgs[c.id].dst # b /\ method = "no_replica" /\ rule[c].fwd ->
                HandOver(v, a, b, c, now)
          [] pkgs[c.id].dst # b /\ method = "better" /\ rule[c].fwd ->
                node_recv(v, b, c, now)
          [] pkgs[c.id].dst # b /\ method = "everbest"
             /\ (IF c.value = NONE THEN rule[c].fwd ELSE rule[c].ever) ->
                node_recv(SetValue(v, a, c.id, rule[c].new), b,
                          [c EXCEPT !.value = rule[c].new], now)
          [] OTHER -> v
    IN  FoldLeft(Relay, w, w.stored[a])

Rule(fwd, ever, new) == [fwd |-> fwd, ever |-> ever, new |-> new]

-----------------------------------------------------------------------------
(* What a node knows of the others: meetings, estimates, future contacts.  *)

\* node_met_a_node, both ways.
Met(met, q) == [met EXCEPT ![q[1]][q[2]] = @ + 1, ![q[2]][q[1]] = @ + 1]

\* aNode->neighbors: a neighbour once made is never removed.
Neighbors(met, n) == {m \in Nodes : met[n][m] >= neighborThreshold}

NeighborCount(met, n) == Cardinality(Neighbors(met, n))

\* lookup_pairwise_in_oracle orders the names; absent where there is no pair.
OfPair(table, n, d, absent) ==
    IF <<n, d>> \in Pairs THEN table[<<n, d>>]
    ELSE IF <<d, n>> \in Pairs THEN table[<<d, n>>] ELSE absent

EstimateOf(est, n, d) == OfPair(est, n, d, NONE)

\* calculate_similarity: the common neighbours of n and d, the direct ones
\* and those known from the side of n.
CalculatedSimilarity(met, n, d) ==
    Cardinality(
        (IF d \in Neighbors(met, n) THEN Neighbors(met, d) \cap Neighbors(met, n) ELSE {})
        \cup {m \in Neighbors(met, n) \ {d} : d \in Neighbors(met, m)})

ContactTimes(n, d) == {c.startAt : c \in {x \in contacts : Range(x.pair) = {n, d}}}

\* futureContacts: setup_oracle_future_contacts copies what starts after
\* exprStartAt, up to the first contact past exprEndAt, and each look at the
\* list drops what lies before the clock.
FutureContacts(n, d, now) ==
    {t \in ContactTimes(n, d) :
        /\ t > exprStartAt /\ t >= now
        /\ \A s \in ContactTimes(n, d) : s > exprEndAt => t =< s}

\* aDstTime, bDstTime: the wait for the next contact with d.
DstTime(n, d, now) ==
    IF FutureContacts(n, d, now) = {} THEN NONE ELSE Min(FutureContacts(n, d, now)) - now

\* Defect: a node with as many neighbours counts as a better carrier.
BubblePass_OrEqual(w, a, b, now, met) ==
    LET mine == NeighborCount(met, a)
        theirs == NeighborCount(met, b)
    IN  RelayPass(w, a, b, now, config.fwdMethod,
            [c \in Range(w.stored[a]) |-> Rule(mine =< theirs, theirs > c.value, theirs)])

BubblePass(w, a, b, now, met) ==
    LET mine == NeighborCount(met, a)
        theirs == NeighborCount(met, b)
    IN  RelayPass(w, a, b, now, config.fwdMethod,
            [c \in Range(w.stored[a]) |-> Rule(mine < theirs, theirs > c.value, theirs)])

OraclePass(w, a, b, now, est) ==
    LET Mine(c) == EstimateOf(est, a, pkgs[c.id].dst)
        Theirs(c) == EstimateOf(est, b, pkgs[c.id].dst)
    IN  RelayPass(w, a, b, now, config.fwdMethod,
            [c \in Range(w.stored[a]) |->
                Rule(Theirs(c) # NONE /\ (Mine(c) = NONE \/ Mine(c) > Theirs(c)),
                     Theirs(c) # NONE /\ c.value > Theirs(c), Theirs(c))])

\* As OraclePass, and where nobody has an estimate the more central node.
ZoomPass(w, a, b, now, est) ==
    LET Mine(c) == EstimateOf(est, a, pkgs[c.id].dst)
        Theirs(c) == EstimateOf(est, b, pkgs[c.id].dst)
        cond1(c) == Mine(c) = NONE /\ Theirs(c) # NONE
        cond2(c) == Mine(c) # NONE /\ Theirs(c) # NONE /\ Mine(c) > Theirs(c)
        cond3(c) == /\ Mine(c) = NONE /\ Theirs(c) = NONE
                    /\ config.betweenness[a] < config.betweenness[b]
    IN  RelayPass(w, a, b, now, config.fwdMethod,
            [c \in Range(w.stored[a]) |-> Rule(cond1(c) \/ cond2(c) \/ cond3(c), FALSE, NONE)])

\* Utilities are counted in 60ths, exact where two nodes share up to 6.
Unit == 60
Share(x, y) == IF x + y = 0 THEN 0 ELSE (Unit * x) \div (x + y)

\* The utility of each of two nodes is its share in the similarity and in the
\* betweenness of both.  The simbet and the global social pass differ in the
\* similarity and in the betweenness they are given.
SocialPass(w, a, b, now, similarity, betweenness) ==
    LET Utility(n, m, d) ==
            config.alfar * Share(similarity[n][d], similarity[m][d])
            + config.beta * Share(betweenness[n], betweenness[m])
        Mine(c) == Utility(a, b, pkgs[c.id].dst)
        Theirs(c) == Utility(b, a, pkgs[c.id].dst)
    IN  RelayPass(w, a, b, now, config.fwdMethod,
            [c \in Range(w.stored[a]) |->
                Rule(Mine(c) < Theirs(c), Theirs(c) > c.value, Theirs(c))])

\* setup_oracle_simbet leaves betweenness at 0 when alfar is 0.
SimbetPass(w, a, b, now, met) ==
    SocialPass(w, a, b, now,
               [n \in Nodes |-> [d \in Nodes |-> CalculatedSimilarity(met, n, d)]],
               IF config.alfar = 0 THEN [n \in Nodes |-> 0] ELSE config.betweenness)

GlobalSocialPass(w, a, b, now) ==
    SocialPass(w, a, b, now,
               [n \in Nodes |-> [d \in Nodes |-> OfPair(config.similarity, n, d, 0)]],
               config.betweenness)

\* Defect: the comparison of the waits is the wrong way round.
FuturePass_Reversed(w, a, b, now) ==
    LET Mine(c) == DstTime(a, pkgs[c.id].dst, now)
        Theirs(c) == DstTime(b, pkgs[c.id].dst, now)
    IN  RelayPass(w, a, b, now, "no_replica",
            [c \in Range(w.stored[a]) |->
                Rule(Theirs(c) >= 0 /\ Mine(c) < Theirs(c), FALSE, NONE)])

FuturePass(w, a, b, now) ==
    LET Mine(c) == DstTime(a, pkgs[c.id].dst, now)
        Theirs(c) == DstTime(b, pkgs[c.id].dst, now)
    IN  RelayPass(w, a, b, now, "no_replica",
            [c \in Range(w.stored[a]) |->
                Rule(Theirs(c) >= 0 /\ (Mine(c) = NONE \/ Mine(c) > Theirs(c)), FALSE, NONE)])

-----------------------------------------------------------------------------
(* main up to its loop.                                                    *)

\* setup_oracle: setup_neighborhood counts the training contacts as meetings
\* (setup_oracle_zoom counts them again), and an estimate needs two of them.
SetupOracle ==
    /\ phase = "oracle" /\ phase' = "traffic"
    /\ LET times == CASE config.oracle \in {"average", "future", "global_social"} -> 0
                       [] config.oracle = "zoom" -> 2
                       [] OTHER -> 1
       IN  metNodes' = [n \in Nodes |-> [m \in Nodes |->
                            times * OfPair(config.trained, n, m, 0)]]
    /\ estimation' \in [Pairs -> Estimates \cup {NONE}]
    /\ \A q \in Pairs : config.oracle \notin {"markov", "average", "zoom"}
                        \/ config.trained[q] < 2 => estimation'[q] = NONE
    /\ UNCHANGED <<config, contacts, pkgs, net, eventSlots, clock>>

\* generate_v2v_poisson_traffic: two different nodes, and a clock that the
\* Poisson process only moves forward.
GenerateTraffic ==
    /\ phase = "traffic" /\ phase' = "packages"
    /\ pkgs' \in Traffics
    /\ \A p \in Pkgs : pkgs'[p].src # pkgs'[p].dst
    /\ \A p, o \in Pkgs : p =< o => pkgs'[p].startAt =< pkgs'[o].startAt
    /\ UNCHANGED <<config, contacts, estimation, metNodes, net, eventSlots, clock>>

\* The value a package starts with: its source's estimate, if it has one.
InitialValue(p) ==
    IF config.oracle \in {"markov", "average"}
    THEN EstimateOf(estimation, pkgs[p].src, pkgs[p].dst) ELSE NONE

\* setup_adhoc_fwding_traffic_events, in the order of the packages.
SetupTrafficEvents ==
    /\ phase = "packages" /\ phase' = "contacts"
    /\ LET events == [p \in Pkgs |-> RecvEvent(pkgs[p].startAt, p, InitialValue(p))]
       IN  eventSlots' = FoldLeft(WithEvent, eventSlots, events)
    /\ UNCHANGED <<config, contacts, pkgs, estimation, metNodes, net, clock>>

\* setup_cnt_events: the hash table gives the pairs in any order, the list of
\* a pair its contacts in order of time.  ict is -1 for the head of the list.
SetupCntEvents ==
    /\ phase = "contacts" /\ phase' = "run"
    /\ \E order \in SetToSeqs({c \in contacts : c.startAt < exprEndAt}) :
        LET First(c) == c.pair \notin config.metBefore
                        /\ \A d \in contacts : d.pair = c.pair => c.startAt =< d.startAt
        IN  /\ \A i, j \in DOMAIN order :
                    order[i].pair = order[j].pair /\ i < j => order[i].startAt < order[j].startAt
            /\ eventSlots' = FoldLeft(WithEvent, eventSlots,
                                      [i \in DOMAIN order |-> CntEvent(order[i], First(order[i]))])
    /\ UNCHANGED <<config, contacts, pkgs, estimation, metNodes, net, clock>>

-----------------------------------------------------------------------------
(* The main loop: consume_an_event and the handlers.                       *)

IsContact(e) == "pair" \in DOMAIN e

\* The event of a package: its source receives it.
RecvPkg ==
    /\ phase = "run"
    /\ PickEvent
    /\ ~ IsContact(NextEvent)
    /\ LET p == NextEvent.pkg IN
        net' = node_recv(net, pkgs[p].src,
                         [id |-> p, value |-> NextEvent.value, hops |-> 0], clock')
    /\ UNCHANGED <<phase, config, contacts, pkgs, estimation, metNodes>>

\* cnt_event_handler: a contact event under the given oracle.  Its packages go
\* from the first node to the second, and from what that leaves, v, back.
Contact(oracle) ==
    /\ phase = "run"
    /\ config.oracle = oracle
    /\ PickEvent
    /\ IsContact(NextEvent)
    /\ UNCHANGED <<phase, config, contacts, pkgs>>

\* process_epidemic_cnt_event.
EpidemicContact ==
    /\ Contact("epidemic")
    /\ LET q == NextEvent.pair IN
        /\ metNodes' = Met(metNodes, q)
        /\ \E v \in {EpidemicPass(net, q[1], q[2], clock')} :
               net' = EpidemicPass(v, q[2], q[1], clock')
    /\ UNCHANGED estimation

\* process_bubble_cnt_event.
BubbleContact ==
    /\ Contact("bubble")
    /\ LET q == NextEvent.pair
           met == Met(metNodes, q)
       IN  /\ metNodes' = met
           /\ \E v \in {BubblePass(net, q[1], q[2], clock', met)} :
                  net' = BubblePass(v, q[2], q[1], clock', met)
    /\ UNCHANGED estimation

\* process_simbet_cnt_event.
SimbetContact ==
    /\ Contact("simbet")
    /\ LET q == NextEvent.pair
           met == Met(metNodes, q)
       IN  /\ metNodes' = met
           /\ \E v \in {SimbetPass(net, q[1], q[2], clock', met)} :
                  net' = SimbetPass(v, q[2], q[1], clock', met)
    /\ UNCHANGED estimation

\* process_global_social_cnt_event: no meeting is recorded.
GlobalSocialContact ==
    /\ Contact("global_social")
    /\ LET q == NextEvent.pair IN
        \E v \in {GlobalSocialPass(net, q[1], q[2], clock')} :
            net' = GlobalSocialPass(v, q[2], q[1], clock')
    /\ UNCHANGED <<estimation, metNodes>>

\* The part that process_markov, process_avgdly and process_avgprb share: the
\* estimate of the pair is renewed, then packages are relayed both ways.
RenewAndRelay(q) ==
    \E e \in Estimates \cup {NONE} :
        LET est == [estimation EXCEPT ![q] = e] IN
        /\ estimation' = est
        /\ \E v \in {OraclePass(net, q[1], q[2], clock', est)} :
               net' = OraclePass(v, q[2], q[1], clock', est)

\* process_markov_cnt_event: the first contact of a pair has no ict, and the
\* handler returns before any package is relayed.
MarkovContact ==
    /\ Contact("markov")
    /\ metNodes' = Met(metNodes, NextEvent.pair)
    /\ IF NextEvent.first THEN UNCHANGED <<estimation, net>>
                          ELSE RenewAndRelay(NextEvent.pair)

\* process_avgdly_cnt_event, process_avgprb_cnt_event: ict is never set for
\* these oracles; the test of the uninitialized field goes either way.
AverageContact ==
    /\ Contact("average")
    /\ metNodes' = Met(metNodes, NextEvent.pair)
    /\ \/ UNCHANGED <<estimation, net>>
       \/ RenewAndRelay(NextEvent.pair)

\* process_zoom_cnt_event: the estimate is renewed if there is an ict, and
\* packages are relayed in any case.
ZoomContact ==
    /\ Contact("zoom")
    /\ metNodes' = Met(metNodes, NextEvent.pair)
    /\ LET q == NextEvent.pair IN
        \E e \in IF NextEvent.first THEN {estimation[q]} ELSE Estimates \cup {NONE} :
            LET est == [estimation EXCEPT ![q] = e] IN
            /\ estimation' = est
            /\ \E v \in {ZoomPass(net, q[1], q[2], clock', est)} :
                   net' = ZoomPass(v, q[2], q[1], clock', est)

\* process_future_contacts_cnt_event: no meeting is recorded.
FutureContact ==
    /\ Contact("future")
    /\ LET q == NextEvent.pair IN
        \E v \in {FuturePass(net, q[1], q[2], clock')} :
            net' = FuturePass(v, q[2], q[1], clock')
    /\ UNCHANGED <<estimation, metNodes>>

\* consume_an_event finds every slot it scans empty.
LeaveLoop ==
    /\ phase = "run" /\ phase' = "done"
    /\ NonEmptySlots = {}
    /\ UNCHANGED <<config, contacts, pkgs, estimation, metNodes, net, eventSlots, clock>>

Next ==
    \/ SetupOracle \/ GenerateTraffic \/ SetupTrafficEvents \/ SetupCntEvents
    \/ RecvPkg \/ EpidemicContact \/ BubbleContact \/ MarkovContact
    \/ AverageContact \/ ZoomContact \/ FutureContact
    \/ SimbetContact \/ GlobalSocialContact \/ LeaveLoop

\* One thread runs main to its end: a step that can be taken is taken.
Spec == Init /\ [][Next]_dtnVars /\ WF_dtnVars(Next)

-----------------------------------------------------------------------------
Carriers(p) == {n \in Nodes : Holds(net, n, p)}
Delivered(p) == net.endAt[p] # 0
SingleCopyRule ==
    \/ config.oracle = "future"
    \/ config.oracle # "epidemic" /\ config.fwdMethod = "no_replica"

Copy == [id : Pkgs, value : Int, hops : Nat]
Net == [stored : [Nodes -> Seq(Copy)], usage : [Nodes -> Nat], endAt : [Pkgs -> Nat],
        hops : [Pkgs -> Nat], sentPkgs : Nat, trafficCount : Nat]

\* Every list and counter holds what its C type is used for.
TypeOK ==
    /\ phase \in {"oracle", "traffic", "packages", "contacts", "run", "done"}
    /\ config \in Configs /\ contacts \in ContactTables
    /\ pkgs \in Traffics \cup {<< >>}
    /\ estimation \in [Pairs -> Estimates \cup {NONE}]
    /\ metNodes \in [Nodes -> [Nodes -> Nat]]
    /\ net \in Net
    /\ \A i \in AllocatedSlots : Range(eventSlots[i]) \subseteq Event
    /\ clock \in Nat

\* A storage accounts for exactly the copies it lists: no package twice, in
\* the order of their start, none that has arrived where it is kept, and
\* never more than its size, through any run of receptions and removals.
Consistent(w) ==
    \A n \in Nodes :
        LET list == w.stored[n] IN
        /\ w.usage[n] = pkgSize * Len(list)
        /\ config.bufSize # NONE => w.usage[n] =< config.bufSize
        /\ \A i, j \in DOMAIN list : i < j =>
                /\ list[i].id # list[j].id
                /\ pkgs[list[i].id].startAt =< pkgs[list[j].id].startAt
        /\ \A i \in DOMAIN list : pkgs[list[i].id].dst # n

StorageConsistent == Consistent(net)

\* Under NO_REPLICA_FWD and the future contacts oracle a package is in at
\* most one place: with one carrier, or delivered and with none.
SingleCopy ==
    SingleCopyRule => \A p \in Pkgs :
        Cardinality(Carriers(p)) + (IF Delivered(p) THEN 1 ELSE 0) =< 1

\* Without a recorded route a package is counted in sentPkgs once, however
\* often its copies arrive; with one, at least once.
SentIsDelivered ==
    LET delivered == Cardinality({p \in Pkgs : Delivered(p)}) IN
    /\ net.sentPkgs >= delivered
    /\ config.pkgRcdRoute = 0 => net.sentPkgs = delivered

\* A package that nobody has delivered leaves the network only in a contact
\* of a carrier with a node that has no copy, when one storage cannot take all
\* that these two carry: the sender drops its copy without looking at what node_recv
\* returned (NO_STORAGE_SPACE_ERROR).
LostOnlyWhenFull ==
    [][\A p \in Pkgs :
        Carriers(p) # {} /\ ~ Delivered(p) =>
            \/ Carriers(p)' # {} \/ Delivered(p)'
            \/ /\ IsContact(NextEvent)
               /\ \E n \in Carriers(p), m \in Nodes \ Carriers(p) :
                    /\ {n, m} = {NextEvent.pair[1], NextEvent.pair[2]}
                    /\ config.bufSize # NONE
                    /\ pkgSize * Cardinality({o \in Pkgs : Carriers(o) \cap {n, m} # {}})
                            > config.bufSize
      ]_dtnVars

\* A contact passes each package that one of the two carries at most once.
\* The second direction sees what the first has just moved; what keeps it
\* from going straight back is that no rule prefers either node to the other.
\* The epidemic oracle does send everything back, and the ever-best method
\* compares with values of earlier contacts.
HandedOverOnce ==
    [][phase = "run" /\ NonEmptySlots # {} /\ IsContact(NextEvent)
       /\ config.oracle # "epidemic"
       /\ (config.oracle = "future" \/ config.fwdMethod # "everbest")
       =>
       net'.trafficCount - net.trafficCount =<
           Cardinality({p \in Pkgs : Carriers(p) \cap Range(NextEvent.pair) # {}})
      ]_dtnVars

-----------------------------------------------------------------------------
(* When a package arrives.                                                 *)

\* The contacts whose event is consumed: those of the scanned slots.
Scanned == {c \in contacts : c.startAt < exprEndAt /\ whichslot(c.startAt) \in ScannedSlots}

NoTwoAtOnce == \A c, d \in Scanned : c # d => c.startAt # d.startAt

\* Who can have a package by time t over contacts at increasing times.
ReachedBy(p) ==
    LET at[t \in (exprStartAt - 1) .. exprEndAt] ==
        IF t < exprStartAt THEN {}
        ELSE LET had == at[t - 1] \cup (IF pkgs[p].startAt = t THEN {pkgs[p].src} ELSE {})
                 met == {c \in Scanned : c.startAt = t /\ Range(c.pair) \cap had # {}}
             IN  had \cup UNION {Range(c.pair) : c \in met}
    IN  at

\* The epidemic oracle with room everywhere floods: a package whose
\* destination can be reached over contacts at increasing times arrives no
\* later than by the foremost such journey, and exactly then (or not at all)
\* when no two contacts are at the same time.
ForemostDelivery ==
    phase = "done" /\ config.oracle = "epidemic" /\ config.bufSize = NONE =>
        \A p \in Pkgs :
            LET times == {t \in exprStartAt .. exprEndAt : pkgs[p].dst \in ReachedBy(p)[t]}
                foremost == IF times = {} THEN 0 ELSE Min(times)
            IN  /\ times # {} => Delivered(p) /\ net.endAt[p] =< foremost
                /\ NoTwoAtOnce => net.endAt[p] = foremost

\* The first pending contact of a carrier of p with its destination.
Promise(p) ==
    LET times == {e.timestamp : e \in {f \in Pending : IsContact(f) /\
                    \E n \in Carriers(p) : Range(f.pair) = {n, pkgs[p].dst}}}
    IN  IF times = {} THEN exprEndAt + 1 ELSE Min(times)

\* The future contacts oracle keeps its promise: with room everywhere and no
\* two contacts at once, each hand-over brings the contact with the
\* destination forward or leaves it, and that contact delivers the package.
PromiseKept ==
    [][config.oracle = "future" /\ config.bufSize = NONE /\ NoTwoAtOnce =>
        \A p \in Pkgs : phase = "run" /\ Carriers(p) # {} =>
            IF Delivered(p)' THEN net'.endAt[p] =< Promise(p)
                             ELSE Promise(p)' =< Promise(p)
      ]_dtnVars

\* A carrier whose contact with the destination is scanned does deliver, if
\* copies are kept and the handler looks at the packages at all (the Markov
\* oracle skips a pair's first contact, the averages skip any).  It needs the
\* main loop to go on until it has consumed every event it scans.
MeetingDelivers ==
    \A p \in Pkgs :
        (/\ ~ Delivered(p)
         /\ ~ SingleCopyRule /\ config.oracle # "average"
         /\ \E e \in Pending :
                /\ IsContact(e)
                /\ \E n \in Carriers(p) : Range(e.pair) = {n, pkgs[p].dst}
                /\ config.oracle = "markov" => ~ e.first)
        ~> Delivered(p)

=============================================================================
