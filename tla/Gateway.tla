------------------------------ MODULE Gateway ------------------------------
(***************************************************************************)
(* The gateway (apps/gateway): NodeHealthTracker polls every node and      *)
(* keeps its status in the ring, forwardWithFailover sends each request to *)
(* the candidates of its key in turn.                                      *)
(*                                                                         *)
(* Every stretch of code between two awaits is an action.  Requests are    *)
(* about one key, whose ring candidates are the constant Candidates (see   *)
(* HashRing).  Writes are numbered in the order in which nodes apply them; *)
(* what a node holds is the number and kind of the last one.  Nodes and    *)
(* the network are external: a node is up, killed (answers, but reports    *)
(* DEAD and refuses cache requests) or down; a slow or lost answer is a    *)
(* fault, and so is every change for the worse.  Left out: heartbeat       *)
(* times, which are only displayed, and the routes that only read.         *)
(***************************************************************************)
EXTENDS Naturals, Sequences, FiniteSets, FiniteSetsExt

CONSTANTS
  Nodes,               \* config.staticNodes
  Candidates,          \* ring.getNodesForKey(key, FAILOVER_CANDIDATE_COUNT)
  Requests,            \* client requests, each sent once
  Method,              \* request -> "GET", "PUT" or "DELETE"
  SuspectAfterMisses,
  DeadAfterMisses,
  Cycles,              \* poll cycles that can be outstanding at once
  NoPoll,              \* no poll of this node in this cycle
  MaxOpen,             \* bound on requests the gateway serves at once
  MaxFaults            \* bound on faults

Methods == {"GET", "PUT", "DELETE"}

ASSUME GatewayAssumption ==
  /\ Candidates \in Seq(Nodes)
  /\ \A i, j \in 1 .. Len(Candidates) : Candidates[i] = Candidates[j] => i = j
  /\ Method \in [Requests -> Methods]
  /\ SuspectAfterMisses \in Nat \ {0} /\ DeadAfterMisses \in Nat
  /\ SuspectAfterMisses <= DeadAfterMisses
  /\ {MaxOpen, MaxFaults} \subseteq Nat

VARIABLES
  phase,       \* "new", "listening", "closing" (stop awaits), "stopped"
  status,      \* the status of each node in the ring's node table
  missCounts,  \* consecutive misses, counted up to DeadAfterMisses
  polls,       \* cycle -> node -> the status pollOne was called with and
               \* the answer on its way ("none" if there is none), or NoPoll
  request,     \* request -> its progress through forwardWithFailover
  late,        \* requests given up by the gateway that may still reach a node
  cond,        \* node -> "up", "killed" or "down"
  store,       \* node -> last write it applied
  writes,      \* how many writes nodes have applied
  acked,       \* the newest write a client was told succeeded
  condemned,   \* nodes that once missed DeadAfterMisses checks in a row (ghost)
  faulted,     \* nodes that suffered a fault (ghost)
  faults

tracker == <<status, missCounts, polls>>
nodes == <<cond, store, writes>>
broken == <<faulted, faults>>
vars == <<phase, tracker, request, late, nodes, acked, condemned, broken>>

Statuses == {"JOINING", "HEALTHY", "SUSPECT", "DEAD"}

Nothing == [num |-> 0, held |-> FALSE]

Idle == [at |-> "new", todo |-> {}, tried |-> {}, floor |-> 0,
         answer |-> "none", seen |-> 0]

Init ==
  /\ phase = "new"
  /\ status = [n \in Nodes |-> "JOINING"]
  /\ missCounts = [n \in Nodes |-> 0]
  /\ polls = [c \in Cycles |-> [n \in Nodes |-> NoPoll]]
  /\ request = [r \in Requests |-> Idle]
  /\ late = {}
  /\ cond = [n \in Nodes |-> "up"]
  /\ store = [n \in Nodes |-> Nothing]
  /\ writes = 0 /\ acked = 0 /\ condemned = {}
  /\ faulted = {} /\ faults = 0

\* Something goes wrong with node n.
Fault(n) ==
  /\ faults < MaxFaults
  /\ faults' = faults + 1
  /\ faulted' = faulted \cup {n}

-----------------------------------------------------------------------------
(* NodeHealthTracker *)

\* GET /health on the node: always 200, the body tells.  It is read when the
\* poll is sent; the answer may arrive at any time before the timeout.
healthRoute(n) == IF cond[n] = "killed" THEN "DEAD"
                  ELSE IF cond[n] = "up" THEN "HEALTHY" ELSE "none"

\* pollAll hands every pollOne the NodeInfo of this moment.
pollAll ==
  \E c \in Cycles :
    /\ \A n \in Nodes : polls[c][n] = NoPoll
    /\ polls' = [polls EXCEPT ![c] =
                   [n \in Nodes |-> [status |-> status[n],
                                   answer |-> healthRoute(n)]]]

\* start installs the timer and polls at once; then the server listens.
start ==
  /\ phase = "new"
  /\ phase' = "listening"
  /\ pollAll
  /\ UNCHANGED <<status, missCounts, request, late, nodes, acked, condemned, broken>>

timerFires ==
  /\ phase = "listening"
  /\ pollAll
  /\ UNCHANGED <<phase, status, missCounts, request, late, nodes, acked, condemned, broken>>

\* The ring's node table; placement does not depend on it.
updateNodeStatus(n, s) == status' = [status EXCEPT ![n] = s]

\* pollOne after a successful getHealth.
DeadForever(c, n) ==
  /\ polls[c][n] # NoPoll /\ polls[c][n].answer # "none"
  /\ missCounts' = [missCounts EXCEPT ![n] = 0]
  /\ updateNodeStatus(n, IF status[n] = "DEAD" THEN "DEAD"
                         ELSE IF polls[c][n].answer = "DEAD"
                         THEN "SUSPECT" ELSE "HEALTHY")
  /\ polls' = [polls EXCEPT ![c][n] = NoPoll]
  /\ UNCHANGED <<phase, request, late, nodes, acked, condemned, broken>>
pollAnswered(c, n) ==
  /\ polls[c][n] # NoPoll /\ polls[c][n].answer # "none"
  /\ missCounts' = [missCounts EXCEPT ![n] = 0]
  /\ updateNodeStatus(n, IF polls[c][n].answer = "DEAD" THEN "SUSPECT" ELSE "HEALTHY")
  /\ polls' = [polls EXCEPT ![c][n] = NoPoll]
  /\ UNCHANGED <<phase, request, late, nodes, acked, condemned, broken>>

\* The status after a miss: below the thresholds the one pollOne was called
\* with, which is not re-read after the await.
DeadOneEarly(misses, captured) ==
  IF misses + 1 >= DeadAfterMisses THEN "DEAD"
  ELSE IF misses >= SuspectAfterMisses THEN "SUSPECT"
  ELSE captured
NeverDead(misses, captured) ==
  IF misses >= SuspectAfterMisses THEN "SUSPECT" ELSE captured
StatusAfterMiss(misses, captured) ==
  IF misses >= DeadAfterMisses THEN "DEAD"
  ELSE IF misses >= SuspectAfterMisses THEN "SUSPECT"
  ELSE captured

\* pollOne after getHealth threw: refused, or aborted by the timer because
\* the answer is lost or too slow.
pollMissed(c, n) ==
  /\ polls[c][n] # NoPoll
  /\ IF polls[c][n].answer = "none" THEN UNCHANGED broken ELSE Fault(n)
  /\ LET misses == IF missCounts[n] < DeadAfterMisses
                   THEN missCounts[n] + 1 ELSE DeadAfterMisses
     IN /\ missCounts' = [missCounts EXCEPT ![n] = misses]
        /\ updateNodeStatus(n, StatusAfterMiss(misses, polls[c][n].status))
        /\ condemned' = IF misses >= DeadAfterMisses
                        THEN condemned \cup {n} ELSE condemned
  /\ polls' = [polls EXCEPT ![c][n] = NoPoll]
  /\ UNCHANGED <<phase, request, late, nodes, acked>>

-----------------------------------------------------------------------------
(* forwardWithFailover *)

\* The positions in Candidates that are not filtered out.
OnlyHealthy == {i \in DOMAIN Candidates : status[Candidates[i]] = "HEALTHY"}
NotDead == {i \in DOMAIN Candidates : status[Candidates[i]] # "DEAD"}

\* The request ends; a success of a write is what its client may rely on.
Ends(r, answer) ==
  /\ request' = [request EXCEPT ![r].at = "done", ![r].answer = answer]
  /\ acked' = IF answer = "ok" /\ Method[r] # "GET" /\ request[r].seen > acked
              THEN request[r].seen ELSE acked

\* The candidates and their statuses are read once, before the first await.
forwardWithFailover(r) ==
  /\ phase = "listening"
  /\ request[r].at = "new"
  /\ Cardinality({q \in Requests : request[q].at = "waiting"}) < MaxOpen
  /\ request' = [request EXCEPT ![r] =
       [at |-> IF NotDead = {} THEN "done" ELSE "waiting",
        todo |-> NotDead, tried |-> {}, floor |-> acked,
        answer |-> IF NotDead = {} THEN "NoHealthyNodes" ELSE "none", seen |-> 0]]
  /\ UNCHANGED <<phase, tracker, late, nodes, acked, condemned, broken>>

\* The candidate whose turn it is.
Turn(r) == Min(request[r].todo)
Target(r) == Candidates[Turn(r)]

\* What a node does with request r: the route of CacheNode, and the write.
Apply(r, n) ==
  IF Method[r] = "GET" THEN UNCHANGED <<store, writes>>
  ELSE /\ writes' = writes + 1
       /\ store' = [store EXCEPT ![n] =
                      [num |-> writes + 1, held |-> Method[r] = "PUT"]]

\* The node handles the request while the gateway waits for the answer.
nodeHandles(r) ==
  /\ request[r].at = "waiting" /\ request[r].answer = "none"
  /\ LET n == Target(r) IN
     \/ /\ cond[n] = "up"
        /\ Apply(r, n)
        /\ request' = [request EXCEPT
             ![r].answer = IF Method[r] = "GET" /\ ~store[n].held
                           THEN "KeyNotFound" ELSE "ok",
             ![r].tried = @ \cup {n},
             ![r].seen = store'[n].num]
     \/ /\ cond[n] = "killed"
        /\ request' = [request EXCEPT ![r].answer = "unavailable"]
        /\ UNCHANGED <<store, writes>>
  /\ UNCHANGED <<phase, tracker, late, cond, acked, condemned, broken>>

\* action(node) returned, or threw KeyNotFoundError, which is not retried.
requestAnswered(r) ==
  /\ request[r].at = "waiting" /\ request[r].answer \in {"ok", "KeyNotFound"}
  /\ Ends(r, request[r].answer)
  /\ UNCHANGED <<phase, tracker, late, nodes, condemned, broken>>

\* Any other error: the next candidate, or the last error to the client.
RetriesSame(r) ==
  request' = [request EXCEPT ![r].answer = "none"]
Tries(r, rest) ==
  request' = [request EXCEPT ![r].todo = rest,
                             ![r].at = IF rest = {} THEN "done" ELSE "waiting",
                             ![r].answer = IF rest = {} THEN "unavailable" ELSE "none"]
StopsEarly(r) ==
  LET rest == request[r].todo \ {Turn(r)}
  IN Tries(r, IF Cardinality(rest) = 1 THEN {} ELSE rest)
TryNext(r) == Tries(r, request[r].todo \ {Turn(r)})

\* The node refused (503), cannot be reached, or the client's abort timer
\* fired; in the last case the node may handle the request afterwards.
requestFailed(r) ==
  /\ request[r].at = "waiting"
  /\ LET n == Target(r) IN
     \/ /\ \/ request[r].answer = "unavailable"
           \/ cond[n] = "down" /\ request[r].answer = "none"
        /\ UNCHANGED <<late, broken>>
     \/ /\ request[r].answer = "none" /\ cond[n] # "down"
        /\ Fault(n)
        /\ late' = late \cup {<<r, n>>}
     \/ /\ request[r].answer \in {"ok", "KeyNotFound"}
        /\ Fault(n)
        /\ UNCHANGED late
  /\ TryNext(r)
  /\ UNCHANGED <<phase, tracker, nodes, acked, condemned>>

handledLate(r, n) ==
  /\ <<r, n>> \in late
  /\ cond[n] = "up"
  /\ late' = late \ {<<r, n>>}
  /\ Apply(r, n)
  /\ request' = [request EXCEPT ![r].tried = @ \cup {n}]
  /\ UNCHANGED <<phase, tracker, cond, acked, condemned, broken>>

-----------------------------------------------------------------------------
(* Shutdown, and the nodes *)

\* stop clears the timer and waits until open requests have ended.
stop ==
  /\ phase = "listening"
  /\ phase' = "closing"
  /\ UNCHANGED <<tracker, request, late, nodes, acked, condemned, broken>>

NoneWaiting == \A r \in Requests : request[r].at # "waiting"

closed ==
  /\ phase = "closing"
  /\ NoneWaiting
  /\ phase' = "stopped"
  /\ UNCHANGED <<tracker, request, late, nodes, acked, condemned, broken>>

\* A node crashes or hangs, or is killed by fault injection.
breaks(n, to) ==
  /\ cond[n] = "up"
  /\ Fault(n)
  /\ cond' = [cond EXCEPT ![n] = to]
  /\ late' = IF to = "down" THEN {m \in late : m[2] # n} ELSE late
  /\ UNCHANGED <<phase, tracker, request, store, writes, acked, condemned>>

returns(n) ==
  /\ cond[n] # "up"
  /\ cond' = [cond EXCEPT ![n] = "up"]
  /\ UNCHANGED <<phase, tracker, request, late, store, writes, acked, condemned, broken>>

Polling == \E c \in Cycles, n \in Nodes : pollAnswered(c, n) \/ pollMissed(c, n)

Next ==
  \/ start
  \/ timerFires
  \/ Polling
  \/ \E r \in Requests : forwardWithFailover(r)
  \/ \E r \in Requests : nodeHandles(r)
  \/ \E r \in Requests : requestAnswered(r)
  \/ \E r \in Requests : requestFailed(r)
  \/ \E r \in Requests, n \in Nodes : handledLate(r, n)
  \/ stop
  \/ closed
  \/ \E n \in Nodes, to \in {"killed", "down"} : breaks(n, to)
  \/ \E n \in Nodes : returns(n)

Spec == Init /\ [][Next]_vars

\* The poll timer fires, nodes that are up answer, and the client's abort
\* timer ends every other wait.  Faults, clients and signals are not fair.
Fairness ==
  /\ WF_vars(timerFires)
  /\ \A c \in Cycles, n \in Nodes :
       WF_vars(pollAnswered(c, n) \/ pollMissed(c, n))
  /\ \A r \in Requests :
       /\ WF_vars(nodeHandles(r))
       /\ WF_vars(requestAnswered(r) \/ requestFailed(r))
  /\ WF_vars(closed)

FairSpec == Spec /\ Fairness

-----------------------------------------------------------------------------
(* Properties *)

Poll == [status : Statuses, answer : {"none", "HEALTHY", "DEAD"}]
Answers == {"none", "ok", "KeyNotFound", "unavailable", "NoHealthyNodes"}

\* Every variable has its type.
TypeOK ==
  /\ phase \in {"new", "listening", "closing", "stopped"}
  /\ status \in [Nodes -> Statuses]
  /\ missCounts \in [Nodes -> 0 .. DeadAfterMisses]
  /\ polls \in [Cycles -> [Nodes -> Poll \cup {NoPoll}]]
  /\ request \in [Requests -> [at : {"new", "waiting", "done"},
                               todo : SUBSET DOMAIN Candidates, tried : SUBSET Nodes,
                               floor : Nat, answer : Answers, seen : Nat]]
  /\ late \subseteq Requests \X Nodes
  /\ cond \in [Nodes -> {"up", "killed", "down"}]
  /\ store \in [Nodes -> [num : Nat, held : BOOLEAN]]
  /\ writes \in Nat /\ acked \in Nat
  /\ condemned \subseteq Nodes /\ faulted \subseteq Nodes
  /\ faults \in Nat

\* NodeHealthTracker.ts:6-9: a node is taken out of rotation only if it once
\* missed deadAfterMisses checks in a row, however polls overlap and however
\* old the status is that a late poll writes back.
DeadEarned == \A n \in Nodes : status[n] = "DEAD" => n \in condemned

\* As long as the first candidate has suffered no fault, a read that starts
\* after a write was acknowledged sees that write or a newer one: polls in
\* progress, and faults of other nodes, never make forwardWithFailover leave
\* the first candidate.
ReadYourWrites ==
  \A r \in Requests :
    /\ Method[r] = "GET" /\ request[r].at = "done"
    /\ Candidates # <<>> /\ Head(Candidates) \notin faulted
    => request[r].seen >= request[r].floor

\* A client is told that its request failed only if every candidate has
\* suffered a fault of its own: forwardWithFailover skips or gives up no node
\* that nothing happened to, and it tries all the others.
FaultsMasked ==
  \A r \in Requests :
    request[r].at = "done" /\ request[r].answer \in {"unavailable", "NoHealthyNodes"}
      => \A i \in DOMAIN Candidates : Candidates[i] \in faulted

\* A node handles a client's request at most once, although the gateway
\* repeats requests it gave up and such requests can arrive late.
HandledOnce ==
  [][\A r \in Requests :
       /\ nodeHandles(r) /\ cond[Target(r)] = "up"
            => Target(r) \notin request[r].tried
       /\ \A n \in Nodes : handledLate(r, n) => n \notin request[r].tried]_vars

\* Every request is answered in the end, whatever nodes do.
EveryRequestEnds ==
  \A r \in Requests : request[r].at = "waiting" ~> request[r].at = "done"

\* A node that stays unreachable while the gateway runs becomes DEAD and
\* stays it.
UnreachableLeaves ==
  \A n \in Nodes :
    <>[](phase = "listening" /\ cond[n] = "down") => <>[](status[n] = "DEAD")

\* A node that stays up becomes HEALTHY again for good, whatever old polls
\* still write back meanwhile.
ReachableReturns ==
  \A n \in Nodes :
    <>[](phase = "listening" /\ cond[n] = "up") => <>[](status[n] = "HEALTHY")

\* In the end the ring's statuses follow what the nodes do, although each
\* poll may write back a status that is out of date.
StatusFollows == UnreachableLeaves /\ ReachableReturns

\* stop ends: it waits for open requests, and they all end.
StopEnds == phase = "closing" ~> phase = "stopped"

\* NodeHealthTracker.ts:6-9: "hysteresis [...] rather than flipping status on
\* a single missed check, so one slow response or transient network blip
\* doesn't yank a healthy node out of rotation".
Hysteresis ==
  [][\A n \in Nodes :
       status[n] = "HEALTHY" /\ status'[n] = "DEAD"
         => missCounts'[n] >= DeadAfterMisses]_vars

\* NodeHealthTracker.ts:12-13: "cacheRoutes.ts only ever forwards to nodes this
\* tracker currently considers non-DEAD".
ForwardsToLive ==
  [][\A r \in Requests :
       /\ request'[r].at = "waiting"
       /\ request[r].at = "new" \/ request'[r].todo # request[r].todo
       => status[Target(r)'] # "DEAD"]_vars

\* NodeHealthTracker.ts:64-69: a node that reports itself DEAD goes through
\* "a consistent, observable HEALTHY -> SUSPECT -> DEAD progression regardless
\* of whether the failure is 'unreachable' or 'self-reported down'".
KilledLeaves ==
  \A n \in Nodes :
    <>[](phase = "listening" /\ cond[n] = "killed") => <>(status[n] = "DEAD")
=============================================================================
