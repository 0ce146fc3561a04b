--------------------------- MODULE GatewayProofs ---------------------------
(***************************************************************************)
(* For any nodes, requests, thresholds and number of overlapping polls:    *)
(* only nodes that earned it are DEAD, failures are told to clients only   *)
(* when every candidate failed, no node handles a request twice, and reads *)
(* see acknowledged writes while the first candidate works.                *)
(***************************************************************************)
EXTENDS Gateway, FiniteSetTheorems, TLAPS

-----------------------------------------------------------------------------
(* The inductive invariant *)

\* Whatever counts against a node is a fault it suffered: misses, a poll that
\* finds nobody, a DEAD status in the ring or in the hands of a poll.
TrackerInv ==
  \A n \in Nodes :
    /\ status[n] = "DEAD" => n \in condemned
    /\ n \in condemned => n \in faulted
    /\ missCounts[n] > 0 => n \in faulted
    /\ cond[n] # "up" => n \in faulted
    /\ \A c \in Cycles : polls[c][n] # NoPoll =>
         /\ polls[c][n].status = "DEAD" => n \in condemned
         /\ polls[c][n].answer = "none" => n \in faulted

\* A waiting request has a candidate to wait for, all the others it passed by
\* are faulted, and so is one that refused it.
WaitingInv ==
  \A r \in Requests : request[r].at = "waiting" =>
    /\ request[r].todo # {}
    /\ request[r].answer # "NoHealthyNodes"
    /\ \A i \in DOMAIN Candidates \ request[r].todo : Candidates[i] \in faulted
    /\ request[r].answer = "unavailable" => Target(r) \in faulted

\* The nodes that handled a request, the ones it may reach late and the ones
\* it is still to be sent to are different nodes.
OnceAt(r) ==
  /\ request[r].at = "new" => request[r].tried = {}
  /\ request[r].at = "waiting" =>
       \A i \in request[r].todo :
         Candidates[i] \in request[r].tried =>
           i = Turn(r) /\ request[r].answer \in {"ok", "KeyNotFound"}
  /\ \A n \in Nodes : <<r, n>> \in late =>
       /\ request[r].at # "new"
       /\ n \notin request[r].tried
       /\ request[r].at = "waiting" =>
            \A i \in request[r].todo : Candidates[i] # n
OnceInv == \A r \in Requests : OnceAt(r)

\* The first candidate has suffered no fault.
FirstWorks == Candidates # <<>> /\ Candidates[1] \notin faulted

\* While the first candidate works it has every acknowledged write, and every
\* answer on its way to a client tells of all writes the client may rely on.
FreshInv ==
  /\ \A n \in Nodes : store[n].num <= writes
  /\ \A r \in Requests : request[r].floor <= acked
  /\ FirstWorks =>
       /\ acked <= store[Candidates[1]].num
       /\ \A r \in Requests :
            /\ request[r].at = "waiting" /\ request[r].answer \in {"ok", "KeyNotFound"}
            => /\ request[r].floor <= request[r].seen
               /\ request[r].seen <= store[Candidates[1]].num

IInv ==
  /\ TypeOK /\ TrackerInv /\ WaitingInv /\ OnceInv /\ FreshInv
  /\ ReadYourWrites /\ FaultsMasked

-----------------------------------------------------------------------------
(* Facts about the model's operators *)

\* A nonempty set of naturals has a least element, and Min is it.
LEMMA MinIsLeast ==
  ASSUME NEW S \in SUBSET Nat, S # {}
  PROVE  Min(S) \in S /\ \A i \in S : Min(S) <= i
<1> DEFINE T == {0 .. i : i \in S}
<1>0. ASSUME NEW i \in S PROVE 0 .. i \in FiniteSubsetsOf(Nat)
  <2>1. IsFiniteSet(0 .. i)
    BY FS_Interval
  <2>2. QED
    BY <2>1 DEF FiniteSubsetsOf
<1>1. T \subseteq FiniteSubsetsOf(Nat) /\ T # {}
  BY Zenon, <1>0
<1>2. PICK x \in T : \A y \in T : ~(<<y, x>> \in StrictSubsetOrdering(Nat))
  BY Zenon, <1>1, FS_StrictSubsetOrderingWellFounded, WFMin
<1>3. PICK m \in S : x = 0 .. m
  OBVIOUS
<1>4. ASSUME NEW i \in S PROVE m <= i
  <2>1. CASE i < m
    <3>1. 0 .. i \subseteq 0 .. m /\ m \in 0 .. m /\ m \notin 0 .. i
      BY <2>1
    <3>2. <<0 .. i, 0 .. m>> \in StrictSubsetOrdering(Nat)
      BY <3>1 DEF StrictSubsetOrdering
    <3>3. QED
      BY Zenon, <1>2, <1>3, <3>2
  <2>2. QED
    BY <2>1
<1>5. QED
  BY Zenon, <1>4 DEF Min

\* The candidate whose turn it is, is one, and comes before the others.
LEMMA TurnIsFirst ==
  ASSUME TypeOK, NEW r \in Requests, request[r].todo # {}
  PROVE  /\ Turn(r) \in request[r].todo /\ Turn(r) \in DOMAIN Candidates
         /\ Target(r) \in Nodes
         /\ \A i \in request[r].todo : Turn(r) <= i
<1>1. request[r].todo \in SUBSET Nat /\ request[r].todo \subseteq DOMAIN Candidates
  BY SMTT(30), GatewayAssumption DEF TypeOK
<1>2. Turn(r) \in request[r].todo /\ \A i \in request[r].todo : Turn(r) <= i
  BY <1>1, MinIsLeast DEF Turn
<1>3. QED
  BY <1>1, <1>2, GatewayAssumption DEF Target

\* Candidates are different nodes.
LEMMA CandidatesDiffer ==
  ASSUME NEW i \in DOMAIN Candidates, NEW j \in DOMAIN Candidates,
         Candidates[i] = Candidates[j]
  PROVE  i = j
BY GatewayAssumption

\* While the first candidate works, every waiting request waits for it.
LEMMA FirstHasTheTurn ==
  ASSUME TypeOK, WaitingInv, FirstWorks,
         NEW r \in Requests, request[r].at = "waiting"
  PROVE  Turn(r) = 1 /\ Target(r) = Candidates[1] /\ 1 \in DOMAIN Candidates
<1>1. 1 \in DOMAIN Candidates /\ \A i \in DOMAIN Candidates : i \in Nat /\ i >= 1
  BY GatewayAssumption DEF FirstWorks
<1>2. 1 \in request[r].todo
  BY <1>1 DEF WaitingInv, FirstWorks
<1>3. QED
  BY <1>1, <1>2, TurnIsFirst DEF Target

-----------------------------------------------------------------------------
(* What leaves one half of the system alone *)

\* A step of the tracker does not concern requests.
LEMMA RequestsUntouched ==
  ASSUME IInv, UNCHANGED <<request, late, store, writes, acked>>,
         faulted \subseteq faulted'
  PROVE  WaitingInv' /\ OnceInv' /\ FreshInv' /\ ReadYourWrites' /\ FaultsMasked'
<1>1. WaitingInv'
  BY DEF IInv, WaitingInv, Target, Turn
<1>2. OnceInv'
  BY DEF IInv, OnceInv, OnceAt, Turn
<1>3. FreshInv'
  BY DEF IInv, FreshInv, FirstWorks
<1>4. ReadYourWrites'
  BY DEF IInv, ReadYourWrites
<1>5. FaultsMasked'
  BY DEF IInv, FaultsMasked
<1>6. QED
  BY <1>1, <1>2, <1>3, <1>4, <1>5

\* A step of a request does not concern the tracker.
LEMMA TrackerUntouched ==
  ASSUME TrackerInv, UNCHANGED <<status, missCounts, polls, condemned, cond>>,
         faulted \subseteq faulted'
  PROVE  TrackerInv'
BY DEF TrackerInv

\* A fault is blamed on its node and on nothing else.
LEMMA FaultBlames ==
  ASSUME TypeOK, NEW n \in Nodes, Fault(n)
  PROVE  /\ n \in faulted' /\ faulted \subseteq faulted'
         /\ faulted' \subseteq Nodes /\ faults' \in Nat
BY DEF TypeOK, Fault

-----------------------------------------------------------------------------
(* The steps *)

\* Init is well typed and satisfies the invariant.
LEMMA InvInit == Init => IInv
<1> SUFFICES ASSUME Init PROVE IInv
  OBVIOUS
<1>1. TypeOK
  BY GatewayAssumption DEF Init, TypeOK, Idle, Nothing, Statuses, Answers
<1>2. TrackerInv
  BY DEF Init, TrackerInv
<1>3. WaitingInv /\ OnceInv /\ ReadYourWrites /\ FaultsMasked
  BY DEF Init, Idle, WaitingInv, OnceInv, OnceAt, ReadYourWrites, FaultsMasked
<1>4. FreshInv
  BY GatewayAssumption DEF Init, Idle, Nothing, FreshInv, FirstWorks
<1>5. QED
  BY <1>1, <1>2, <1>3, <1>4 DEF IInv

\* pollAll hands out what the ring says, which the invariant covers.
LEMMA PollAllStep ==
  ASSUME IInv, pollAll,
         UNCHANGED <<status, missCounts, cond, condemned, faulted>>
  PROVE  TrackerInv' /\ polls' \in [Cycles -> [Nodes -> Poll \cup {NoPoll}]]
<1>1. PICK c \in Cycles :
        polls' = [polls EXCEPT ![c] =
                    [n \in Nodes |-> [status |-> status[n],
                                      answer |-> healthRoute(n)]]]
  BY Zenon DEF pollAll
<1>2. \A n \in Nodes : [status |-> status[n], answer |-> healthRoute(n)] \in Poll
  BY DEF IInv, TypeOK, Poll, healthRoute
<1>3. polls' \in [Cycles -> [Nodes -> Poll \cup {NoPoll}]]
  BY <1>1, <1>2 DEF IInv, TypeOK
<1>4. ASSUME NEW n \in Nodes, NEW d \in Cycles, polls'[d][n] # NoPoll
      PROVE  /\ polls'[d][n].status = "DEAD" => n \in condemned
             /\ polls'[d][n].answer = "none" => n \in faulted
  <2>1. CASE d = c
    BY <1>1, <2>1 DEF IInv, TypeOK, TrackerInv, healthRoute
  <2>2. CASE d # c
    BY <1>1, <1>4, <2>2 DEF IInv, TypeOK, TrackerInv
  <2>3. QED
    BY <2>1, <2>2
<1>5. QED
  BY <1>3, <1>4 DEF IInv, TrackerInv

\* A poll that was answered clears the misses and never writes DEAD.
LEMMA PollAnsweredStep ==
  ASSUME IInv, NEW c \in Cycles, NEW n \in Nodes, pollAnswered(c, n)
  PROVE  IInv'
<1>1. TypeOK'
  <2>1. /\ status' \in [Nodes -> Statuses]
        /\ missCounts' \in [Nodes -> 0 .. DeadAfterMisses]
    BY GatewayAssumption DEF IInv, TypeOK, pollAnswered, updateNodeStatus, Statuses
  <2>2. polls' \in [Cycles -> [Nodes -> Poll \cup {NoPoll}]]
    BY DEF IInv, TypeOK, pollAnswered, updateNodeStatus
  <2>3. QED
    BY <2>1, <2>2 DEF IInv, TypeOK, pollAnswered, updateNodeStatus, nodes, broken
<1>2. TrackerInv'
  BY DEF IInv, TypeOK, TrackerInv, pollAnswered, updateNodeStatus, nodes, broken
<1>3. QED
  BY <1>1, <1>2, RequestsUntouched DEF IInv, pollAnswered, updateNodeStatus, nodes, broken

\* A miss counts one up, and the thresholds condemn only a node that missed
\* as many checks.
LEMMA PollMissedStep ==
  ASSUME IInv, NEW c \in Cycles, NEW n \in Nodes, pollMissed(c, n)
  PROVE  IInv'
<1> DEFINE misses == IF missCounts[n] < DeadAfterMisses
                     THEN missCounts[n] + 1 ELSE DeadAfterMisses
<1>1. misses \in 1 .. DeadAfterMisses
  BY GatewayAssumption DEF IInv, TypeOK
<1>2. /\ n \in faulted' /\ faulted \subseteq faulted'
      /\ faulted' \subseteq Nodes /\ faults' \in Nat
  BY FaultBlames DEF IInv, TypeOK, TrackerInv, pollMissed, updateNodeStatus, broken
<1>3. polls[c][n] \in Poll
  BY DEF IInv, TypeOK, pollMissed, updateNodeStatus
<1> DEFINE new == StatusAfterMiss(misses, polls[c][n].status)
<1>4. /\ missCounts' = [missCounts EXCEPT ![n] = misses]
      /\ status' = [status EXCEPT ![n] = new]
      /\ condemned' = IF misses >= DeadAfterMisses
                      THEN condemned \cup {n} ELSE condemned
      /\ polls' = [polls EXCEPT ![c][n] = NoPoll]
      /\ UNCHANGED <<phase, request, late, cond, store, writes, acked>>
  BY DEF pollMissed, updateNodeStatus, nodes
<1>5. new \in Statuses /\ (new = "DEAD" => n \in condemned')
  BY <1>3, <1>4 DEF IInv, TrackerInv, StatusAfterMiss, Poll, Statuses, pollMissed, updateNodeStatus
<1> HIDE DEF misses, new
<1>6. TypeOK'
  <2>1. /\ status' \in [Nodes -> Statuses]
        /\ missCounts' \in [Nodes -> 0 .. DeadAfterMisses]
        /\ condemned' \subseteq Nodes
    BY <1>1, <1>4, <1>5 DEF IInv, TypeOK
  <2>2. polls' \in [Cycles -> [Nodes -> Poll \cup {NoPoll}]]
    BY <1>4 DEF IInv, TypeOK
  <2>3. QED
    BY <1>2, <1>4, <2>1, <2>2 DEF IInv, TypeOK
<1>7. TrackerInv'
  BY <1>1, <1>2, <1>4, <1>5 DEF IInv, TypeOK, TrackerInv
<1>8. QED
  BY <1>2, <1>4, <1>6, <1>7, RequestsUntouched DEF IInv

\* A step of one request: what has to be shown of the new record of it.
LEMMA OneRequestTypes ==
  ASSUME TypeOK, NEW r \in Requests, NEW q,
         request' = [request EXCEPT ![r] = q],
         q \in [at : {"new", "waiting", "done"},
                todo : SUBSET DOMAIN Candidates, tried : SUBSET Nodes,
                floor : Nat, answer : Answers, seen : Nat]
  PROVE  /\ request' \in [Requests -> [at : {"new", "waiting", "done"},
                                       todo : SUBSET DOMAIN Candidates,
                                       tried : SUBSET Nodes, floor : Nat,
                                       answer : Answers, seen : Nat]]
         /\ request'[r] = q
         /\ \A p \in Requests \ {r} : request'[p] = request[p]
BY DEF TypeOK

\* The first candidate by its two names.
LEMMA FirstIsHead ==
  ASSUME Candidates # <<>>
  PROVE  Head(Candidates) = Candidates[1] /\ 1 \in DOMAIN Candidates
BY GatewayAssumption

\* A new request starts with the candidates that are not DEAD; the ones left
\* out have earned it.
LEMMA ForwardStep ==
  ASSUME IInv, NEW r \in Requests, forwardWithFailover(r)
  PROVE  IInv'
<1> DEFINE q == [at |-> IF NotDead = {} THEN "done" ELSE "waiting",
                 todo |-> NotDead, tried |-> {}, floor |-> acked,
                 answer |-> IF NotDead = {} THEN "NoHealthyNodes" ELSE "none",
                 seen |-> 0]
<1>1. /\ request' = [request EXCEPT ![r] = q]
      /\ request[r].at = "new"
      /\ UNCHANGED <<phase, status, missCounts, polls, late, cond, store, writes,
                     acked, condemned, faulted, faults>>
  BY DEF forwardWithFailover, tracker, nodes, broken
<1>2. NotDead \subseteq DOMAIN Candidates
  BY DEF NotDead
<1>3. q \in [at : {"new", "waiting", "done"},
             todo : SUBSET DOMAIN Candidates, tried : SUBSET Nodes,
             floor : Nat, answer : Answers, seen : Nat]
  BY <1>2 DEF IInv, TypeOK, Answers
<1>4. \A i \in DOMAIN Candidates \ NotDead : Candidates[i] \in faulted
  BY GatewayAssumption DEF NotDead, IInv, TrackerInv
<1>5. /\ request'[r] = q
      /\ \A p \in Requests \ {r} : request'[p] = request[p]
      /\ TypeOK'
  <2>1. TypeOK
    BY DEF IInv
  <2> HIDE DEF q
  <2>2. QED
    BY <1>1, <1>3, <2>1, OneRequestTypes DEF TypeOK
<1>6. TrackerInv'
  BY <1>1, TrackerUntouched DEF IInv
<1>7. WaitingInv'
  BY SMTT(30), <1>1, <1>4, <1>5 DEF IInv, WaitingInv, Target, Turn
<1>8. OnceInv'
  BY SMTT(30), <1>1, <1>5 DEF IInv, OnceInv, OnceAt, Turn
<1>9. FreshInv'
  BY <1>1, <1>5 DEF IInv, TypeOK, FreshInv, FirstWorks
<1>10. ReadYourWrites'
  BY <1>1, <1>4, <1>5, FirstIsHead DEF IInv, ReadYourWrites
<1>11. FaultsMasked'
  BY <1>1, <1>4, <1>5 DEF IInv, FaultsMasked
<1>12. QED
  BY <1>5, <1>6, <1>7, <1>8, <1>9, <1>10, <1>11 DEF IInv

\* A write only ever raises the number of the last write a node has.
LEMMA ApplyRaises ==
  ASSUME TypeOK, FreshInv, NEW r \in Requests, NEW n \in Nodes, Apply(r, n)
  PROVE  /\ store' \in [Nodes -> [num : Nat, held : BOOLEAN]] /\ writes' \in Nat
         /\ \A m \in Nodes : /\ store[m].num <= store'[m].num
                             /\ store'[m].num <= writes'
<1>1. CASE Method[r] = "GET"
  BY <1>1 DEF TypeOK, FreshInv, Apply
<1>2. CASE Method[r] # "GET"
  <2> DEFINE new == [num |-> writes + 1, held |-> Method[r] = "PUT"]
  <2>1. store' = [store EXCEPT ![n] = new] /\ writes' = writes + 1
    BY <1>2 DEF Apply
  <2>2. new \in [num : Nat, held : BOOLEAN] /\ new.num = writes + 1
    BY DEF TypeOK
  <2> HIDE DEF new
  <2>3. QED
    BY SMTT(30), <2>1, <2>2 DEF TypeOK, FreshInv
<1>3. QED
  BY SMTT(30), <1>1, <1>2

\* The node answers: the first candidate, if it works, with its newest write.
LEMMA HandlesStep ==
  ASSUME IInv, NEW r \in Requests, nodeHandles(r)
  PROVE  IInv'
<1> DEFINE n == Target(r)
<1>1. TypeOK /\ request[r].at = "waiting" /\ request[r].answer = "none"
  BY DEF IInv, nodeHandles
<1>2. request[r].todo # {} /\ n \in Nodes /\ Turn(r) \in request[r].todo
  BY <1>1, TurnIsFirst DEF IInv, WaitingInv
<1>3. UNCHANGED <<phase, status, missCounts, polls, late, cond, acked, condemned,
                  faulted, faults>>
  BY SMTT(30) DEF nodeHandles, tracker, broken
<1>4. /\ store' \in [Nodes -> [num : Nat, held : BOOLEAN]] /\ writes' \in Nat
      /\ \A m \in Nodes : store[m].num <= store'[m].num /\ store'[m].num <= writes'
  BY SMTT(30), <1>1, <1>2, ApplyRaises DEF nodeHandles, IInv, FreshInv, TypeOK
<1>5. PICK q : /\ request' = [request EXCEPT ![r] = q]
               /\ q \in [at : {"waiting"}, todo : {request[r].todo},
                         tried : SUBSET Nodes, floor : {request[r].floor},
                         answer : {"ok", "KeyNotFound", "unavailable"}, seen : Nat]
               /\ \/ /\ q.answer # "unavailable"
                     /\ q.tried = request[r].tried \cup {n}
                     /\ q.seen = store'[n].num
                  \/ /\ q.answer = "unavailable" /\ n \in faulted
                     /\ q.tried = request[r].tried
  <2>1. CASE /\ cond[n] = "up"
             /\ request' = [request EXCEPT
                  ![r].answer = IF Method[r] = "GET" /\ ~store[n].held
                                THEN "KeyNotFound" ELSE "ok",
                  ![r].tried = @ \cup {n},
                  ![r].seen = store'[n].num]
    <3> DEFINE q == [request[r] EXCEPT
                  !.answer = IF Method[r] = "GET" /\ ~store[n].held
                             THEN "KeyNotFound" ELSE "ok",
                  !.tried = @ \cup {n},
                  !.seen = store'[n].num]
    <3>1. request' = [request EXCEPT ![r] = q]
      BY Zenon, <2>1 DEF IInv, TypeOK
    <3>2. /\ q \in [at : {"waiting"}, todo : {request[r].todo},
                    tried : SUBSET Nodes, floor : {request[r].floor},
                    answer : {"ok", "KeyNotFound"}, seen : Nat]
          /\ q.tried = request[r].tried \cup {n} /\ q.seen = store'[n].num
      <4>1. request[r] \in [at : {"new", "waiting", "done"},
                                todo : SUBSET DOMAIN Candidates, tried : SUBSET Nodes,
                                floor : Nat, answer : Answers, seen : Nat]
        BY Zenon, <1>1 DEF TypeOK
      <4>2. store'[n].num \in Nat
        BY Zenon, <1>2, <1>4
      <4>3. QED
        BY ZenonT(30), <1>1, <1>2, <4>1, <4>2
    <3>3. QED
      BY Zenon, <3>1, <3>2
  <2>2. CASE /\ cond[n] = "killed"
             /\ request' = [request EXCEPT ![r].answer = "unavailable"]
    <3> DEFINE q == [request[r] EXCEPT !.answer = "unavailable"]
    <3>1. request' = [request EXCEPT ![r] = q]
      BY <2>2 DEF IInv, TypeOK
    <3>2. /\ q \in [at : {"waiting"}, todo : {request[r].todo},
                    tried : SUBSET Nodes, floor : {request[r].floor},
                    answer : {"unavailable"}, seen : Nat]
          /\ q.tried = request[r].tried /\ n \in faulted
      <4>1. request[r] \in [at : {"new", "waiting", "done"},
                                todo : SUBSET DOMAIN Candidates, tried : SUBSET Nodes,
                                floor : Nat, answer : Answers, seen : Nat]
        BY Zenon, <1>1 DEF TypeOK
      <4>2. n \in faulted
        BY Zenon, <1>2, <2>2 DEF IInv, TrackerInv
      <4>3. QED
        BY ZenonT(30), <1>1, <4>1, <4>2
    <3>3. QED
      BY Zenon, <3>1, <3>2
  <2>3. QED
    BY <2>1, <2>2 DEF nodeHandles
<1>6. /\ request'[r] = q
      /\ \A p \in Requests \ {r} : request'[p] = request[p]
      /\ TypeOK'
  BY <1>1, <1>3, <1>4, <1>5, OneRequestTypes DEF TypeOK, Answers
<1>7. \A p \in Requests : Turn(p)' = Turn(p) /\ Target(p)' = Target(p)
  BY <1>5, <1>6 DEF Turn, Target
<1>8. TrackerInv'
  BY <1>3, TrackerUntouched DEF IInv
<1>9. WaitingInv'
  <2>1. ASSUME NEW p \in Requests, request'[p].at = "waiting"
        PROVE  /\ request[p].at = "waiting"
               /\ request'[p].todo = request[p].todo
               /\ request'[p].answer # "NoHealthyNodes"
               /\ request'[p].answer = "unavailable" => Target(p) \in faulted
    BY SMTT(30), <1>1, <1>5, <1>6, <2>1 DEF IInv, WaitingInv
  <2>2. QED
    BY <1>3, <1>7, <2>1 DEF IInv, WaitingInv
<1>10. OnceInv'
  <2>1. ASSUME NEW i \in request[r].todo, Candidates[i] = n PROVE i = Turn(r)
    BY <1>1, <1>2, <2>1, CandidatesDiffer DEF Target, TypeOK
  <2>2. \A m \in Nodes : <<r, m>> \in late => m # n
    BY <1>1, <1>2 DEF IInv, OnceInv, OnceAt, Target
  <2>3. QED
    BY <1>1, <1>3, <1>5, <1>6, <1>7, <2>1, <2>2 DEF IInv, OnceInv, OnceAt
<1>11. FreshInv'
  <2>1. ASSUME FirstWorks
        PROVE  /\ n = Candidates[1] /\ n \in Nodes
               /\ acked <= store'[n].num
    BY <1>1, <1>2, <1>4, <2>1, FirstHasTheTurn DEF IInv, FreshInv, TypeOK
  <2>2. FirstWorks' = FirstWorks
    BY <1>3 DEF FirstWorks
  <2>3. \A p \in Requests : request'[p].floor <= acked'
    BY SMTT(30), <1>3, <1>5, <1>6 DEF IInv, FreshInv
  <2>4. ASSUME FirstWorks, NEW p \in Requests,
               request'[p].at = "waiting", request'[p].answer \in {"ok", "KeyNotFound"}
        PROVE  /\ request'[p].floor <= request'[p].seen
               /\ request'[p].seen <= store'[n].num
    <3>1. CASE p = r
      BY SMTT(30), <1>1, <1>4, <1>5, <1>6, <2>1, <2>4, <3>1 DEF IInv, FreshInv, TypeOK
    <3>2. CASE p # r
      BY SMTT(30), <1>1, <1>4, <1>6, <2>1, <2>4, <3>2 DEF IInv, FreshInv, TypeOK
    <3>3. QED
      BY SMTT(30), <3>1, <3>2
  <2>5. QED
    BY SMTT(30), <1>3, <1>4, <2>1, <2>2, <2>3, <2>4 DEF FreshInv
<1>12. ReadYourWrites' /\ FaultsMasked'
  BY <1>3, <1>5, <1>6 DEF IInv, ReadYourWrites, FaultsMasked
<1>13. QED
  BY <1>6, <1>8, <1>9, <1>10, <1>11, <1>12 DEF IInv

\* A client that is told of a success may rely on no more than the first
\* candidate has.
LEMMA AnsweredStep ==
  ASSUME IInv, NEW r \in Requests, requestAnswered(r)
  PROVE  IInv'
<1> DEFINE q == [request[r] EXCEPT !.at = "done", !.answer = request[r].answer]
<1>1. /\ TypeOK /\ request[r].at = "waiting"
      /\ request[r].answer \in {"ok", "KeyNotFound"}
      /\ UNCHANGED <<phase, status, missCounts, polls, late, cond, store, writes,
                     condemned, faulted, faults>>
  BY DEF IInv, requestAnswered, tracker, nodes, broken
<1>2. /\ request' = [request EXCEPT ![r] = q]
      /\ acked' \in Nat /\ acked <= acked'
      /\ acked' = acked \/ acked' = request[r].seen
  <2>1. Ends(r, request[r].answer) /\ request[r].seen \in Nat /\ acked \in Nat
    BY <1>1 DEF requestAnswered, TypeOK
  <2>2. request' = [request EXCEPT ![r] = q]
    BY Zenon, <1>1, <2>1 DEF Ends, TypeOK
  <2>3. acked' \in Nat /\ acked <= acked' /\ (acked' = acked \/ acked' = request[r].seen)
    BY <2>1 DEF Ends
  <2>4. QED
    BY <2>2, <2>3
<1>3. /\ q \in [at : {"new", "waiting", "done"},
                todo : SUBSET DOMAIN Candidates, tried : SUBSET Nodes,
                floor : Nat, answer : Answers, seen : Nat]
      /\ q.at = "done" /\ q.todo = request[r].todo /\ q.tried = request[r].tried
      /\ q.floor = request[r].floor /\ q.answer = request[r].answer
      /\ q.seen = request[r].seen
  <2>1. request[r] \in [at : {"new", "waiting", "done"},
                            todo : SUBSET DOMAIN Candidates, tried : SUBSET Nodes,
                            floor : Nat, answer : Answers, seen : Nat]
    BY Zenon, <1>1 DEF TypeOK
  <2>2. QED
    BY ZenonT(30), <2>1
<1> HIDE DEF q
<1>4. /\ request'[r] = q
      /\ \A p \in Requests \ {r} : request'[p] = request[p]
      /\ TypeOK'
  BY SMTT(30), <1>1, <1>2, <1>3, OneRequestTypes DEF TypeOK
<1>5. TrackerInv'
  BY SMTT(30), <1>1, TrackerUntouched DEF IInv
<1>6. WaitingInv'
  BY ZenonT(30), <1>1, <1>3, <1>4 DEF IInv, WaitingInv, Target, Turn
<1>7. OnceInv'
  <2>1. OnceAt(r) /\ late' = late /\ request'[r].at = "done"
        /\ request'[r].tried = request[r].tried
    BY Zenon, <1>1, <1>3, <1>4 DEF IInv, OnceInv
  <2>2. "done" # "new" /\ "done" # "waiting" /\ "waiting" # "new"
    OBVIOUS
  <2>3. OnceAt(r)'
    BY Zenon, <1>1, <2>1, <2>2 DEF OnceAt
  <2>4. ASSUME NEW p \in Requests \ {r} PROVE OnceAt(p)'
    <3>1. OnceAt(p) /\ request'[p] = request[p]
      BY Zenon, <1>4 DEF IInv, OnceInv
    <3>2. QED
      BY Zenon, <2>1, <3>1 DEF OnceAt, Turn
  <2>5. QED
    BY Zenon, <2>3, <2>4 DEF OnceInv
<1>8. FreshInv'
  <2>1. FirstWorks => Candidates[1] \in Nodes
    BY SMTT(30), GatewayAssumption, FirstIsHead DEF FirstWorks
  <2>2. ASSUME NEW p \in Requests PROVE request'[p].floor <= acked'
    <3>1. request'[p].floor = request[p].floor /\ request[p].floor <= acked
      BY Zenon, <1>3, <1>4 DEF IInv, FreshInv
    <3>2. request[p].floor \in Nat /\ acked \in Nat
      BY <1>1 DEF TypeOK
    <3>3. QED
      BY <1>2, <3>1, <3>2
  <2>3. FirstWorks => acked' <= store[Candidates[1]].num
    BY SMTT(30), <1>1, <1>2 DEF IInv, FreshInv
  <2>4. QED
    BY <1>1, <1>3, <1>4, <2>1, <2>2, <2>3 DEF IInv, FreshInv, FirstWorks
<1>9. ReadYourWrites'
  <2>1. Candidates # <<>> /\ Head(Candidates) \notin faulted =>
          request[r].floor <= request[r].seen
    BY SMTT(30), <1>1, FirstIsHead DEF IInv, FreshInv, FirstWorks
  <2>2. QED
    BY SMTT(30), <1>1, <1>3, <1>4, <2>1 DEF IInv, ReadYourWrites, TypeOK
<1>10. FaultsMasked'
  BY ZenonT(30), <1>1, <1>3, <1>4 DEF IInv, FaultsMasked
<1>11. QED
  BY SMTT(30), <1>4, <1>5, <1>6, <1>7, <1>8, <1>9, <1>10 DEF IInv

\* A candidate is given up only after a fault of it, and not tried again.
LEMMA FailedStep ==
  ASSUME IInv, NEW r \in Requests, requestFailed(r)
  PROVE  IInv'
<1> DEFINE n == Target(r)
           rest == request[r].todo \ {Turn(r)}
           q == [request[r] EXCEPT
                   !.todo = rest,
                   !.at = IF rest = {} THEN "done" ELSE "waiting",
                   !.answer = IF rest = {} THEN "unavailable" ELSE "none"]
<1>1. /\ TypeOK /\ request[r].at = "waiting"
      /\ UNCHANGED <<phase, status, missCounts, polls, cond, store, writes, acked,
                     condemned>>
  BY SMTT(30) DEF IInv, requestFailed, tracker, nodes
<1>2. /\ request[r].todo # {} /\ n \in Nodes
      /\ Turn(r) \in request[r].todo /\ Turn(r) \in DOMAIN Candidates
  BY SMTT(30), <1>1, TurnIsFirst DEF IInv, WaitingInv
<1>3. /\ n \in faulted' /\ faulted \subseteq faulted'
      /\ faulted' \subseteq Nodes /\ faults' \in Nat
  BY SMTT(30), <1>1, <1>2, FaultBlames DEF requestFailed, IInv, TrackerInv, WaitingInv, TypeOK, broken
<1>4. \/ late' = late
      \/ late' = late \cup {<<r, n>>} /\ request[r].answer = "none"
  BY SMTT(30) DEF requestFailed
<1>5. /\ request' = [request EXCEPT ![r] = q]
  BY ZenonT(30), <1>1 DEF requestFailed, TryNext, Tries, TypeOK
<1>6. /\ q \in [at : {"new", "waiting", "done"},
                todo : SUBSET DOMAIN Candidates, tried : SUBSET Nodes,
                floor : Nat, answer : Answers, seen : Nat]
      /\ q.at = (IF rest = {} THEN "done" ELSE "waiting")
      /\ q.answer = (IF rest = {} THEN "unavailable" ELSE "none")
      /\ q.todo = rest /\ q.tried = request[r].tried
      /\ q.floor = request[r].floor /\ q.seen = request[r].seen
  <2>1. request[r] \in [at : {"new", "waiting", "done"},
                            todo : SUBSET DOMAIN Candidates, tried : SUBSET Nodes,
                            floor : Nat, answer : Answers, seen : Nat]
    BY Zenon, <1>1 DEF TypeOK
  <2>2. QED
    BY ZenonT(30), <1>1, <2>1 DEF Answers
<1>7. \A i \in DOMAIN Candidates \ rest : Candidates[i] \in faulted'
  BY <1>1, <1>3 DEF IInv, WaitingInv, Target
<1>8. \A i \in rest : i \in DOMAIN Candidates /\ Candidates[i] # n
  BY <1>1, <1>2, CandidatesDiffer DEF TypeOK, Target
<1> HIDE DEF q
<1>9. /\ request'[r] = q
      /\ \A p \in Requests \ {r} : request'[p] = request[p]
  BY ZenonT(30), <1>1, <1>5, <1>6, OneRequestTypes
<1>10. TypeOK'
  BY SMTT(30), <1>1, <1>2, <1>3, <1>4, <1>5, <1>6, OneRequestTypes DEF TypeOK
<1>11. TrackerInv'
  BY SMTT(30), <1>1, <1>3, TrackerUntouched DEF IInv
<1>12. WaitingInv'
  BY SMTT(30), <1>3, <1>6, <1>7, <1>9 DEF IInv, WaitingInv, Target, Turn
<1>13. OnceInv'
  <2>1. /\ \A i \in rest : Candidates[i] \notin request[r].tried
        /\ request[r].answer = "none" => n \notin request[r].tried
    BY SMTT(30), <1>1, <1>2 DEF IInv, OnceInv, OnceAt, Target
  <2>2. \A m \in Nodes : <<r, m>> \in late' =>
          m \notin request[r].tried /\ \A i \in rest : Candidates[i] # m
    BY <1>1, <1>4, <1>8, <2>1 DEF IInv, OnceInv, OnceAt
  <2>3. \A p \in Requests \ {r} : \A m \in Nodes : <<p, m>> \in late' => <<p, m>> \in late
    BY <1>4
  <2>4. \A p \in Requests \ {r} : Turn(p)' = Turn(p)
    BY SMTT(30), <1>9 DEF Turn
  <2>5. OnceInv
    BY Zenon DEF IInv
  <2>6. /\ request'[r].at # "new" /\ request'[r].todo = rest
        /\ request'[r].tried = request[r].tried
    BY <1>6, <1>9
  <2>7. ASSUME NEW p \in Requests, p # r
        PROVE  /\ request'[p].at = "new" => request'[p].tried = {}
               /\ request'[p].at = "waiting" =>
                    \A i \in request'[p].todo :
                      Candidates[i] \in request'[p].tried =>
                        i = Turn(p)' /\ request'[p].answer \in {"ok", "KeyNotFound"}
               /\ \A m \in Nodes : <<p, m>> \in late' =>
                    /\ request'[p].at # "new" /\ m \notin request'[p].tried
                    /\ request'[p].at = "waiting" =>
                         \A i \in request'[p].todo : Candidates[i] # m
    <3>1. p \in Requests \ {r}
      BY Zenon, <2>7
    <3>2. /\ request'[p] = request[p] /\ Turn(p)' = Turn(p)
          /\ \A m \in Nodes : <<p, m>> \in late' => <<p, m>> \in late
      BY Zenon, <1>9, <2>3, <2>4, <3>1
    <3>3. QED
      BY Zenon, <2>5, <2>7, <3>2 DEF OnceInv, OnceAt
  <2>8. ASSUME NEW m \in Nodes, <<r, m>> \in late'
        PROVE  m \notin request'[r].tried /\ \A i \in request'[r].todo : Candidates[i] # m
    BY Zenon, <2>2, <2>6, <2>8
  <2>9. \A i \in request'[r].todo : Candidates[i] \notin request'[r].tried
    BY Zenon, <2>1, <2>6
  <2>10. ASSUME NEW p \in Requests
         PROVE  /\ request'[p].at = "new" => request'[p].tried = {}
                /\ request'[p].at = "waiting" =>
                     \A i \in request'[p].todo :
                       Candidates[i] \in request'[p].tried =>
                         i = Turn(p)' /\ request'[p].answer \in {"ok", "KeyNotFound"}
                /\ \A m \in Nodes : <<p, m>> \in late' =>
                     /\ request'[p].at # "new" /\ m \notin request'[p].tried
                     /\ request'[p].at = "waiting" =>
                          \A i \in request'[p].todo : Candidates[i] # m
    <3>1. CASE p = r
      BY Zenon, <2>6, <2>8, <2>9, <3>1
    <3>2. CASE p # r
      BY Zenon, <2>7, <2>10, <3>2
    <3>3. QED
      BY Zenon, <3>1, <3>2
  <2>11. QED
    BY Zenon, <2>10 DEF OnceInv, OnceAt
<1>14. FreshInv'
  BY <1>1, <1>3, <1>6, <1>9 DEF IInv, FreshInv, FirstWorks
<1>15. ReadYourWrites' /\ FaultsMasked'
  <2>1. q.at = "done" => \A i \in DOMAIN Candidates : Candidates[i] \in faulted'
    BY <1>6, <1>7
  <2>2. ReadYourWrites'
    BY <1>3, <1>6, <1>9, <2>1, FirstIsHead DEF IInv, ReadYourWrites
  <2>3. FaultsMasked'
    BY <1>3, <1>9, <2>1 DEF IInv, FaultsMasked
  <2>4. QED
    BY <2>2, <2>3
<1>16. QED
  BY <1>10, <1>11, <1>12, <1>13, <1>14, <1>15 DEF IInv

\* A request that arrives late is handled once and changes no answer.
LEMMA LateStep ==
  ASSUME IInv, NEW r \in Requests, NEW n \in Nodes, handledLate(r, n)
  PROVE  IInv'
<1> DEFINE q == [request[r] EXCEPT !.tried = @ \cup {n}]
<1>1. /\ TypeOK /\ <<r, n>> \in late /\ late' = late \ {<<r, n>>}
      /\ UNCHANGED <<phase, status, missCounts, polls, cond, acked, condemned,
                     faulted, faults>>
  BY DEF IInv, handledLate, tracker, broken
<1>2. /\ store' \in [Nodes -> [num : Nat, held : BOOLEAN]] /\ writes' \in Nat
      /\ \A m \in Nodes : store[m].num <= store'[m].num /\ store'[m].num <= writes'
  BY <1>1, ApplyRaises DEF handledLate, IInv
<1>3. request' = [request EXCEPT ![r] = q]
  BY <1>1 DEF handledLate, TypeOK
<1>4. /\ q \in [at : {"new", "waiting", "done"},
                todo : SUBSET DOMAIN Candidates, tried : SUBSET Nodes,
                floor : Nat, answer : Answers, seen : Nat]
      /\ q.at = request[r].at /\ q.answer = request[r].answer
      /\ q.todo = request[r].todo /\ q.tried = request[r].tried \cup {n}
      /\ q.floor = request[r].floor /\ q.seen = request[r].seen
  <2>1. request[r] \in [at : {"new", "waiting", "done"},
                            todo : SUBSET DOMAIN Candidates, tried : SUBSET Nodes,
                            floor : Nat, answer : Answers, seen : Nat]
    BY ZenonT(30), <1>1 DEF TypeOK
  <2>2. QED
    BY ZenonT(30), <2>1
<1> HIDE DEF q
<1>5. /\ request'[r] = q
      /\ \A p \in Requests \ {r} : request'[p] = request[p]
  BY Zenon, <1>1, <1>3, <1>4, OneRequestTypes
<1>6. TypeOK'
  BY <1>1, <1>2, <1>3, <1>4, OneRequestTypes DEF TypeOK
<1>7. \A p \in Requests :
        /\ request'[p].at = request[p].at /\ request'[p].todo = request[p].todo
        /\ request'[p].answer = request[p].answer
        /\ request'[p].floor = request[p].floor /\ request'[p].seen = request[p].seen
        /\ Turn(p)' = Turn(p) /\ Target(p)' = Target(p)
  BY <1>4, <1>5 DEF Turn, Target
<1>8. TrackerInv'
  BY <1>1, TrackerUntouched DEF IInv
<1>9. WaitingInv'
  BY ZenonT(30), <1>1, <1>7 DEF IInv, WaitingInv
<1>10. OnceInv'
  <2>1. /\ request[r].at # "new"
        /\ request[r].at = "waiting" => \A i \in request[r].todo : Candidates[i] # n
    BY Zenon, <1>1 DEF IInv, OnceInv, OnceAt
  <2>2. \A p \in Requests, m \in Nodes :
          <<p, m>> \in late' => <<p, m>> \in late /\ (p # r \/ m # n)
    BY SMTT(30), <1>1
  <2>3. /\ request'[r].tried = request[r].tried \cup {n}
        /\ \A p \in Requests : p # r => request'[p].tried = request[p].tried
    BY Zenon, <1>4, <1>5
  <2>4. OnceInv
    BY Zenon DEF IInv
  <2>5. \A p \in Requests : request'[p].at = "new" => request'[p].tried = {}
    BY ZenonT(30), <1>7, <2>1, <2>3, <2>4 DEF OnceInv, OnceAt
  <2>6. ASSUME NEW p \in Requests, request'[p].at = "waiting", NEW i \in request'[p].todo,
               Candidates[i] \in request'[p].tried
        PROVE  i = Turn(p)' /\ request'[p].answer \in {"ok", "KeyNotFound"}
    <3>1. request[p].at = "waiting" /\ i \in request[p].todo
      BY Zenon, <1>7, <2>6
    <3>2. Candidates[i] \in request[p].tried
      BY Zenon, <2>1, <2>3, <2>6, <3>1
    <3>3. QED
      BY Zenon, <1>7, <2>4, <3>1, <3>2 DEF OnceInv, OnceAt
  <2>7. ASSUME NEW p \in Requests, NEW m \in Nodes, <<p, m>> \in late'
        PROVE  /\ request'[p].at # "new" /\ m \notin request'[p].tried
               /\ request'[p].at = "waiting" => \A i \in request'[p].todo : Candidates[i] # m
    <3>1. <<p, m>> \in late /\ (p # r \/ m # n)
      BY Zenon, <2>2, <2>7
    <3>2. /\ request[p].at # "new" /\ m \notin request[p].tried
          /\ request[p].at = "waiting" => \A i \in request[p].todo : Candidates[i] # m
      BY Zenon, <2>4, <3>1 DEF OnceInv, OnceAt
    <3>3. m \notin request'[p].tried
      BY Zenon, <2>3, <3>1, <3>2
    <3>4. request'[p].at = request[p].at /\ request'[p].todo = request[p].todo
      BY Zenon, <1>7
    <3>5. QED
      BY Zenon, <3>2, <3>3, <3>4
  <2>8. QED
    BY Zenon, <2>5, <2>6, <2>7 DEF OnceInv, OnceAt
<1>11. FreshInv'
  <2>1. FirstWorks => Candidates[1] \in Nodes
    BY GatewayAssumption, FirstIsHead DEF FirstWorks
  <2>2. FirstWorks => acked <= store'[Candidates[1]].num
    BY <1>1, <1>2, <2>1 DEF IInv, FreshInv, TypeOK
  <2>3. ASSUME FirstWorks, NEW p \in Requests,
               request[p].at = "waiting", request[p].answer \in {"ok", "KeyNotFound"}
        PROVE  /\ request[p].floor <= request[p].seen
               /\ request[p].seen <= store'[Candidates[1]].num
    BY SMTT(30), <1>1, <1>2, <2>1, <2>3 DEF IInv, FreshInv, TypeOK
  <2>4. (FirstWorks' => FirstWorks) /\ acked' = acked
    BY Zenon, <1>1 DEF FirstWorks
  <2>5. \A m \in Nodes : store'[m].num <= writes'
    BY Zenon, <1>2
  <2>6. \A p \in Requests : request'[p].floor <= acked'
    BY Zenon, <1>7, <2>4 DEF IInv, FreshInv
  <2>7. ASSUME FirstWorks, NEW p \in Requests,
               request'[p].at = "waiting", request'[p].answer \in {"ok", "KeyNotFound"}
        PROVE  /\ request'[p].floor <= request'[p].seen
               /\ request'[p].seen <= store'[Candidates[1]].num
    BY Zenon, <1>7, <2>3, <2>7
  <2>8. FirstWorks => acked' <= store'[Candidates[1]].num
    BY ZenonT(30), <2>2, <2>4
  <2>9. QED
    BY ZenonT(30), <2>4, <2>5, <2>6, <2>7, <2>8 DEF FreshInv
<1>12. ReadYourWrites' /\ FaultsMasked'
  BY <1>1, <1>7 DEF IInv, ReadYourWrites, FaultsMasked
<1>13. QED
  BY SMTT(30), <1>6, <1>8, <1>9, <1>10, <1>11, <1>12 DEF IInv

\* Nodes that break are blamed, and what was under way to a node that went
\* down is gone.
LEMMA BreaksStep ==
  ASSUME IInv, NEW n \in Nodes, NEW to \in {"killed", "down"}, breaks(n, to)
  PROVE  IInv'
<1>1. /\ n \in faulted' /\ faulted \subseteq faulted'
      /\ faulted' \subseteq Nodes /\ faults' \in Nat
  BY FaultBlames DEF IInv, breaks
<1>2. /\ UNCHANGED <<phase, status, missCounts, polls, request, store, writes, acked,
                     condemned>>
      /\ cond' = [cond EXCEPT ![n] = to] /\ late' \subseteq late
  BY SMTT(30) DEF breaks, tracker
<1>3. TypeOK'
  BY SMTT(30), <1>1, <1>2 DEF IInv, TypeOK
<1>4. TrackerInv'
  BY SMTT(30), <1>1, <1>2 DEF IInv, TypeOK, TrackerInv
<1>5. WaitingInv'
  BY ZenonT(30), <1>1, <1>2 DEF IInv, WaitingInv, Target, Turn
<1>6. OnceInv'
  BY SMTT(30), <1>2 DEF IInv, OnceInv, OnceAt, Turn
<1>7. FreshInv'
  BY <1>1, <1>2 DEF IInv, FreshInv, FirstWorks
<1>8. ReadYourWrites' /\ FaultsMasked'
  BY <1>1, <1>2 DEF IInv, ReadYourWrites, FaultsMasked
<1>9. QED
  BY SMTT(30), <1>3, <1>4, <1>5, <1>6, <1>7, <1>8 DEF IInv

\* A node that returns, and the phases of the server, change nothing else.
LEMMA QuietStep ==
  ASSUME IInv, stop \/ closed \/ (\E n \in Nodes : returns(n))
  PROVE  IInv'
<1>1. /\ UNCHANGED <<status, missCounts, polls, request, late, store, writes, acked,
                     condemned, faulted, faults>>
      /\ phase' \in {"new", "listening", "closing", "stopped"}
      /\ cond' \in [Nodes -> {"up", "killed", "down"}]
      /\ \A n \in Nodes : cond'[n] # "up" => cond[n] # "up"
  BY DEF stop, closed, returns, tracker, nodes, broken, IInv, TypeOK
<1>2. TypeOK'
  BY SMTT(30), <1>1 DEF IInv, TypeOK
<1>3. TrackerInv'
  BY SMTT(30), <1>1 DEF IInv, TrackerInv
<1>4. QED
  BY SMTT(30), <1>1, <1>2, <1>3, RequestsUntouched DEF IInv

\* start and the timer send a cycle of polls.
LEMMA PollCycleStep ==
  ASSUME IInv, start \/ timerFires
  PROVE  IInv'
<1>1. /\ pollAll
      /\ phase' \in {"new", "listening", "closing", "stopped"}
      /\ UNCHANGED <<status, missCounts, request, late, cond, store, writes, acked,
                     condemned, faulted, faults>>
  BY DEF start, timerFires, nodes, broken, IInv, TypeOK
<1>2. TrackerInv' /\ polls' \in [Cycles -> [Nodes -> Poll \cup {NoPoll}]]
  BY SMTT(30), <1>1, PollAllStep
<1>3. TypeOK'
  BY <1>1, <1>2 DEF IInv, TypeOK
<1>4. QED
  BY SMTT(30), <1>1, <1>2, <1>3, RequestsUntouched DEF IInv

-----------------------------------------------------------------------------
(* The theorems *)

\* IInv is an invariant.
LEMMA Invariance == Spec => []IInv
<1>1. IInv /\ [Next]_vars => IInv'
  <2> SUFFICES ASSUME IInv, [Next]_vars PROVE IInv'
    OBVIOUS
  <2>1. CASE Next
    BY SMTT(30), <2>1, PollCycleStep, PollAnsweredStep, PollMissedStep, ForwardStep, HandlesStep,
       AnsweredStep, FailedStep, LateStep, BreaksStep, QuietStep DEF Next, Polling
  <2>2. CASE UNCHANGED vars
    <3>1. UNCHANGED <<phase, status, missCounts, polls, request, late, cond, store,
                      writes, acked, condemned, faulted, faults>>
      BY SMTT(30), <2>2 DEF vars, tracker, nodes, broken
    <3>2. TypeOK' /\ TrackerInv'
      BY <3>1 DEF IInv, TypeOK, TrackerInv
    <3>3. QED
      BY <3>1, <3>2, RequestsUntouched DEF IInv
  <2>3. QED
    BY <2>1, <2>2
<1>2. QED
  BY InvInit, <1>1, PTL DEF Spec

\* The variables of the gateway keep their types, for any thresholds.
THEOREM GatewayTypes == Spec => []TypeOK
<1>1. IInv => TypeOK
  BY SMTT(30) DEF IInv
<1>2. QED
  BY <1>1, Invariance, PTL

\* However many polls of a node are outstanding and however late they end,
\* the tracker calls it DEAD only after deadAfterMisses misses in a row.
THEOREM DeadIsEarned == Spec => []DeadEarned
<1>1. IInv => DeadEarned
  BY DEF IInv, TrackerInv, DeadEarned
<1>2. QED
  BY <1>1, Invariance, PTL

\* forwardWithFailover reports a failure only when every candidate has
\* suffered a fault, for any number of candidates and requests.
THEOREM FailoverMasks == Spec => []FaultsMasked
<1>1. IInv => FaultsMasked
  BY DEF IInv
<1>2. QED
  BY <1>1, Invariance, PTL

\* Reads through the gateway see acknowledged writes while the first candidate
\* works, whatever happens to the other nodes and to the polls.
THEOREM ReadsAreFresh == Spec => []ReadYourWrites
<1>1. IInv => ReadYourWrites
  BY DEF IInv
<1>2. QED
  BY <1>1, Invariance, PTL

\* No node handles a request twice, although failover repeats requests whose
\* answer was lost and given-up requests still arrive.
THEOREM RequestsHandledOnce == Spec => HandledOnce
<1>1. IInv => \A r \in Requests :
        /\ request[r].at = "waiting" /\ request[r].answer = "none" =>
             Target(r) \notin request[r].tried
        /\ \A n \in Nodes : <<r, n>> \in late => n \notin request[r].tried
  <2> SUFFICES ASSUME IInv, NEW r \in Requests
               PROVE  /\ request[r].at = "waiting" /\ request[r].answer = "none" =>
                           Target(r) \notin request[r].tried
                      /\ \A n \in Nodes : <<r, n>> \in late => n \notin request[r].tried
    OBVIOUS
  <2>1. request[r].at = "waiting" => Turn(r) \in request[r].todo
    BY SMTT(30), TurnIsFirst DEF IInv, WaitingInv
  <2>2. QED
    BY <2>1 DEF IInv, OnceInv, OnceAt, Target
<1>2. IInv /\ [Next]_vars =>
        [\A r \in Requests :
           /\ nodeHandles(r) /\ cond[Target(r)] = "up" => Target(r) \notin request[r].tried
           /\ \A n \in Nodes : handledLate(r, n) => n \notin request[r].tried]_vars
  BY Zenon, <1>1 DEF nodeHandles, handledLate
<1>3. QED
  BY <1>2, Invariance, PTL DEF Spec, HandledOnce
=============================================================================
