------------------------ MODULE PolicySwitchingProofs ------------------------
(***************************************************************************)
(* For any keys, sample minimum, cooldown and history length: the history  *)
(* is one chain that ends in the active policy, a pinned policy stays, and *)
(* automatic switches keep their distance.                                 *)
(***************************************************************************)
EXTENDS PolicySwitching, TLAPS

-----------------------------------------------------------------------------
(* The inductive invariant *)

\* The counters of a window agree: there are no more samples than operations
\* and no more matches than samples.
WindowInv ==
  /\ monitor.reads + monitor.writes <= MaxWindow
  /\ monitor.samples <= monitor.reads + monitor.writes
  /\ monitor.matches <= monitor.samples

IInv ==
  /\ TypeOK /\ WindowInv /\ HistoryChains /\ PinHolds
  /\ pinned # None => ~autoSwitchEnabled
  /\ sinceSwitch = elapsed

Event == [from : Policies, to : Policies]

-----------------------------------------------------------------------------
(* The operators *)

\* An average that is updated stays among the classes.
LEMMA UpdatesType ==
  ASSUME NEW ema \in 1 .. 3 \cup {None}, NEW v \in 1 .. 3, NEW w \in Updates(ema, v)
  PROVE  w \in 1 .. 3
BY SwitchingAssumption DEF Updates

\* The write ratio of a window is a class.
LEMMA RatioType ==
  ASSUME TypeOK
  PROVE  windowWriteRatio \in 1 .. 3
<1>1. Average(writeRatioEma) \in 1 .. 3
  BY DEF TypeOK, Average
<1>2. RatioClass(monitor.writes, monitor.reads + monitor.writes) \in 1 .. 3
  BY DEF RatioClass
<1>3. QED
  BY <1>1, <1>2 DEF windowWriteRatio

\* computeSignals leaves an empty, well-typed window.
LEMMA SignalsStep ==
  ASSUME TypeOK, NEW s \in Signals, computeSignals(s)
  PROVE  /\ writeRatioEma' \in 1 .. 3
         /\ monitor' \in Monitors
         /\ WindowInv'
<1>1. s.writeRatio \in Updates(writeRatioEma, windowWriteRatio)
  BY DEF Signals
<1>2. s.writeRatio \in 1 .. 3
  BY <1>1, RatioType, UpdatesType DEF TypeOK
<1>3. writeRatioEma' \in 1 .. 3 /\ monitor' = slideWindow(monitor)
  BY <1>2 DEF computeSignals
<1>4. /\ slideWindow(monitor) \in Monitors
      /\ slideWindow(monitor).reads = 0 /\ slideWindow(monitor).writes = 0
      /\ slideWindow(monitor).samples = 0 /\ slideWindow(monitor).matches = 0
  <2>1. 0 \in 0 .. MaxWindow
    BY SwitchingAssumption
  <2>2. \A m \in Monitors :
           /\ slideWindow(m) \in Monitors
           /\ slideWindow(m).reads = 0 /\ slideWindow(m).writes = 0
           /\ slideWindow(m).samples = 0 /\ slideWindow(m).matches = 0
    BY Zenon, <2>1 DEF slideWindow, Monitors
  <2>3. QED
    BY <2>2 DEF TypeOK
<1>5. QED
  BY <1>3, <1>4, SwitchingAssumption DEF WindowInv

\* The rules answer with a policy.
LEMMA DecisionType == \A s : decidePolicy(s) \in Policies
BY DEF decidePolicy, Policies

\* An event pushed onto a chain that it continues gives a chain no longer than
\* allowed, whether or not the oldest event is shifted out.
LEMMA PushedChains ==
  ASSUME NEW h \in Seq(Event), Len(h) <= maxHistoryLength,
         NEW e \in Event, e.from # e.to,
         \A i \in 1 .. Len(h) : h[i].from # h[i].to,
         \A i \in 1 .. Len(h) - 1 : h[i].to = h[i + 1].from,
         h # <<>> => h[Len(h)].to = e.from
  PROVE  /\ Pushed(h, e) \in Seq(Event) /\ Pushed(h, e) # <<>>
         /\ Len(Pushed(h, e)) <= maxHistoryLength
         /\ \A i \in 1 .. Len(Pushed(h, e)) : Pushed(h, e)[i].from # Pushed(h, e)[i].to
         /\ \A i \in 1 .. Len(Pushed(h, e)) - 1 :
              Pushed(h, e)[i].to = Pushed(h, e)[i + 1].from
         /\ Pushed(h, e)[Len(Pushed(h, e))].to = e.to
<1> DEFINE a == Append(h, e)
<1>1. /\ a \in Seq(Event) /\ Len(a) = Len(h) + 1 /\ a # <<>>
      /\ \A i \in 1 .. Len(h) : a[i] = h[i]
      /\ a[Len(h) + 1] = e
  <2>1. a \in Seq(Event) /\ Len(a) = Len(h) + 1
    OBVIOUS
  <2>2. \A i \in 1 .. Len(h) : a[i] = h[i]
    OBVIOUS
  <2>3. a[Len(h) + 1] = e
    OBVIOUS
  <2>4. a # <<>>
    <3> HIDE DEF a
    <3>1. Len(<<>>) = 0 /\ Len(a) # 0
      BY <2>1
    <3>2. QED
      BY <3>1
  <2>5. QED
    BY <2>1, <2>2, <2>3, <2>4
<1>2. /\ \A i \in 1 .. Len(a) : a[i].from # a[i].to
      /\ \A i \in 1 .. Len(a) - 1 : a[i].to = a[i + 1].from
  <2>1. ASSUME NEW i \in 1 .. Len(a) PROVE a[i].from # a[i].to
    <3>1. i \in 1 .. Len(h) \/ i = Len(h) + 1
      BY <1>1
    <3>2. QED
      BY <1>1, <3>1
  <2>2. ASSUME NEW i \in 1 .. Len(a) - 1 PROVE a[i].to = a[i + 1].from
    <3>1. CASE i = Len(h)
      BY <1>1, <3>1
    <3>2. CASE i # Len(h)
      BY <1>1, <3>2
    <3>3. QED
      BY <3>1, <3>2
  <2>3. QED
    BY <2>1, <2>2
<1>3. CASE Len(h) = maxHistoryLength
  <2> DEFINE t == Tail(a)
  <2>1. /\ t \in Seq(Event) /\ Len(t) = Len(h)
        /\ \A i \in 1 .. Len(t) : t[i] = a[i + 1]
    BY <1>1
  <2>2. Len(h) >= 1 /\ t # <<>>
    BY <1>3, <2>1, SwitchingAssumption
  <2>3. Pushed(h, e) = t
    BY <1>3 DEF Pushed
  <2> HIDE DEF t, a
  <2>4. /\ \A i \in 1 .. Len(t) : t[i].from # t[i].to
        /\ \A i \in 1 .. Len(t) - 1 : t[i].to = t[i + 1].from
        /\ t[Len(t)].to = e.to
    BY <1>1, <1>2, <2>1, <2>2
  <2>5. QED
    BY <2>1, <2>2, <2>3, <2>4
<1>4. CASE Len(h) # maxHistoryLength
  <2>1. Pushed(h, e) = a
    BY <1>4 DEF Pushed
  <2> HIDE DEF a
  <2>2. QED
    BY SMTT(30), <1>1, <1>2, <1>4, <2>1, SwitchingAssumption
<1>5. QED
  BY <1>3, <1>4

\* switchTo continues the chain, and both clocks start anew together.
LEMMA SwitchStep ==
  ASSUME IInv, NEW p \in Policies, switchTo(p)
  PROVE  /\ type' = p
         /\ sinceSwitch' \in 0 .. cooldownMs /\ sinceSwitch' = elapsed'
         /\ switchHistory' \in Seq([from : Policies, to : Policies])
         /\ Len(switchHistory') <= maxHistoryLength
         /\ HistoryChains'
<1>1. CASE p = type
  BY <1>1 DEF switchTo, IInv, TypeOK, HistoryChains
<1>2. CASE p # type
  <2> DEFINE e == [from |-> type, to |-> p]
  <2>1. /\ type' = p /\ sinceSwitch' = 0 /\ elapsed' = 0
        /\ switchHistory' = Pushed(switchHistory, e)
    BY <1>2 DEF switchTo
  <2>2. e \in Event /\ e.from = type /\ e.to = p
    BY DEF Event, IInv, TypeOK
  <2> HIDE DEF e
  <2>3. /\ switchHistory \in Seq(Event) /\ Len(switchHistory) <= maxHistoryLength
        /\ switchHistory # <<>> => switchHistory[Len(switchHistory)].to = e.from
        /\ \A i \in 1 .. Len(switchHistory) : switchHistory[i].from # switchHistory[i].to
        /\ \A i \in 1 .. Len(switchHistory) - 1 :
             switchHistory[i].to = switchHistory[i + 1].from
    BY <2>2 DEF IInv, TypeOK, HistoryChains, Event
  <2>4. /\ switchHistory' \in Seq(Event) /\ switchHistory' # <<>>
        /\ Len(switchHistory') <= maxHistoryLength
        /\ \A i \in 1 .. Len(switchHistory') :
             switchHistory'[i].from # switchHistory'[i].to
        /\ \A i \in 1 .. Len(switchHistory') - 1 :
             switchHistory'[i].to = switchHistory'[i + 1].from
        /\ switchHistory'[Len(switchHistory')].to = p
    BY <1>2, <2>1, <2>2, <2>3, PushedChains
  <2>5. QED
    BY <2>1, <2>4, SwitchingAssumption DEF HistoryChains, Event
<1>3. QED
  BY <1>1, <1>2

-----------------------------------------------------------------------------
(* The steps *)

\* The empty history and the empty window satisfy the invariant.
LEMMA InvInit == Init => IInv
<1> SUFFICES ASSUME Init PROVE IInv
  OBVIOUS
<1>1. TypeOK
  <2>1. /\ 0 \in 0 .. minSamplesBeforeSwitch /\ 0 \in 0 .. MaxWindow
        /\ cooldownMs \in 0 .. cooldownMs /\ Len(<<>>) <= maxHistoryLength
    BY SwitchingAssumption
  <2>2. monitor \in Monitors
    BY <2>1 DEF Init, Monitors
  <2>3. switchHistory \in Seq([from : Policies, to : Policies])
    BY DEF Init
  <2>4. autoSwitchEnabled \in BOOLEAN /\ timer \in BOOLEAN /\ pressure \in BOOLEAN
    BY Zenon DEF Init
  <2>5. /\ type \in Policies /\ writeRatioEma = None /\ pinned = None /\ scan = None
        /\ sinceSwitch = cooldownMs /\ elapsed = cooldownMs /\ switchHistory = <<>>
    BY DEF Init, Policies
  <2>6. QED
    BY <2>1, <2>2, <2>3, <2>4, <2>5 DEF TypeOK
<1>2. HistoryChains
  BY DEF Init, HistoryChains
<1>3. QED
  BY <1>1, <1>2, SwitchingAssumption DEF Init, IInv, WindowInv, PinHolds

\* An operation adds to the window what WindowInv allows.
LEMMA AccessStep ==
  ASSUME IInv, NEW n \in Suffixes \cup {NoNumber}, NEW isWrite \in BOOLEAN,
         access(n, isWrite)
  PROVE  IInv'
<1> DEFINE sample == n # NoNumber
           match == sample /\ Follows(n)
<1>1. /\ monitor' = [total |-> UpTo(monitor.total + 1, minSamplesBeforeSwitch),
                     reads |-> monitor.reads + (IF isWrite THEN 0 ELSE 1),
                     writes |-> monitor.writes + (IF isWrite THEN 1 ELSE 0),
                     samples |-> monitor.samples + (IF sample THEN 1 ELSE 0),
                     matches |-> monitor.matches + (IF match THEN 1 ELSE 0),
                     last |-> IF sample THEN n ELSE monitor.last]
      /\ monitor.reads + monitor.writes < MaxWindow
      /\ scan' \in {"scan", "mixed", scan}
      /\ UNCHANGED <<type, autoSwitchEnabled, timer, sinceSwitch, switchHistory,
                     writeRatioEma, pressure, elapsed, pinned>>
  BY DEF access, observeKey
<1>2. /\ monitor.total \in 0 .. minSamplesBeforeSwitch
      /\ monitor.reads \in Nat /\ monitor.writes \in Nat /\ monitor.samples \in Nat
      /\ monitor.matches \in Nat /\ monitor.last \in Suffixes \cup {NoNumber}
  BY DEF IInv, TypeOK, Monitors
<1>3. match => sample
  OBVIOUS
<1> HIDE DEF sample, match
<1>4. UpTo(monitor.total + 1, minSamplesBeforeSwitch) \in 0 .. minSamplesBeforeSwitch
  BY <1>2, SwitchingAssumption DEF UpTo
<1>5. /\ monitor'.reads + monitor'.writes = monitor.reads + monitor.writes + 1
      /\ monitor'.samples <= monitor.samples + 1
      /\ monitor'.matches <= monitor'.samples
      /\ monitor'.reads \in Nat /\ monitor'.writes \in Nat
      /\ monitor'.samples \in Nat /\ monitor'.matches \in Nat
  BY <1>1, <1>2, <1>3 DEF IInv, WindowInv
<1>6. WindowInv'
  BY <1>1, <1>2, <1>5, SwitchingAssumption DEF IInv, WindowInv
<1>7. monitor' \in Monitors
  <2>1. /\ monitor'.reads \in 0 .. MaxWindow /\ monitor'.writes \in 0 .. MaxWindow
        /\ monitor'.samples \in 0 .. MaxWindow /\ monitor'.matches \in 0 .. MaxWindow
    BY <1>5, <1>6, SwitchingAssumption DEF WindowInv
  <2>2. (IF sample THEN n ELSE monitor.last) \in Suffixes \cup {NoNumber}
    BY <1>2
  <2>3. QED
    BY <1>1, <1>4, <2>1, <2>2 DEF Monitors
<1>8. TypeOK' /\ HistoryChains' /\ PinHolds'
  BY <1>1, <1>7 DEF IInv, TypeOK, HistoryChains, PinHolds
<1>9. QED
  BY <1>1, <1>6, <1>8 DEF IInv

\* The timer switches only while no policy is pinned.
LEMMA EvaluateStep ==
  ASSUME IInv, evaluate
  PROVE  IInv'
<1>1. PICK s \in Signals :
        /\ computeSignals(s)
        /\ IF MaySwitch THEN switchTo(decidePolicy(s))
           ELSE UNCHANGED <<type, sinceSwitch, switchHistory, elapsed>>
  BY DEF evaluate
<1>2. /\ writeRatioEma' \in 1 .. 3 /\ monitor' \in Monitors /\ WindowInv'
  BY <1>1, SignalsStep DEF IInv
<1>3. /\ autoSwitchEnabled /\ pinned = None /\ scan' = None
      /\ UNCHANGED <<autoSwitchEnabled, timer, pressure, pinned>>
  BY DEF evaluate, AutoSwitching, IInv
<1>4. /\ type' \in Policies
      /\ sinceSwitch' \in 0 .. cooldownMs /\ sinceSwitch' = elapsed'
      /\ switchHistory' \in Seq([from : Policies, to : Policies])
      /\ Len(switchHistory') <= maxHistoryLength
      /\ HistoryChains'
  <2>1. CASE MaySwitch
    BY Zenon, <1>1, <2>1, DecisionType, SwitchStep
  <2>2. CASE ~MaySwitch
    BY <1>1, <2>2 DEF IInv, TypeOK, HistoryChains
  <2>3. QED
    BY <2>1, <2>2
<1>5. TypeOK'
  BY <1>2, <1>3, <1>4 DEF IInv, TypeOK
<1>6. QED
  BY <1>2, <1>3, <1>4, <1>5 DEF IInv, PinHolds

\* POST /internal/policy switches to what it pins.
LEMMA PinStep ==
  ASSUME IInv, NEW p \in Policies, pinPolicy(p)
  PROVE  IInv'
<1>1. /\ writeRatioEma' \in 1 .. 3 /\ monitor' \in Monitors /\ WindowInv'
  BY SignalsStep DEF pinPolicy, pauseAutoSwitch, forceSwitch, IInv
<1>2. /\ type' = p
      /\ sinceSwitch' \in 0 .. cooldownMs /\ sinceSwitch' = elapsed'
      /\ switchHistory' \in Seq([from : Policies, to : Policies])
      /\ Len(switchHistory') <= maxHistoryLength
      /\ HistoryChains'
  BY Zenon, SwitchStep DEF pinPolicy, pauseAutoSwitch, forceSwitch
<1>3. autoSwitchEnabled' = FALSE /\ pinned' = p /\ UNCHANGED <<timer, pressure, scan>>
  BY DEF pinPolicy, pauseAutoSwitch, forceSwitch
<1>4. TypeOK'
  BY Zenon, <1>1, <1>2, <1>3 DEF IInv, TypeOK
<1>5. QED
  BY <1>1, <1>2, <1>3, <1>4 DEF IInv, PinHolds

\* The steps that neither count traffic nor switch.
LEMMA OtherStep ==
  ASSUME IInv, getSignals \/ resumeAutoSwitch \/ dispose \/ usageChanges \/ Tick
  PROVE  IInv'
<1>1. UNCHANGED <<type, switchHistory>>
  BY DEF getSignals, resumeAutoSwitch, dispose, usageChanges, Tick
<1>2. HistoryChains'
  BY <1>1 DEF IInv, HistoryChains
<1>3. CASE getSignals
  <2>1. writeRatioEma' \in 1 .. 3 /\ monitor' \in Monitors /\ WindowInv'
    BY <1>3, SignalsStep DEF getSignals, IInv
  <2>2. QED
    BY <1>2, <1>3, <2>1 DEF getSignals, IInv, TypeOK, PinHolds
<1>4. CASE resumeAutoSwitch
  BY <1>2, <1>4 DEF resumeAutoSwitch, IInv, TypeOK, WindowInv, PinHolds
<1>5. CASE dispose \/ usageChanges
  <2>1. timer' \in BOOLEAN /\ pressure' \in BOOLEAN
    BY <1>5, Zenon DEF dispose, usageChanges, IInv, TypeOK
  <2>2. UNCHANGED <<type, autoSwitchEnabled, sinceSwitch, switchHistory, monitor,
                    writeRatioEma, elapsed, pinned, scan>>
    BY <1>5 DEF dispose, usageChanges
  <2>3. QED
    BY <1>2, <2>1, <2>2 DEF IInv, TypeOK, WindowInv, PinHolds
<1>6. CASE Tick
  <2>1. sinceSwitch' \in 0 .. cooldownMs /\ elapsed' = sinceSwitch'
    BY <1>6, SwitchingAssumption DEF Tick, UpTo, IInv, TypeOK
  <2>2. QED
    BY <1>2, <1>6, <2>1 DEF Tick, IInv, TypeOK, WindowInv, PinHolds
<1>7. QED
  BY <1>3, <1>4, <1>5, <1>6

-----------------------------------------------------------------------------
(* The theorems *)

\* IInv is an invariant.
LEMMA Invariance == Spec => []IInv
<1>1. IInv /\ [Next]_vars => IInv'
  <2> SUFFICES ASSUME IInv, [Next]_vars PROVE IInv'
    OBVIOUS
  <2>1. CASE Next
    BY <2>1, AccessStep, EvaluateStep, PinStep, OtherStep DEF Next
  <2>2. CASE UNCHANGED vars
    BY <2>2 DEF vars, IInv, TypeOK, WindowInv, HistoryChains, PinHolds
  <2>3. QED
    BY <2>1, <2>2
<1>2. QED
  BY InvInit, <1>1, PTL DEF Spec

\* The variables of the engine and its monitor keep their types, and the
\* history its maximal length.
THEOREM SwitchingTypes == Spec => []TypeOK
<1>1. IInv => TypeOK
  BY DEF IInv
<1>2. QED
  BY <1>1, Invariance, PTL

\* The switch history is a chain of real changes that ends in the active
\* policy, however often it was cut and whoever switched.
THEOREM HistoryIsChain == Spec => []HistoryChains
<1>1. IInv => HistoryChains
  BY DEF IInv
<1>2. QED
  BY <1>1, Invariance, PTL

\* No timer overrides a policy an operator pinned.
THEOREM PinIsKept == Spec => []PinHolds
<1>1. IInv => PinHolds
  BY DEF IInv
<1>2. QED
  BY <1>1, Invariance, PTL

\* Automatic switches keep the cooldown after any switch, forced ones too.
THEOREM SwitchesSpaced == Spec => AutoSpaced
<1>1. IInv /\ [Next]_vars => [evaluate /\ type' # type => elapsed >= cooldownMs]_vars
  BY DEF IInv, evaluate, MaySwitch
<1>2. QED
  BY <1>1, Invariance, PTL DEF Spec, AutoSpaced
=============================================================================
