-------------------------- MODULE PolicySwitching --------------------------
(***************************************************************************)
(* When AdaptiveEvictionEngine switches policies: WorkloadMonitor collects *)
(* traffic, the evaluation timer turns it into signals and the rules of    *)
(* DecisionRules into a policy; operators pin one by POST /internal/policy *)
(* and read the signals by GET /metrics/eviction.                          *)
(*                                                                         *)
(* Ratios are kept as far as the rules tell them apart: the write ratio is *)
(* read-heavy (1), mixed (2) or write-heavy (3), and a moving average lies *)
(* between its old value and the new one.  Frequency skew is left open.    *)
(* The hit rate and the working set are only displayed.  Time is the time  *)
(* since the last switch, which matters up to cooldownMs.                  *)
(***************************************************************************)
EXTENDS Integers, Sequences

CONSTANTS
  Suffixes,                \* trailing numbers of keys
  NoNumber,                \* a key without one; no key seen yet
  None,                    \* no value
  minSamplesBeforeSwitch,
  cooldownMs,
  maxHistoryLength,
  MaxWindow                \* bound on the operations in one window

Policies == {"LRU", "LFU", "TINY_LFU"}

ASSUME SwitchingAssumption ==
  /\ Suffixes \subseteq Int /\ NoNumber \notin Suffixes
  /\ None \notin Policies /\ None \notin 1 .. 3
  /\ {minSamplesBeforeSwitch, cooldownMs, MaxWindow} \subseteq Nat
  /\ maxHistoryLength \in Nat \ {0}

VARIABLES
  type,           \* active.type
  autoSwitchEnabled,
  timer,          \* evaluationTimer is set
  sinceSwitch,    \* now - lastSwitchAt, up to cooldownMs
  switchHistory,  \* events [from, to]
  monitor,        \* the counters of WorkloadMonitor
  writeRatioEma,  \* class of the average, None before the first update
  pressure,       \* memoryUsageRatio >= MEMORY_PRESSURE_THRESHOLD
  elapsed,        \* time since the last event of the history (ghost)
  pinned,         \* the policy the last POST asked for, or None (ghost)
  scan            \* traffic since the last evaluation: None, "scan" while
                  \* each key follows the one before, else "mixed" (ghost)

vars == <<type, autoSwitchEnabled, timer, sinceSwitch, switchHistory, monitor,
          writeRatioEma, pressure, elapsed, pinned, scan>>

Init ==
  /\ type = "LRU"
  /\ autoSwitchEnabled = TRUE /\ timer = TRUE
  /\ sinceSwitch = cooldownMs /\ elapsed = cooldownMs
  /\ switchHistory = <<>>
  /\ monitor = [total |-> 0, reads |-> 0, writes |-> 0, samples |-> 0,
                matches |-> 0, last |-> NoNumber]
  /\ writeRatioEma = None
  /\ pressure = FALSE
  /\ pinned = None /\ scan = None

UpTo(n, bound) == IF n < bound THEN n ELSE bound

-----------------------------------------------------------------------------
(* WorkloadMonitor *)

Follows(n) == monitor.last # NoNumber /\ n - monitor.last \in {1, -1}

\* A hit, a miss or a write of a key with the given trailing number.
observeKey(n, isWrite) ==
  LET sample == n # NoNumber
      match == sample /\ Follows(n)
  IN /\ monitor' =
          [total |-> UpTo(monitor.total + 1, minSamplesBeforeSwitch),
           reads |-> monitor.reads + (IF isWrite THEN 0 ELSE 1),
           writes |-> monitor.writes + (IF isWrite THEN 1 ELSE 0),
           samples |-> monitor.samples + (IF sample THEN 1 ELSE 0),
           matches |-> monitor.matches + (IF match THEN 1 ELSE 0),
           last |-> IF sample THEN n ELSE monitor.last]
     /\ scan' = IF ~sample THEN scan
                ELSE IF match /\ scan # "mixed" THEN "scan" ELSE "mixed"

access(n, isWrite) ==
  /\ monitor.reads + monitor.writes < MaxWindow
  /\ observeKey(n, isWrite)
  /\ UNCHANGED <<type, autoSwitchEnabled, timer, sinceSwitch, switchHistory,
                 writeRatioEma, pressure, elapsed, pinned>>

Average(ema) == IF ema = None THEN 1 ELSE ema

RatioClass(part, total) ==
  IF 10 * part <= 3 * total THEN 1 ELSE IF 10 * part < 6 * total THEN 2 ELSE 3

windowWriteRatio ==
  LET ops == monitor.reads + monitor.writes
  IN IF ops > 0 THEN RatioClass(monitor.writes, ops) ELSE Average(writeRatioEma)

\* Ema.update: the first value itself, then something in between.
Updates(ema, v) ==
  IF ema = None THEN {v} ELSE ema .. v \cup v .. ema

\* computeSignals reads the window and then empties it.
slideWindow(m) == [m EXCEPT !.reads = 0, !.writes = 0, !.samples = 0, !.matches = 0]

Signals ==
  [memoryPressure : {pressure},
   sequential : {monitor.samples > 0 /\ 2 * monitor.matches >= monitor.samples},
   writeRatio : Updates(writeRatioEma, windowWriteRatio),
   skewed : BOOLEAN]

computeSignals(s) ==
  /\ s \in Signals
  /\ writeRatioEma' = s.writeRatio
  /\ monitor' = slideWindow(monitor)

-----------------------------------------------------------------------------
(* DecisionRules and AdaptiveEvictionEngine *)

ScanFirst(s) ==
  IF s.sequential THEN "LRU"
  ELSE IF s.memoryPressure THEN "TINY_LFU"
  ELSE IF s.writeRatio = 1 /\ s.skewed THEN "LFU"
  ELSE IF s.writeRatio = 3 THEN "LRU"
  ELSE "TINY_LFU"
decidePolicy(s) ==
  IF s.memoryPressure THEN "TINY_LFU"
  ELSE IF s.sequential THEN "LRU"
  ELSE IF s.writeRatio = 1 /\ s.skewed THEN "LFU"
  ELSE IF s.writeRatio = 3 THEN "LRU"
  ELSE "TINY_LFU"

\* push, and shift when the history has grown too long.
ShiftsInstead(history, event) ==
  IF Len(history) = maxHistoryLength THEN Tail(history) ELSE Append(history, event)
Pushed(history, event) ==
  IF Len(history) = maxHistoryLength
  THEN Tail(Append(history, event)) ELSE Append(history, event)

KeepsClock(policy) ==
  IF policy = type THEN UNCHANGED <<type, sinceSwitch, switchHistory, elapsed>>
  ELSE /\ type' = policy
       /\ elapsed' = 0
       /\ switchHistory' = Pushed(switchHistory, [from |-> type, to |-> policy])
       /\ UNCHANGED sinceSwitch
switchTo(policy) ==
  IF policy = type THEN UNCHANGED <<type, sinceSwitch, switchHistory, elapsed>>
  ELSE /\ type' = policy
       /\ sinceSwitch' = 0 /\ elapsed' = 0
       /\ switchHistory' = Pushed(switchHistory, [from |-> type, to |-> policy])

\* The tests of evaluate after it has computed the signals.
MaySwitch ==
  /\ monitor.total >= minSamplesBeforeSwitch
  /\ sinceSwitch >= cooldownMs

NoPauseCheck == TRUE
AutoSwitching == autoSwitchEnabled

evaluate ==
  /\ timer
  /\ AutoSwitching
  /\ \E s \in Signals :
       /\ computeSignals(s)
       /\ IF MaySwitch THEN switchTo(decidePolicy(s))
          ELSE UNCHANGED <<type, sinceSwitch, switchHistory, elapsed>>
  /\ scan' = None
  /\ UNCHANGED <<autoSwitchEnabled, timer, pressure, pinned>>

\* GET /metrics/eviction.
getSignals ==
  /\ \E s \in Signals : computeSignals(s)
  /\ UNCHANGED <<type, autoSwitchEnabled, timer, sinceSwitch, switchHistory,
                 pressure, elapsed, pinned, scan>>

pauseAutoSwitch == autoSwitchEnabled' = FALSE

\* No cooldown and no sample count here.
forceSwitch(policy) ==
  /\ \E s \in Signals : computeSignals(s)
  /\ switchTo(policy)

\* POST /internal/policy with a policy.
pinPolicy(policy) ==
  /\ pauseAutoSwitch
  /\ forceSwitch(policy)
  /\ pinned' = policy
  /\ UNCHANGED <<timer, pressure, scan>>

\* POST /internal/policy with ADAPTIVE.
resumeAutoSwitch ==
  /\ autoSwitchEnabled' = TRUE
  /\ pinned' = None
  /\ UNCHANGED <<type, timer, sinceSwitch, switchHistory, monitor,
                 writeRatioEma, pressure, elapsed, scan>>

dispose ==
  /\ timer' = FALSE
  /\ UNCHANGED <<type, autoSwitchEnabled, sinceSwitch, switchHistory, monitor,
                 writeRatioEma, pressure, elapsed, pinned, scan>>

\* The memory the store uses crosses the threshold.
usageChanges ==
  /\ pressure' = ~pressure
  /\ UNCHANGED <<type, autoSwitchEnabled, timer, sinceSwitch, switchHistory,
                 monitor, writeRatioEma, elapsed, pinned, scan>>

Tick ==
  /\ sinceSwitch' = UpTo(sinceSwitch + 1, cooldownMs)
  /\ elapsed' = UpTo(elapsed + 1, cooldownMs)
  /\ UNCHANGED <<type, autoSwitchEnabled, timer, switchHistory, monitor,
                 writeRatioEma, pressure, pinned, scan>>

Next ==
  \/ \E n \in Suffixes \cup {NoNumber}, isWrite \in BOOLEAN : access(n, isWrite)
  \/ evaluate
  \/ getSignals
  \/ \E policy \in Policies : pinPolicy(policy)
  \/ resumeAutoSwitch
  \/ dispose
  \/ usageChanges
  \/ Tick

Spec == Init /\ [][Next]_vars

\* The evaluation timer fires again and again, and time passes.
FairSpec == Spec /\ WF_vars(evaluate) /\ WF_vars(Tick)

-----------------------------------------------------------------------------
(* Properties *)

Monitors == [total : 0 .. minSamplesBeforeSwitch,
             reads : 0 .. MaxWindow, writes : 0 .. MaxWindow,
             samples : 0 .. MaxWindow, matches : 0 .. MaxWindow,
             last : Suffixes \cup {NoNumber}]

\* Every variable has its type.
TypeOK ==
  /\ type \in Policies
  /\ autoSwitchEnabled \in BOOLEAN /\ timer \in BOOLEAN /\ pressure \in BOOLEAN
  /\ sinceSwitch \in 0 .. cooldownMs /\ elapsed \in 0 .. cooldownMs
  /\ switchHistory \in Seq([from : Policies, to : Policies])
  /\ Len(switchHistory) <= maxHistoryLength
  /\ monitor \in Monitors
  /\ writeRatioEma \in 1 .. 3 \cup {None}
  /\ pinned \in Policies \cup {None}
  /\ scan \in {None, "scan", "mixed"}

\* The history tells one story: every event starts from the policy the one
\* before ended with, really changes it, and the last one ends with the
\* active policy, also after old events were dropped.
HistoryChains ==
  /\ \A i \in 1 .. Len(switchHistory) :
       switchHistory[i].from # switchHistory[i].to
  /\ \A i \in 1 .. Len(switchHistory) - 1 :
       switchHistory[i].to = switchHistory[i + 1].from
  /\ type = IF switchHistory = <<>> THEN "LRU" ELSE switchHistory[Len(switchHistory)].to

\* AdaptiveEvictionEngine.ts:44-45: an automatic switch is never closer to the
\* switch before it than the cooldown, whoever made that one.
AutoSpaced == [][evaluate /\ type' # type => elapsed >= cooldownMs]_vars

\* A policy pinned by POST /internal/policy stays active until the next POST,
\* whatever the timer does.
PinHolds == pinned # None => type = pinned

\* If memory stays above the threshold, the engine ends up with TinyLFU and
\* keeps it, however the traffic and the readers of the signals interfere.
PressureAnswered ==
  <>[](pressure /\ autoSwitchEnabled /\ timer
       /\ monitor.total >= minSamplesBeforeSwitch)
    => <>[](type = "TINY_LFU")

\* WorkloadMonitor.ts:10-13: the window exists "so the engine can react to
\* workload shifts (e.g. a batch job doing a sequential scan) within seconds":
\* an evaluation that may switch and follows nothing but a scan chooses LRU.
ScanDetected ==
  [][/\ evaluate /\ MaySwitch
     /\ scan = "scan" /\ ~pressure
     => type' = "LRU"]_vars
=============================================================================
