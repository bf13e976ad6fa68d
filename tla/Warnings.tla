------------------------------ MODULE Warnings ------------------------------
(***************************************************************************)
(* The warnings of the dash for one signal: its thresholds and its         *)
(* freshness (dash_ui/src/backend/warning_evaluator.cpp), the limits and   *)
(* the enabling that may follow other signals (dash_config_store.cpp), and *)
(* the driver, above WarningManager.  Signals are evaluated one after the  *)
(* other and meet in the manager only.                                     *)
(*                                                                         *)
(* Time is counted in ticks of the evaluation timer.  A time stamp is      *)
(* represented by its age in ticks, which stops at MaxAge: the code        *)
(* compares ages with shorter limits.  What happens between two ticks is   *)
(* taken to happen at the tick.  What the code keeps but never reads again *)
(* is not kept: the value of a sample that was not usable, a candidate     *)
(* without a time stamp, a source that is stale or that nothing follows.   *)
(***************************************************************************)
EXTENDS WarningManager

CONSTANTS
  Values,          (* what the signal may measure                          *)
  LimitValues,     (* what the signal behind a limit may say               *)
  Rules,           (* Rules[kind]: the rules that are configured           *)
  Presentations,   (* what else may be configured of the signal            *)
  StaleAfter,      (* freshness: staleAfterMs,                             *)
  StaleDelay,      (* activationDelayMs,                                   *)
  FreshDelay,      (* and clearDelayMs                                     *)
  StaleSeverity,   (* and severity                                         *)
  SourceStale,     (* sourceStaleMs of the limit and of the control signal *)
  MaxAge           (* bound: ages                                          *)

LowKinds == {"low_warning", "low_caution"}
HighKinds == {"high_caution", "high_warning"}
WarningKinds == {"low_warning", "high_warning"}
Kinds == LowKinds \cup HighKinds

(* A limit is constant or follows a signal, then perhaps with a fallback.  *)
Rule == [source : {"value", "signal"}, value : Int, fallback : BOOLEAN,
         hysteresis : Nat, activationDelay : Nat, clearDelay : Nat]

(* Has the signal a freshness rule, and a condition on a control signal    *)
(* for its enabling, with which fallback?                                  *)
Presentation == [freshness : BOOLEAN, enabledWhen : BOOLEAN, fallback : BOOLEAN]

ASSUME WarningsAssumption ==
  /\ Presentations \subseteq Presentation
  /\ Values \subseteq Int /\ LimitValues \subseteq Int
  /\ DOMAIN Rules \subseteq Kinds /\ \A kind \in DOMAIN Rules : Rules[kind] \in Rule
  /\ {StaleAfter, StaleDelay, FreshDelay, SourceStale, MaxAge} \subseteq Nat
  /\ StaleSeverity \in Severities
  /\ \A kind \in DOMAIN Rules :
       MaxAge >= Rules[kind].activationDelay /\ MaxAge >= Rules[kind].clearDelay
  /\ MaxAge > StaleAfter + StaleDelay /\ MaxAge >= FreshDelay

ASSUME IdsAssumption == {"threshold", "freshness"} \subseteq Ids \ Demos

VARIABLES
  presentation,(* what is configured: read once, before the first sample   *)
  latest,      (* latestValues_: value, valid, age of the receipt; with a  *)
               (* freshness rule as not received if it was received before *)
               (* the signal was enabled, as it then counts for nothing    *)
  state,       (* states_                                                  *)
  freshness,   (* freshnessStates_                                         *)
  dynamic,     (* dynamicValues_ of the limit and of the control signal    *)
  config,      (* resolvedEnabled, and the limits that could be resolved   *)
  due,         (* has the evaluation timer to run before the next tick?    *)
  breach,      (* history: breach[kind], since when every evaluation has   *)
               (* found the value beyond this warning limit                *)
  calm         (* history: since when no evaluation has found it within    *)
               (* the hysteresis of the limit of the present warning       *)

codeVars == <<presentation, manager, latest, state, freshness, dynamic, config>>
vars == <<codeVars, due, breach, calm>>

Normal == 0
Caution == 1
Critical == 2
Never == -1

(* States without a candidate. *)
InLevel(level, kind) == [current |-> level, kind |-> kind, candidate |-> Normal,
                         candidateKind |-> "high_caution", since |-> Never]
NoState == InLevel(Normal, "high_caution")
Fresh(stale, age) ==
  [active |-> stale, candidateStale |-> FALSE, since |-> Never, enabled |-> age]
NoFreshness == Fresh(FALSE, Never)
NotReceived == [value |-> CHOOSE v \in Values : TRUE, valid |-> FALSE, age |-> Never]

-----------------------------------------------------------------------------
(* DashConfigStore::recompute *)

(* Stale sources are represented as never received. *)
Follows(source) == source.age # Never
NoSource(value) == [value |-> value, age |-> Never]

Resolvable(dyn) ==
  {kind \in DOMAIN Rules :
     Rules[kind].source = "signal" => Follows(dyn.limit) \/ Rules[kind].fallback}

Limit(kind, dyn) ==
  IF Rules[kind].source = "signal" /\ Follows(dyn.limit) THEN dyn.limit.value
  ELSE Rules[kind].value

Crossed(low, high, dyn) ==
  {low, high} \subseteq Resolvable(dyn) /\ Limit(low, dyn) > Limit(high, dyn)

(* Without a condition the warnings are always enabled, and with one as    *)
(* its fallback says while nothing is heard of the control signal.         *)
Enabled(dyn) ==
  IF ~presentation.enabledWhen THEN TRUE
  ELSE IF Follows(dyn.control) THEN dyn.control.value
  ELSE presentation.fallback

(* Limits in the wrong order are not used.                                 *)
Recompute(dyn) ==
  LET unusable ==
        (IF Crossed("low_warning", "low_caution", dyn) THEN LowKinds ELSE {})
          \cup
        (IF Crossed("high_caution", "high_warning", dyn) THEN HighKinds ELSE {})
  IN  [enabled |-> Enabled(dyn),
       resolved |-> [kind \in Resolvable(dyn) \ unusable |-> Limit(kind, dyn)]]

-----------------------------------------------------------------------------
(* WarningEvaluator *)

Breached(resolved, kind, value, slack) ==
  /\ kind \in DOMAIN resolved
  /\ IF kind \in LowKinds THEN value <= resolved[kind] + slack
                          ELSE value >= resolved[kind] - slack

LowFirst(kinds) == IF kinds \cap LowKinds # {} THEN CHOOSE kind \in kinds : kind \in LowKinds
                   ELSE CHOOSE kind \in kinds : TRUE

(* Faulty: the present warning keeps its hysteresis when it gets worse. *)
DesiredKeeping(resolved, st, value) ==
  LET beyond == {kind \in Kinds : Breached(resolved, kind, value, 0)}
  IN  IF /\ st.current # Normal
         /\ Breached(resolved, st.kind, value, Rules[st.kind].hysteresis)
      THEN [level |-> st.current, kind |-> st.kind]
      ELSE IF beyond \cap WarningKinds # {}
      THEN [level |-> Critical, kind |-> LowFirst(beyond \cap WarningKinds)]
      ELSE IF beyond # {} THEN [level |-> Caution, kind |-> LowFirst(beyond)]
      ELSE [level |-> Normal, kind |-> "high_caution"]

(* desiredState *)
Desired(resolved, st, value) ==
  LET beyond == {kind \in Kinds : Breached(resolved, kind, value, 0)}
  IN  IF beyond \cap WarningKinds # {}
      THEN [level |-> Critical, kind |-> LowFirst(beyond \cap WarningKinds)]
      ELSE IF /\ st.current # Normal
              /\ Breached(resolved, st.kind, value, Rules[st.kind].hysteresis)
      THEN [level |-> st.current, kind |-> st.kind]
      ELSE IF beyond # {} THEN [level |-> Caution, kind |-> LowFirst(beyond)]
      ELSE [level |-> Normal, kind |-> "high_caution"]

(* The delay starts anew with every change of the candidate. *)
Candidate(st, desired) ==
  IF \/ st.since = Never
     \/ st.candidate # desired.level \/ st.candidateKind # desired.kind
  THEN [st EXCEPT !.candidate = desired.level, !.candidateKind = desired.kind, !.since = 0]
  ELSE st

(* Faulty: a warning is taken back without delay. *)
DelayToRaise(st, desired) ==
  IF desired.level > st.current THEN Rules[desired.kind].activationDelay ELSE 0

Delay(st, desired) ==
  IF desired.level > st.current THEN Rules[desired.kind].activationDelay
  ELSE IF st.current # Normal THEN Rules[st.kind].clearDelay
  ELSE 0

Commit(m, level) ==
  IF level = Normal THEN ClearWarning(m, "threshold")
  ELSE RaiseWarning(m, "threshold", IF level = Critical THEN "critical" ELSE "warning")

(* The second half of evaluateSignal. *)
EvaluateThreshold(lat, conf, m) ==
  LET desired == Desired(conf.resolved, state, lat.value)
      waiting == Candidate(state, desired)
  IN  IF /\ desired.level = state.current
         /\ desired.level = Normal \/ desired.kind = state.kind
      THEN [state |-> InLevel(state.current, state.kind), manager |-> m]
      ELSE IF waiting.since >= Delay(state, desired)
      THEN [state |-> InLevel(desired.level, desired.kind),
            manager |-> Commit(m, desired.level)]
      ELSE [state |-> waiting, manager |-> m]

(* How long the signal has been silent while enabled. *)
Silence(fresh, lat) == IF lat.age = Never THEN fresh.enabled ELSE lat.age

EvaluateFreshness(fresh, lat) ==
  LET stale == Silence(fresh, lat) > StaleAfter
      waiting == IF fresh.since = Never \/ fresh.candidateStale # stale
                 THEN [fresh EXCEPT !.candidateStale = stale, !.since = 0]
                 ELSE fresh
  IN  IF ~presentation.freshness THEN [freshness |-> fresh, manager |-> manager]
      ELSE IF stale = fresh.active
      THEN [freshness |-> Fresh(stale, fresh.enabled), manager |-> manager]
      ELSE IF waiting.since < (IF stale THEN StaleDelay ELSE FreshDelay)
      THEN [freshness |-> waiting, manager |-> manager]
      ELSE [freshness |-> Fresh(stale, fresh.enabled),
            manager |-> IF stale THEN RaiseWarning(manager, "freshness", StaleSeverity)
                        ELSE ClearWarning(manager, "freshness")]

(* Faulty: the freshness warning of a signal outlives its enabling. *)
WithdrawThreshold(m) == ClearWarning(m, "threshold")

Withdraw(m) == ClearWarning(ClearWarning(m, "threshold"), "freshness")

(* evaluateSignal, with what has been received.  Only with a freshness     *)
(* rule is what was received before the enabling left alone.               *)
EvaluateSignal(lat, conf) ==
  IF ~conf.enabled
  THEN /\ manager' = Withdraw(manager)
       /\ latest' = IF presentation.freshness THEN NotReceived ELSE lat
       /\ state' = NoState /\ freshness' = NoFreshness
  ELSE LET known == IF presentation.freshness /\ freshness.enabled = Never
                    THEN NotReceived ELSE lat
           first == EvaluateFreshness(
                      IF freshness.enabled = Never THEN [freshness EXCEPT !.enabled = 0]
                      ELSE freshness, known)
           second == EvaluateThreshold(known, conf, first.manager)
       IN  /\ latest' = known /\ freshness' = first.freshness
           /\ state' = IF known.valid THEN second.state ELSE state
           /\ manager' = IF known.valid THEN second.manager ELSE first.manager

-----------------------------------------------------------------------------
(* History *)

(* Beyond both warning limits, as limits that move may have it, the value  *)
(* is too low: the two have delays of their own.                           *)
Counts(lat, conf, kind) ==
  /\ conf.enabled /\ lat.valid
  /\ Breached(conf.resolved, kind, lat.value, 0)
  /\ kind = "high_warning" => ~Breached(conf.resolved, "low_warning", lat.value, 0)
Calm(lat, conf, st) ==
  /\ st.current # Normal
  /\ lat.valid => ~Breached(conf.resolved, st.kind, lat.value, Rules[st.kind].hysteresis)

(* Of every evaluation, after what it does. *)
Observe ==
  /\ breach' = [kind \in WarningKinds |->
       IF Counts(latest', config', kind) THEN AtLeastZero(breach[kind]) ELSE Never]
  /\ calm' = IF ~Calm(latest', config', state') THEN Never
             ELSE IF state'.kind = state.kind THEN AtLeastZero(calm) ELSE 0

-----------------------------------------------------------------------------
Init ==
  /\ presentation \in Presentations
  /\ ManagerInit
  /\ latest = NotReceived
  /\ state = NoState /\ freshness = NoFreshness
  /\ dynamic = [limit |-> NoSource(CHOOSE v \in LimitValues : TRUE),
                control |-> NoSource(FALSE)]
  /\ config = Recompute(dynamic)
  /\ due = FALSE
  /\ breach = [kind \in WarningKinds |-> Never] /\ calm = Never

(* Evaluations are up to a tick late. *)
EvaluationTimer ==
  /\ due
  /\ due' = FALSE
  /\ EvaluateSignal(latest, config)
  /\ UNCHANGED <<presentation, dynamic, config>>
  /\ Observe

(* A batch of samples reaches the store, then the evaluator.  Each number  *)
(* has the store resolve all limits again.                                 *)
SamplesAvailable(lat, dyn, conf) ==
  /\ dynamic' = dyn /\ config' = conf
  /\ EvaluateSignal(lat, conf)
  /\ UNCHANGED <<presentation, due>>
  /\ Observe

Measurement(value) ==
  SamplesAvailable([value |-> value, valid |-> TRUE, age |-> 0], dynamic, Recompute(dynamic))
(* A sample that is no number. *)
Unusable == SamplesAvailable([NotReceived EXCEPT !.age = 0], dynamic, config)

SourceSample(dyn) == SamplesAvailable(latest, dyn, Recompute(dyn))
LimitSample(value) == SourceSample([dynamic EXCEPT !.limit = [value |-> value, age |-> 0]])
ControlSample(on) ==
  SourceSample(IF presentation.enabledWhen
               THEN [dynamic EXCEPT !.control = [value |-> on, age |-> 0]] ELSE dynamic)

FreshnessTimer ==
  /\ config # Recompute(dynamic)
  /\ config' = Recompute(dynamic)
  /\ UNCHANGED <<presentation, manager, latest, state, freshness, dynamic, due, breach, calm>>

Older(age) == IF age = Never THEN Never ELSE UpTo(MaxAge, age + 1)
OlderSource(source, none) ==
  IF source.age \in {Never, SourceStale} THEN none ELSE [source EXCEPT !.age = @ + 1]

Tick ==
  /\ ~due
  /\ due' = TRUE
  /\ latest' = [latest EXCEPT !.age = Older(@)]
  /\ state' = [state EXCEPT !.since = Older(@)]
  /\ freshness' = [freshness EXCEPT !.since = Older(@), !.enabled = Older(@)]
  /\ dynamic' = [limit |-> OlderSource(dynamic.limit, NoSource(CHOOSE v \in LimitValues : TRUE)),
                 control |-> OlderSource(dynamic.control, NoSource(FALSE))]
  /\ breach' = [kind \in WarningKinds |-> Older(breach[kind])] /\ calm' = Older(calm)
  /\ UNCHANGED <<presentation, manager, config>>

ActionTriggered(action) ==
  /\ HandleAction(action)
  /\ UNCHANGED <<presentation, latest, state, freshness, dynamic, config, due, breach, calm>>

Next ==
  \/ Tick \/ EvaluationTimer \/ FreshnessTimer \/ Unusable
  \/ \E value \in Values : Measurement(value)
  \/ \E value \in LimitValues : LimitSample(value)
  \/ \E on \in BOOLEAN : ControlSample(on)
  \/ \E action \in Actions : ActionTriggered(action)

Spec == Init /\ [][Next]_vars

-----------------------------------------------------------------------------
(* Properties *)

Listed(m, id, severity) ==
  \E i \in DOMAIN m.warnings : m.warnings[i].id = id /\ m.warnings[i].severity = severity

(* The list of warnings and what the evaluation takes for active never     *)
(* part, though they are kept apart and change in different places, over   *)
(* delays, disabling, limits that move and acknowledgements.               *)
ListedAsEvaluated ==
  /\ Holds(manager.warnings, "threshold") <=> state.current # Normal
  /\ state.current # Normal =>
       Listed(manager, "threshold", IF state.current = Critical THEN "critical" ELSE "warning")
  /\ Holds(manager.warnings, "freshness") <=> freshness.active
  /\ freshness.active => Listed(manager, "freshness", StaleSeverity)

(* A value that has been beyond a warning limit for the activation delay,  *)
(* and if beyond both was so beyond the low one, is warned of; so is a     *)
(* signal with a freshness rule that has been silent for longer than its   *)
(* limit and delay, whatever was active or pending before and however the  *)
(* samples, the timers and the limits interleaved.                         *)
WarnedInTime ==
  ~due => /\ \A kind \in WarningKinds \cap DOMAIN Rules :
               breach[kind] >= Rules[kind].activationDelay => state.current = Critical
          /\ presentation.freshness /\ config.enabled
             /\ Silence(freshness, latest) > StaleAfter + StaleDelay
               => freshness.active

(* A warning that is not disabled is taken back only after the value has   *)
(* been back from the limit, by the hysteresis, for the clear delay; a     *)
(* time without usable values counts as if it had been.                    *)
ClearedOnlyWhenCalm ==
  [][(state.current # Normal /\ state'.current = Normal /\ config'.enabled)
       => AtLeastZero(calm) >= Rules[state.kind].clearDelay]_vars

(* A warning is silenced only by the driver and only after it was shown,   *)
(* as severe as it now is: not by a warning that takes its place in the    *)
(* list or on the screen, not by getting worse or by coming back.          *)
SilencedAsShown ==
  [][\A i \in DOMAIN manager'.warnings :
       LET warning == manager'.warnings[i]
       IN  warning.acknowledged =>
             \/ \E j \in DOMAIN manager.warnings :
                  /\ manager.warnings[j].id = warning.id
                  /\ manager.warnings[j].acknowledged
                  /\ Rank[manager.warnings[j].severity] >= Rank[warning.severity]
             \/ /\ OverlayVisible(manager)
                /\ Shown(manager) = [warning EXCEPT !.acknowledged = FALSE]]_vars
=============================================================================
