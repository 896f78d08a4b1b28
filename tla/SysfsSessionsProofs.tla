------------------------- MODULE SysfsSessionsProofs -------------------------
(***************************************************************************)
(* Proofs about the sysfs sessions, for every number of sessions and every  *)
(* set of requests: types, who is to unexport a channel, what the writes of *)
(* a call make of the channel, and that the sessions are those of           *)
(* lemnos-bus.                                                             *)
(***************************************************************************)
EXTENDS SysfsSessions, TLAPS

Calls == IF kind = "pwm" THEN PwmCalls ELSE LineCalls

\* A call that may write belongs to a session that may write.
WritersMayWrite ==
    \A s \in Sessions : call[s] # NoCall /\ call[s].step # "level" => CanWrite(s)

-----------------------------------------------------------------------------
(* The steps of calls                                                       *)

\* What a call may do in one step, pwm and gpio alike: begin, end, go on, or
\* write.
CallStep(s) ==
    \/ \E c \in Calls : BeginCall(s, c) /\ (c.step # "level" => CanWrite(s))
    \/ \E outcome \in {"idle", "faulted"} : call[s] # NoCall /\ FinishCall(s, outcome)
    \/ \E c \in Calls : /\ call[s] # NoCall /\ call[s].step # "level"
                        /\ Advance(s, c)
                        /\ c.step # "level"
    \/ \E c \in Calls, files \in PwmConfigurations \cup Lines :
          /\ call[s] # NoCall /\ call[s].step # "level"
          /\ kind = "pwm" => files \in PwmConfigurations
          /\ kind = "gpio" => files \in Lines
          /\ c.step # "level"
          /\ Write(s, files, c)

\* The type of a call tells its fields.
LEMMA CallFields ==
    ASSUME NEW c \in PwmCalls
    PROVE  /\ c.sole \in BOOLEAN
           /\ c.step \in {"adjust", "apply", "write", "enable", "enabled"}
           /\ c.step = "adjust" => c.file \in {"period", "duty_cycle"} /\ c.value \in Nat
           /\ c.step = "apply" => c.target \in PwmConfigurations
           /\ c.step = "write" => /\ c.current \in PwmConfigurations
                                  /\ c.target \in PwmConfigurations
                                  /\ c.stage \in 1 .. 6
                                  /\ c = [step |-> "write", current |-> c.current,
                                          target |-> c.target, stage |-> c.stage,
                                          sole |-> c.sole]
           /\ c.step = "enable" => c.value \in BOOLEAN
BY DEF PwmCalls

LEMMA LineCallFields ==
    ASSUME NEW c \in LineCalls
    PROVE  /\ c.sole \in BOOLEAN
           /\ c.step \in {"level", "direction", "value", "driven", "line"}
           /\ c.step \in {"direction", "value"} => c.level \in {"0", "1"}
           /\ c.step = "line" => /\ c.target \in LineConfigurations
                                 /\ c.stage \in 1 .. 4
                                 /\ c = [step |-> "line", target |-> c.target,
                                         stage |-> c.stage, sole |-> c.sole]
BY DEF LineCalls

\* A call that is disturbed keeps everything but sole.
LEMMA DisturbedCall ==
    ASSUME NEW c \in Calls
    PROVE  /\ [c EXCEPT !.sole = FALSE] \in Calls
           /\ [c EXCEPT !.sole = FALSE].step = c.step
           /\ [c EXCEPT !.sole = FALSE].sole = FALSE
<1>1. CASE kind = "pwm"
  BY <1>1 DEF Calls, PwmCalls
<1>2. CASE kind # "pwm"
  BY <1>2 DEF Calls, LineCalls
<1>. QED  BY <1>1, <1>2
-----------------------------------------------------------------------------
(* The writes of apply_configuration                                        *)

\* The next write is one of the five, and those before it are not needed.
LEMMA NextStageIsNeeded ==
    ASSUME NEW c, c.stage \in 1 .. 6, StillNeeded(c) # {}
    PROVE  /\ NextStage(c) \in StillNeeded(c)
           /\ NextStage(c) \in c.stage .. 5
           /\ \A j \in StillNeeded(c) : NextStage(c) <= j
<1>. DEFINE S == StillNeeded(c)
<1>1. S \subseteq 1 .. 5
  BY DEF StillNeeded
<1>. HIDE DEF S
<1>2. \E k \in S : \A j \in S : k <= j
  <2>1. CASE 1 \in S
    BY <1>1, <2>1
  <2>2. CASE 1 \notin S /\ 2 \in S
    BY <1>1, <2>2
  <2>3. CASE 1 \notin S /\ 2 \notin S /\ 3 \in S
    BY <1>1, <2>3
  <2>4. CASE 1 \notin S /\ 2 \notin S /\ 3 \notin S /\ 4 \in S
    BY <1>1, <2>4
  <2>5. CASE S \subseteq {5}
    BY <1>1, <2>5 DEF S
  <2>. QED  BY <1>1, <2>1, <2>2, <2>3, <2>4, <2>5
<1>3. NextStage(c) \in S /\ \A j \in S : NextStage(c) <= j
  BY <1>2 DEF NextStage, S
<1>. QED  BY <1>3 DEF S, StillNeeded

PeriodStage(c, t) == IF ExpandPeriodFirst(c, t) THEN 2 ELSE 3
DutyStage(c, t) == IF ExpandPeriodFirst(c, t) THEN 3 ELSE 2

\* What the writes before stage k make of configuration c on the way to t.
AfterWrites(c, t, k) ==
    [period |-> IF k > PeriodStage(c, t) THEN t.period ELSE c.period,
     duty_cycle |-> IF k > DutyStage(c, t) THEN t.duty_cycle ELSE c.duty_cycle,
     enabled |-> \/ k > 5 /\ t.enabled
                 \/ k <= 5 /\ c.enabled /\ (k > 1 => ~ NeedsDisable(c, t)),
     polarity |-> IF k > 4 THEN t.polarity ELSE c.polarity]

\* A stage is that of a file of its own.
LEMMA StageCases ==
    ASSUME NEW c, NEW t, NEW k \in 1 .. 5
    PROVE  /\ k \in {1, 4, 5} \/ k = PeriodStage(c, t) \/ k = DutyStage(c, t)
           /\ \/ PeriodStage(c, t) = 2 /\ DutyStage(c, t) = 3
              \/ PeriodStage(c, t) = 3 /\ DutyStage(c, t) = 2
BY DEF PeriodStage, DutyStage

\* File, value and need of the write of each stage.
LEMMA FirstWrite ==
    ASSUME NEW c, NEW t
    PROVE  /\ Writes(c, t)[1].file = "enabled" /\ Writes(c, t)[1].value = FALSE
           /\ Writes(c, t)[1].needed = NeedsDisable(c, t)
BY DEF Writes, FileWrite

LEMMA PeriodWrite ==
    ASSUME NEW c, NEW t
    PROVE  LET w == Writes(c, t)[PeriodStage(c, t)]
           IN  w.file = "period" /\ w.value = t.period /\ w.needed = (c.period # t.period)
<1>1. CASE ExpandPeriodFirst(c, t)
  BY <1>1 DEF Writes, FileWrite, TimingOrder, PeriodStage
<1>2. CASE ~ ExpandPeriodFirst(c, t)
  BY <1>2 DEF Writes, FileWrite, TimingOrder, PeriodStage
<1>. QED  BY <1>1, <1>2

LEMMA DutyWrite ==
    ASSUME NEW c, NEW t
    PROVE  LET w == Writes(c, t)[DutyStage(c, t)]
           IN  /\ w.file = "duty_cycle" /\ w.value = t.duty_cycle
               /\ w.needed = (c.duty_cycle # t.duty_cycle)
<1>1. CASE ExpandPeriodFirst(c, t)
  BY <1>1 DEF Writes, FileWrite, TimingOrder, DutyStage
<1>2. CASE ~ ExpandPeriodFirst(c, t)
  BY <1>2 DEF Writes, FileWrite, TimingOrder, DutyStage
<1>. QED  BY <1>1, <1>2

LEMMA PolarityWrite ==
    ASSUME NEW c, NEW t
    PROVE  /\ Writes(c, t)[4].file = "polarity" /\ Writes(c, t)[4].value = t.polarity
           /\ Writes(c, t)[4].needed = (c.polarity # t.polarity)
BY DEF Writes, FileWrite

LEMMA LastWrite ==
    ASSUME NEW c, NEW t
    PROVE  /\ Writes(c, t)[5].file = "enabled" /\ Writes(c, t)[5].value = t.enabled
           /\ Writes(c, t)[5].needed = (NeedsDisable(c, t) \/ c.enabled # t.enabled)
BY DEF Writes, FileWrite

LEMMA FileOfStage ==
    ASSUME NEW c, NEW t, NEW k \in 1 .. 5
    PROVE  LET w == Writes(c, t)[k]
           IN  /\ k \in {1, 5} => w.file = "enabled"
               /\ k = PeriodStage(c, t) => w.file = "period"
               /\ k = DutyStage(c, t) => w.file = "duty_cycle"
               /\ k = 4 => w.file = "polarity"
<1>1. k \in {1, 5} => Writes(c, t)[k].file = "enabled"
  <2>1. Writes(c, t)[1].file = "enabled" /\ Writes(c, t)[5].file = "enabled"
    BY FirstWrite, LastWrite
  <2>. QED  BY <2>1
<1>2. Writes(c, t)[4].file = "polarity"
  BY PolarityWrite
<1>3. /\ Writes(c, t)[PeriodStage(c, t)].file = "period"
      /\ Writes(c, t)[DutyStage(c, t)].file = "duty_cycle"
  BY PeriodWrite, DutyWrite
<1>. QED  BY <1>1, <1>2, <1>3

\* A write changes its file.
LEMMA WrittenFile ==
    ASSUME NEW a \in PwmConfigurations, NEW w
    PROVE  /\ w.file = "period" /\ w.value \in Nat =>
                  Written(a, w) = [period |-> w.value, duty_cycle |-> a.duty_cycle,
                                   enabled |-> a.enabled, polarity |-> a.polarity]
           /\ w.file = "duty_cycle" /\ w.value \in Nat =>
                  Written(a, w) = [period |-> a.period, duty_cycle |-> w.value,
                                   enabled |-> a.enabled, polarity |-> a.polarity]
           /\ w.file = "enabled" /\ w.value \in BOOLEAN =>
                  Written(a, w) = [period |-> a.period, duty_cycle |-> a.duty_cycle,
                                   enabled |-> w.value, polarity |-> a.polarity]
           /\ w.file = "polarity" /\ w.value \in Polarities =>
                  Written(a, w) = [period |-> a.period, duty_cycle |-> a.duty_cycle,
                                   enabled |-> a.enabled, polarity |-> w.value]
<1>1. CASE w.file = "period"
  <2>1. Written(a, w) = [a EXCEPT !.period = w.value]
    BY <1>1 DEF Written
  <2>. QED  BY <1>1, <2>1 DEF PwmConfigurations
<1>2. CASE w.file = "duty_cycle"
  <2>1. Written(a, w) = [a EXCEPT !.duty_cycle = w.value]
    BY <1>2 DEF Written
  <2>. QED  BY <1>2, <2>1 DEF PwmConfigurations
<1>3. CASE w.file = "enabled"
  <2>1. Written(a, w) = [a EXCEPT !.enabled = w.value]
    BY <1>3 DEF Written
  <2>. QED  BY <1>3, <2>1 DEF PwmConfigurations
<1>4. CASE w.file = "polarity"
  <2>1. Written(a, w) = [a EXCEPT !.polarity = w.value]
    BY <1>4 DEF Written
  <2>. QED  BY <1>4, <2>1 DEF PwmConfigurations
<1>. QED  BY <1>1, <1>2, <1>3, <1>4

\* A write has a value of the type of its file.
LEMMA WriteType ==
    ASSUME NEW c \in PwmConfigurations, NEW t \in PwmConfigurations, NEW k \in 1 .. 5
    PROVE  LET w == Writes(c, t)[k]
           IN  \/ w.file = "enabled" /\ w.value \in BOOLEAN
               \/ w.file = "period" /\ w.value \in Nat
               \/ w.file = "duty_cycle" /\ w.value \in Nat
               \/ w.file = "polarity" /\ w.value \in Polarities
<1>1. t.enabled \in BOOLEAN /\ t.period \in Nat /\ t.duty_cycle \in Nat
      /\ t.polarity \in Polarities
  BY DEF PwmConfigurations
<1>2. CASE k = 1
  BY <1>2, FirstWrite
<1>3. CASE k = PeriodStage(c, t)
  BY <1>1, <1>3, PeriodWrite
<1>4. CASE k = DutyStage(c, t)
  BY <1>1, <1>4, DutyWrite
<1>5. CASE k = 4
  BY <1>1, <1>5, PolarityWrite
<1>6. CASE k = 5
  BY <1>1, <1>6, LastWrite
<1>. QED  BY <1>2, <1>3, <1>4, <1>5, <1>6, StageCases

\* Each write keeps the type of the configuration.
LEMMA WrittenType ==
    ASSUME NEW a \in PwmConfigurations, NEW w,
           \/ w.file = "enabled" /\ w.value \in BOOLEAN
           \/ w.file = "period" /\ w.value \in Nat
           \/ w.file = "duty_cycle" /\ w.value \in Nat
           \/ w.file = "polarity" /\ w.value \in Polarities
    PROVE  Written(a, w) \in PwmConfigurations
<1>1. CASE w.file = "enabled" /\ w.value \in BOOLEAN
  BY <1>1, WrittenFile DEF PwmConfigurations
<1>2. CASE w.file = "period" /\ w.value \in Nat
  BY <1>2, WrittenFile DEF PwmConfigurations
<1>3. CASE w.file = "duty_cycle" /\ w.value \in Nat
  BY <1>3, WrittenFile DEF PwmConfigurations
<1>4. CASE w.file = "polarity" /\ w.value \in Polarities
  BY <1>4, WrittenFile DEF PwmConfigurations
<1>. QED  BY <1>1, <1>2, <1>3, <1>4

\* Configurations with the same fields are the same.
LEMMA SameFields ==
    ASSUME NEW a \in PwmConfigurations, NEW b \in PwmConfigurations,
           a.period = b.period, a.duty_cycle = b.duty_cycle,
           a.enabled <=> b.enabled, a.polarity = b.polarity
    PROVE  a = b
BY DEF PwmConfigurations

LEMMA AfterType ==
    ASSUME NEW c \in PwmConfigurations, NEW t \in PwmConfigurations, NEW k \in 1 .. 6
    PROVE  AfterWrites(c, t, k) \in PwmConfigurations
BY DEF AfterWrites, PwmConfigurations

\* What a stage changes.
LEMMA StageChanges ==
    ASSUME NEW c \in PwmConfigurations, NEW t \in PwmConfigurations, NEW k \in 1 .. 5
    PROVE  LET a == AfterWrites(c, t, k)
               b == AfterWrites(c, t, k + 1)
           IN  /\ IF k = PeriodStage(c, t) THEN a.period = c.period /\ b.period = t.period
                  ELSE b.period = a.period
               /\ IF k = DutyStage(c, t)
                  THEN a.duty_cycle = c.duty_cycle /\ b.duty_cycle = t.duty_cycle
                  ELSE b.duty_cycle = a.duty_cycle
               /\ IF k = 4 THEN a.polarity = c.polarity /\ b.polarity = t.polarity
                  ELSE b.polarity = a.polarity
               /\ k \notin {1, 5} => (b.enabled <=> a.enabled)
               /\ k = 1 => /\ a.enabled <=> c.enabled
                           /\ b.enabled <=> c.enabled /\ ~ NeedsDisable(c, t)
               /\ k = 5 => /\ ~ NeedsDisable(c, t) => (a.enabled <=> c.enabled)
                           /\ b.enabled <=> t.enabled
<1>1. DutyStage(c, t) \in {2, 3} /\ PeriodStage(c, t) \in {2, 3}
  BY DEF DutyStage, PeriodStage
<1>. DEFINE a == AfterWrites(c, t, k)
            b == AfterWrites(c, t, k + 1)
<1>2. IF k = PeriodStage(c, t) THEN a.period = c.period /\ b.period = t.period
      ELSE b.period = a.period
  BY <1>1 DEF AfterWrites
<1>3. IF k = DutyStage(c, t) THEN a.duty_cycle = c.duty_cycle /\ b.duty_cycle = t.duty_cycle
      ELSE b.duty_cycle = a.duty_cycle
  BY <1>1 DEF AfterWrites
<1>4. IF k = 4 THEN a.polarity = c.polarity /\ b.polarity = t.polarity
      ELSE b.polarity = a.polarity
  BY DEF AfterWrites
<1>5. k \notin {1, 5} => (b.enabled <=> a.enabled)
  BY DEF AfterWrites
<1>6. k = 1 => /\ a.enabled <=> c.enabled
               /\ b.enabled <=> c.enabled /\ ~ NeedsDisable(c, t)
  BY DEF AfterWrites
<1>7. k = 5 => /\ ~ NeedsDisable(c, t) => (a.enabled <=> c.enabled)
               /\ b.enabled <=> t.enabled
  BY DEF AfterWrites
<1>. QED  BY <1>2, <1>3, <1>4, <1>5, <1>6, <1>7

\* What a write changes, field by field.
LEMMA WrittenFields ==
    ASSUME NEW a \in PwmConfigurations, NEW w
    PROVE  /\ w.file = "period" /\ w.value \in Nat =>
                  /\ Written(a, w).period = w.value
                  /\ Written(a, w).duty_cycle = a.duty_cycle
                  /\ Written(a, w).enabled <=> a.enabled
                  /\ Written(a, w).polarity = a.polarity
           /\ w.file = "duty_cycle" /\ w.value \in Nat =>
                  /\ Written(a, w).period = a.period
                  /\ Written(a, w).duty_cycle = w.value
                  /\ Written(a, w).enabled <=> a.enabled
                  /\ Written(a, w).polarity = a.polarity
           /\ w.file = "enabled" /\ w.value \in BOOLEAN =>
                  /\ Written(a, w).period = a.period
                  /\ Written(a, w).duty_cycle = a.duty_cycle
                  /\ Written(a, w).enabled <=> w.value
                  /\ Written(a, w).polarity = a.polarity
           /\ w.file = "polarity" /\ w.value \in Polarities =>
                  /\ Written(a, w).period = a.period
                  /\ Written(a, w).duty_cycle = a.duty_cycle
                  /\ Written(a, w).enabled <=> a.enabled
                  /\ Written(a, w).polarity = w.value
BY WrittenFile

\* A write that is needed leads from its stage to the next.
LEMMA WriteLeadsOn ==
    ASSUME NEW c \in PwmConfigurations, NEW t \in PwmConfigurations, NEW k \in 1 .. 5,
           Writes(c, t)[k].needed
    PROVE  Written(AfterWrites(c, t, k), Writes(c, t)[k]) = AfterWrites(c, t, k + 1)
<1>. DEFINE a == AfterWrites(c, t, k)
            b == AfterWrites(c, t, k + 1)
            w == Writes(c, t)[k]
            x == Written(a, w)
<1>1. a \in PwmConfigurations /\ b \in PwmConfigurations
  BY AfterType
<1>2. x \in PwmConfigurations
  BY <1>1, WriteType, WrittenType
<1>3. /\ t.enabled \in BOOLEAN /\ t.period \in Nat /\ t.duty_cycle \in Nat
      /\ t.polarity \in Polarities
  BY DEF PwmConfigurations
<1>4. /\ PeriodStage(c, t) \in {2, 3} /\ DutyStage(c, t) \in {2, 3}
      /\ PeriodStage(c, t) # DutyStage(c, t)
  BY DEF PeriodStage, DutyStage
<1>5. CASE k = 1
  <2>1. w.file = "enabled" /\ w.value = FALSE /\ NeedsDisable(c, t)
    BY <1>5, FirstWrite
  <2>2. /\ x.period = a.period /\ x.duty_cycle = a.duty_cycle
        /\ x.polarity = a.polarity /\ ~ x.enabled
    BY <1>1, <2>1, WrittenFields
  <2>3. /\ b.period = a.period /\ b.duty_cycle = a.duty_cycle
        /\ b.polarity = a.polarity /\ ~ b.enabled
    BY <1>4, <1>5, <2>1, StageChanges
  <2>. QED  BY <1>1, <1>2, <2>2, <2>3, SameFields
<1>6. CASE k = PeriodStage(c, t)
  <2>1. w.file = "period" /\ w.value = t.period
    BY <1>6, PeriodWrite
  <2>2. /\ x.period = t.period /\ x.duty_cycle = a.duty_cycle
        /\ x.polarity = a.polarity /\ (x.enabled <=> a.enabled)
    BY <1>1, <1>3, <2>1, WrittenFields
  <2>3. /\ b.period = t.period /\ b.duty_cycle = a.duty_cycle
        /\ b.polarity = a.polarity /\ (b.enabled <=> a.enabled)
    BY <1>4, <1>6, StageChanges
  <2>. QED  BY <1>1, <1>2, <2>2, <2>3, SameFields
<1>7. CASE k = DutyStage(c, t)
  <2>1. w.file = "duty_cycle" /\ w.value = t.duty_cycle
    BY <1>7, DutyWrite
  <2>2. /\ x.period = a.period /\ x.duty_cycle = t.duty_cycle
        /\ x.polarity = a.polarity /\ (x.enabled <=> a.enabled)
    BY <1>1, <1>3, <2>1, WrittenFields
  <2>3. /\ b.period = a.period /\ b.duty_cycle = t.duty_cycle
        /\ b.polarity = a.polarity /\ (b.enabled <=> a.enabled)
    BY <1>4, <1>7, StageChanges
  <2>. QED  BY <1>1, <1>2, <2>2, <2>3, SameFields
<1>8. CASE k = 4
  <2>1. w.file = "polarity" /\ w.value = t.polarity
    BY <1>8, PolarityWrite
  <2>2. /\ x.period = a.period /\ x.duty_cycle = a.duty_cycle
        /\ x.polarity = t.polarity /\ (x.enabled <=> a.enabled)
    BY <1>1, <1>3, <2>1, WrittenFields
  <2>3. /\ b.period = a.period /\ b.duty_cycle = a.duty_cycle
        /\ b.polarity = t.polarity /\ (b.enabled <=> a.enabled)
    BY <1>4, <1>8, StageChanges
  <2>. QED  BY <1>1, <1>2, <2>2, <2>3, SameFields
<1>9. CASE k = 5
  <2>1. w.file = "enabled" /\ w.value = t.enabled
    BY <1>9, LastWrite
  <2>2. /\ x.period = a.period /\ x.duty_cycle = a.duty_cycle
        /\ x.polarity = a.polarity /\ (x.enabled <=> t.enabled)
    BY <1>1, <1>3, <2>1, WrittenFields
  <2>3. /\ b.period = a.period /\ b.duty_cycle = a.duty_cycle
        /\ b.polarity = a.polarity /\ (b.enabled <=> t.enabled)
    BY <1>4, <1>9, StageChanges
  <2>. QED  BY <1>1, <1>2, <2>2, <2>3, SameFields
<1>. QED  BY <1>5, <1>6, <1>7, <1>8, <1>9, StageCases

\* A write that is not needed would change nothing.
LEMMA UnneededStage ==
    ASSUME NEW c \in PwmConfigurations, NEW t \in PwmConfigurations, NEW k \in 1 .. 5,
           ~ Writes(c, t)[k].needed
    PROVE  AfterWrites(c, t, k + 1) = AfterWrites(c, t, k)
<1>. DEFINE a == AfterWrites(c, t, k)
            b == AfterWrites(c, t, k + 1)
<1>1. a \in PwmConfigurations /\ b \in PwmConfigurations
  BY AfterType
<1>2. c.enabled \in BOOLEAN /\ t.enabled \in BOOLEAN
  BY DEF PwmConfigurations
<1>3. /\ k = PeriodStage(c, t) => c.period = t.period
      /\ k = DutyStage(c, t) => c.duty_cycle = t.duty_cycle
      /\ k = 4 => c.polarity = t.polarity
  BY PeriodWrite, DutyWrite, PolarityWrite
<1>4. /\ b.period = a.period /\ b.duty_cycle = a.duty_cycle
      /\ b.polarity = a.polarity
  BY <1>3, StageChanges
<1>5. /\ k = 1 => ~ NeedsDisable(c, t)
      /\ k = 5 => ~ NeedsDisable(c, t) /\ c.enabled = t.enabled
  BY FirstWrite, LastWrite
<1>6. b.enabled <=> a.enabled
  BY <1>2, <1>5, StageChanges
<1>. QED  BY <1>1, <1>4, <1>6, SameFields

\* Stages whose writes are not needed can be skipped.
LEMMA SkippedStages ==
    ASSUME NEW c \in PwmConfigurations, NEW t \in PwmConfigurations,
           NEW i \in 1 .. 6, NEW j \in i .. 6,
           \A k \in i .. 5 : k < j => ~ Writes(c, t)[k].needed
    PROVE  AfterWrites(c, t, j) = AfterWrites(c, t, i)
<1>1. \A k \in 1 .. 5 : i <= k /\ k < j => AfterWrites(c, t, k + 1) = AfterWrites(c, t, k)
  BY UnneededStage
<1>2. /\ i <= 1 /\ 1 < j => AfterWrites(c, t, 2) = AfterWrites(c, t, 1)
      /\ i <= 2 /\ 2 < j => AfterWrites(c, t, 3) = AfterWrites(c, t, 2)
      /\ i <= 3 /\ 3 < j => AfterWrites(c, t, 4) = AfterWrites(c, t, 3)
      /\ i <= 4 /\ 4 < j => AfterWrites(c, t, 5) = AfterWrites(c, t, 4)
      /\ i <= 5 /\ 5 < j => AfterWrites(c, t, 6) = AfterWrites(c, t, 5)
  BY <1>1
<1>. QED  BY <1>2

\* The kernel accepts the write of a stage.
LEMMA WriteAccepted ==
    ASSUME NEW c \in PwmConfigurations, NEW t \in PwmConfigurations, NEW k \in 1 .. 5,
           c.duty_cycle <= c.period, ValidPwm(t), Writes(c, t)[k].needed
    PROVE  KernelAccepts(AfterWrites(c, t, k), Writes(c, t)[k])
<1>. DEFINE a == AfterWrites(c, t, k)
            b == AfterWrites(c, t, k + 1)
            w == Writes(c, t)[k]
<1>1. Written(a, w) = b
  BY WriteLeadsOn
<1>2. /\ c.enabled \in BOOLEAN /\ t.enabled \in BOOLEAN
      /\ c.period \in Nat /\ t.period \in Nat
      /\ c.duty_cycle \in Nat /\ t.duty_cycle \in Nat
      /\ t.duty_cycle <= t.period /\ t.period > 0
  BY DEF PwmConfigurations, ValidPwm
<1>3. b.duty_cycle <= b.period
  <2>1. CASE ExpandPeriodFirst(c, t)
    <3>1. t.period > c.period
      BY <1>2, <2>1 DEF ExpandPeriodFirst
    <3>. QED  BY <1>2, <2>1, <3>1 DEF AfterWrites, PeriodStage, DutyStage
  <2>2. CASE ~ ExpandPeriodFirst(c, t)
    <3>1. t.period <= c.period /\ t.duty_cycle <= c.period
      BY <1>2, <2>2 DEF ExpandPeriodFirst
    <3>. QED  BY <1>2, <2>2, <3>1 DEF AfterWrites, PeriodStage, DutyStage
  <2>. QED  BY <2>1, <2>2
<1>4. w.file = "polarity" => ~ a.enabled
  <2>1. SUFFICES ASSUME w.file = "polarity" PROVE ~ a.enabled
    OBVIOUS
  <2>2. k = 4
    BY <2>1, FileOfStage, StageCases
  <2>3. c.polarity # t.polarity
    BY <2>2, PolarityWrite
  <2>4. c.enabled => NeedsDisable(c, t)
    BY <2>3 DEF NeedsDisable
  <2>. QED  BY <1>2, <2>2, <2>4 DEF AfterWrites
<1>5. w.file = "enabled" /\ w.value => a.period > 0
  <2>1. SUFFICES ASSUME w.file = "enabled" /\ w.value PROVE a.period > 0
    OBVIOUS
  <2>2. k = 5
    <3>1. k # 1
      BY <2>1, FirstWrite
    <3>. QED  BY <2>1, <3>1, FileOfStage, StageCases
  <2>3. a.period = t.period
    BY <2>2 DEF AfterWrites, PeriodStage
  <2>. QED  BY <1>2, <2>3
<1>. QED  BY <1>1, <1>3, <1>4, <1>5 DEF KernelAccepts

\* After all stages the target is reached, before the first nothing is changed.
LEMMA FirstAndLast ==
    ASSUME NEW c \in PwmConfigurations, NEW t \in PwmConfigurations
    PROVE  AfterWrites(c, t, 1) = c /\ AfterWrites(c, t, 6) = t
<1>1. /\ AfterWrites(c, t, 1) \in PwmConfigurations
      /\ AfterWrites(c, t, 6) \in PwmConfigurations
  BY AfterType
<1>2. c.enabled \in BOOLEAN /\ t.enabled \in BOOLEAN
  BY DEF PwmConfigurations
<1>3. PeriodStage(c, t) \in {2, 3} /\ DutyStage(c, t) \in {2, 3}
  BY DEF PeriodStage, DutyStage
<1>4. AfterWrites(c, t, 1) = c
  <2>. DEFINE a == AfterWrites(c, t, 1)
  <2>1. a.period = c.period /\ a.duty_cycle = c.duty_cycle /\ a.polarity = c.polarity
    BY <1>3 DEF AfterWrites
  <2>2. a.enabled <=> c.enabled
    BY <1>2 DEF AfterWrites
  <2>. QED  BY <1>1, <2>1, <2>2, SameFields
<1>5. AfterWrites(c, t, 6) = t
  <2>. DEFINE a == AfterWrites(c, t, 6)
  <2>1. a.period = t.period /\ a.duty_cycle = t.duty_cycle /\ a.polarity = t.polarity
    BY <1>3 DEF AfterWrites
  <2>2. a.enabled <=> t.enabled
    BY <1>2 DEF AfterWrites
  <2>. QED  BY <1>1, <2>1, <2>2, SameFields
<1>. QED  BY <1>4, <1>5

\* A channel that is enabled between two writes runs one of the two.
LEMMA EnabledIsWhole ==
    ASSUME NEW c \in PwmConfigurations, NEW t \in PwmConfigurations, NEW k \in 1 .. 6,
           AfterWrites(c, t, k).enabled
    PROVE  AfterWrites(c, t, k) \in {c, t}
<1>1. c.enabled \in BOOLEAN /\ t.enabled \in BOOLEAN
  BY DEF PwmConfigurations
<1>2. k = 6 \/ (c.enabled /\ (k > 1 => ~ NeedsDisable(c, t)))
  BY <1>1 DEF AfterWrites
<1>3. k = 1 \/ k = 6 => AfterWrites(c, t, k) \in {c, t}
  <2>1. AfterWrites(c, t, 1) = c /\ AfterWrites(c, t, 6) = t
    BY FirstAndLast
  <2>. QED  BY <2>1
<1>4. CASE c = t
  <2>1. \A j \in 1 .. 5 : ~ Writes(c, t)[j].needed
    <3>1. ~ NeedsDisable(c, t)
      BY <1>4 DEF NeedsDisable
    <3>2. /\ ~ Writes(c, t)[1].needed /\ ~ Writes(c, t)[4].needed
          /\ ~ Writes(c, t)[5].needed
      BY <1>4, <3>1, FirstWrite, PolarityWrite, LastWrite
    <3>3. /\ ~ Writes(c, t)[PeriodStage(c, t)].needed
          /\ ~ Writes(c, t)[DutyStage(c, t)].needed
      BY <1>4, PeriodWrite, DutyWrite
    <3>. QED  BY <3>2, <3>3, StageCases
  <2>2. AfterWrites(c, t, 6) = AfterWrites(c, t, k)
    BY <2>1, SkippedStages
  <2>. QED  BY <2>2, FirstAndLast
<1>. QED  BY <1>2, <1>3, <1>4 DEF NeedsDisable

-----------------------------------------------------------------------------
(* Every step of a call is one of the few kinds of step                     *)

LEMMA PwmStepOfCall ==
    ASSUME SysfsTypeOK, NEW s \in Sessions, PwmNext(s)
    PROVE  CallStep(s)
<1>1. /\ kind = "pwm" /\ Calls = PwmCalls
      /\ attributes \in PwmConfigurations
  BY DEF PwmNext, PwmStep, ReadTarget, ReadCurrent, WriteStage, Applied, WriteEnable,
         PwmCallFails, BeginPwmCall, InStep, Calls, SysfsTypeOK, PwmConfigurations, Lines
<1>2. call[s] # NoCall => call[s] \in PwmCalls
  BY <1>1 DEF SysfsTypeOK
<1>3. ASSUME NEW r \in PwmRequests[s], BeginPwmCall(s, r)
      PROVE  CallStep(s)
  <2>. DEFINE c == CASE r.call = "configure" -> Applying(r.target)
                     [] r.call = "adjust" -> Adjusting(r)
                     [] r.call = "enable" -> Enabling(r.value)
  <2>1. BeginCall(s, c) /\ CanWrite(s)
    BY <1>3 DEF BeginPwmCall
  <2>2. c \in PwmCalls
    <3>1. CASE r.call = "configure" /\ r.target \in PwmConfigurations
      BY <3>1 DEF Applying, PwmCalls
    <3>2. CASE r.call = "adjust" /\ r.file \in {"period", "duty_cycle"} /\ r.value \in Nat
      BY <3>2 DEF Adjusting, PwmCalls
    <3>3. CASE r.call = "enable" /\ r.value \in BOOLEAN
      BY <3>3 DEF Enabling, PwmCalls
    <3>. QED  BY <3>1, <3>2, <3>3, PwmRequestAssumption
  <2>. QED  BY <1>1, <2>1, <2>2 DEF CallStep
<1>4. ASSUME ReadTarget(s)
      PROVE  CallStep(s)
  <2>. DEFINE t == [attributes EXCEPT ![call[s].file] = call[s].value]
  <2>1. /\ call[s] # NoCall /\ call[s].step = "adjust" /\ Advance(s, Applying(t))
    BY <1>4 DEF ReadTarget, InStep
  <2>2. call[s].file \in {"period", "duty_cycle"} /\ call[s].value \in Nat
    BY <1>2, <2>1, CallFields
  <2>3. t \in PwmConfigurations
    <3>1. CASE call[s].file = "period"
      BY <1>1, <2>2, <3>1 DEF PwmConfigurations
    <3>2. CASE call[s].file = "duty_cycle"
      BY <1>1, <2>2, <3>2 DEF PwmConfigurations
    <3>. QED  BY <2>2, <3>1, <3>2
  <2>4. Applying(t) \in PwmCalls /\ Applying(t).step = "apply"
    BY <2>3 DEF Applying, PwmCalls
  <2>. QED  BY <1>1, <2>1, <2>4 DEF CallStep
<1>5. ASSUME ReadCurrent(s)
      PROVE  CallStep(s)
  <2>. DEFINE c == Writing(attributes, call[s].target, 1)
  <2>1. /\ call[s] # NoCall /\ call[s].step = "apply" /\ Advance(s, c)
    BY <1>5 DEF ReadCurrent, InStep
  <2>2. call[s].target \in PwmConfigurations
    BY <1>2, <2>1, CallFields
  <2>3. c \in PwmCalls /\ c.step = "write"
    BY <1>1, <2>2 DEF Writing, PwmCalls
  <2>. QED  BY <1>1, <2>1, <2>3 DEF CallStep
<1>6. ASSUME WriteStage(s)
      PROVE  CallStep(s)
  <2>. DEFINE w == NextWrite(call[s])
              n == NextStage(call[s])
              c == [call[s] EXCEPT !.stage = n + 1]
  <2>1. /\ call[s] # NoCall /\ call[s].step = "write" /\ StillNeeded(call[s]) # {}
        /\ Write(s, Written(attributes, w), c)
    BY <1>6 DEF WriteStage, InStep
  <2>2. /\ call[s].current \in PwmConfigurations /\ call[s].target \in PwmConfigurations
        /\ call[s].stage \in 1 .. 6
    BY <1>2, <2>1, CallFields
  <2>3. n \in 1 .. 5
    BY <2>1, <2>2, NextStageIsNeeded
  <2>4. Written(attributes, w) \in PwmConfigurations
    BY <1>1, <2>2, <2>3, WriteType, WrittenType DEF NextWrite
  <2>5. c \in PwmCalls /\ c.step = "write"
    <3>. HIDE DEF n
    <3>. QED  BY <1>2, <2>1, <2>3 DEF PwmCalls
  <2>. QED  BY <1>1, <2>1, <2>4, <2>5 DEF CallStep
<1>7. ASSUME WriteEnable(s)
      PROVE  CallStep(s)
  <2>. DEFINE w == FileWrite("enabled", call[s].value, TRUE)
  <2>1. /\ call[s] # NoCall /\ call[s].step = "enable"
        /\ Write(s, Written(attributes, w), Enabled)
    BY <1>7 DEF WriteEnable, InStep
  <2>2. call[s].value \in BOOLEAN
    BY <1>2, <2>1, CallFields
  <2>3. w.file = "enabled" /\ w.value \in BOOLEAN
    BY <2>2 DEF FileWrite
  <2>4. Written(attributes, w) \in PwmConfigurations
    BY <1>1, <2>3, WrittenType
  <2>5. Enabled \in PwmCalls /\ Enabled.step = "enabled"
    BY DEF Enabled, PwmCalls
  <2>. QED  BY <1>1, <2>1, <2>4, <2>5 DEF CallStep
<1>8. ASSUME Applied(s) \/ PwmCallFails(s)
      PROVE  CallStep(s)
  BY <1>8 DEF Applied, PwmCallFails, InStep, CallStep, SysfsTypeOK
<1>. QED  BY <1>3, <1>4, <1>5, <1>6, <1>7, <1>8 DEF PwmNext, PwmStep

\* The contents of a line's files stay of their kind.
LEMMA LineWrittenType ==
    ASSUME NEW line \in Lines, NEW t \in LineConfigurations, NEW k \in 1 .. 3
    PROVE  LineWritten(line, t, k) \in Lines
<1>1. CASE k = 1
  BY <1>1 DEF LineWritten, Lines, LineConfigurations
<1>2. CASE k = 2
  <2>1. Redirected(line, t) \in Lines
    BY DEF Redirected, Lines, LineConfigurations, NoLevel
  <2>. QED  BY <1>2, <2>1 DEF LineWritten
<1>3. CASE k = 3
  BY <1>3 DEF LineWritten, Lines, LineConfigurations
<1>. QED  BY <1>1, <1>2, <1>3

LEMMA LineStepOfCall ==
    ASSUME SysfsTypeOK, NEW s \in Sessions, GpioNext(s)
    PROVE  CallStep(s)
<1>1. /\ kind = "gpio" /\ Calls = LineCalls
      /\ attributes \in Lines
  BY DEF GpioNext, GpioStep, ReadLevel, ReadDirection, WriteLevel, WriteLine, LineCallEnds,
         LineCallFails, BeginLineCall, InLineCall, Calls, SysfsTypeOK
<1>2. call[s] # NoCall => call[s] \in LineCalls
  BY <1>1 DEF SysfsTypeOK
<1>3. ASSUME NEW r \in GpioRequests[s], BeginLineCall(s, r)
      PROVE  CallStep(s)
  <2>. DEFINE c == CASE r.call = "read" -> [step |-> "level", sole |-> FALSE]
                     [] r.call = "write" ->
                           [step |-> "direction", level |-> r.level, sole |-> FALSE]
                     [] r.call = "configure" ->
                           [step |-> "line", target |-> r.target, stage |-> 1, sole |-> TRUE]
  <2>1. BeginCall(s, c) /\ (r.call # "read" => CanWrite(s))
    BY <1>3 DEF BeginLineCall
  <2>2. CASE r.call = "read"
    <3>1. c \in LineCalls /\ c.step = "level"
      BY <2>2 DEF LineCalls
    <3>. QED  BY <1>1, <2>1, <3>1 DEF CallStep
  <2>3. CASE r.call = "write" /\ r.level \in {"0", "1"}
    <3>1. c \in LineCalls /\ CanWrite(s)
      BY <2>1, <2>3 DEF LineCalls
    <3>. QED  BY <1>1, <2>1, <3>1 DEF CallStep
  <2>4. CASE r.call = "configure" /\ r.target \in LineConfigurations
    <3>1. c \in LineCalls /\ CanWrite(s)
      BY <2>1, <2>4 DEF LineCalls
    <3>. QED  BY <1>1, <2>1, <3>1 DEF CallStep
  <2>. QED  BY <2>2, <2>3, <2>4, GpioRequestAssumption
<1>4. ASSUME ReadDirection(s)
      PROVE  CallStep(s)
  <2>. DEFINE c == [step |-> "value", level |-> call[s].level, sole |-> FALSE]
  <2>1. call[s] # NoCall /\ call[s].step = "direction" /\ Advance(s, c)
    BY <1>4 DEF ReadDirection, InLineCall
  <2>2. c \in LineCalls /\ c.step = "value"
    BY <1>2, <2>1, LineCallFields DEF LineCalls
  <2>. QED  BY <1>1, <2>1, <2>2 DEF CallStep
<1>5. ASSUME WriteLevel(s)
      PROVE  CallStep(s)
  <2>. DEFINE line == [attributes EXCEPT !.raw = Logical(attributes, call[s].level)]
  <2>1. call[s] # NoCall /\ call[s].step = "value" /\ Write(s, line, Driven)
    BY <1>5 DEF WriteLevel, InLineCall
  <2>2. line \in Lines
    BY <1>1, <1>2, <2>1, LineCallFields DEF Lines, Logical
  <2>3. Driven \in LineCalls /\ Driven.step = "driven"
    BY DEF Driven, LineCalls
  <2>. QED  BY <1>1, <2>1, <2>2, <2>3 DEF CallStep
<1>6. ASSUME WriteLine(s)
      PROVE  CallStep(s)
  <2>. DEFINE c == [call[s] EXCEPT !.stage = @ + 1]
              line == LineWritten(attributes, call[s].target, call[s].stage)
  <2>1. /\ call[s] # NoCall /\ call[s].step = "line" /\ call[s].stage <= 3
        /\ Write(s, line, c)
    BY <1>6 DEF WriteLine, InLineCall
  <2>2. call[s].target \in LineConfigurations /\ call[s].stage \in 1 .. 3
    BY <1>2, <2>1, LineCallFields
  <2>3. line \in Lines
    BY <1>1, <2>2, LineWrittenType
  <2>4. c \in LineCalls /\ c.step = "line"
    BY <1>2, <2>1, <2>2 DEF LineCalls
  <2>. QED  BY <1>1, <2>1, <2>3, <2>4 DEF CallStep
<1>7. ASSUME ReadLevel(s) \/ LineCallEnds(s) \/ LineCallFails(s)
      PROVE  CallStep(s)
  BY <1>7 DEF ReadLevel, LineCallEnds, LineCallFails, InLineCall, CallStep, SysfsTypeOK
<1>. QED  BY <1>3, <1>4, <1>5, <1>6, <1>7 DEF GpioNext, GpioStep

-----------------------------------------------------------------------------
(* Types                                                                    *)

\* What others write is noticed by every call.
LEMMA DisturbType ==
    ASSUME NEW calls \in [Sessions -> {NoCall} \cup Calls]
    PROVE  /\ Disturb(calls) \in [Sessions -> {NoCall} \cup Calls]
           /\ \A t \in Sessions :
                 /\ (Disturb(calls)[t] = NoCall) <=> (calls[t] = NoCall)
                 /\ calls[t] # NoCall => /\ Disturb(calls)[t].step = calls[t].step
                                         /\ ~ Disturb(calls)[t].sole
<1>1. NoCall \notin Calls
  BY CallAssumption DEF Calls
<1>2. \A c \in Calls : /\ [c EXCEPT !.sole = FALSE] \in Calls
                        /\ [c EXCEPT !.sole = FALSE].step = c.step
                        /\ [c EXCEPT !.sole = FALSE].sole = FALSE
  BY DisturbedCall
<1>. QED  BY <1>1, <1>2 DEF Disturb

LEMMA SysfsTypeStep ==
    SysfsTypeOK /\ WritersMayWrite /\ [Next]_sysfsVars => SysfsTypeOK' /\ WritersMayWrite'
<1>. SUFFICES ASSUME SysfsTypeOK, WritersMayWrite, [Next]_sysfsVars
              PROVE  SysfsTypeOK' /\ WritersMayWrite'
  OBVIOUS
<1>. USE DEF SysfsTypeOK, WritersMayWrite
<1>1. /\ NoCall \notin Calls
      /\ call \in [Sessions -> {NoCall} \cup Calls]
      /\ kind' = kind => Calls' = Calls
  BY CallAssumption DEF Calls
<1>2. ASSUME NEW s \in Sessions, CallStep(s)
      PROVE  SysfsTypeOK' /\ WritersMayWrite'
  <2>1. ASSUME NEW c \in Calls, BeginCall(s, c), c.step # "level" => CanWrite(s)
        PROVE  SysfsTypeOK' /\ WritersMayWrite'
    BY <1>1, <2>1 DEF BeginCall, EnsureOpen, CanWrite, channelVars, Calls
  <2>2. ASSUME NEW outcome \in {"idle", "faulted"}, FinishCall(s, outcome)
        PROVE  SysfsTypeOK' /\ WritersMayWrite'
    BY <1>1, <2>2 DEF FinishCall, CanWrite, channelVars, Calls
  <2>3. ASSUME NEW c \in Calls, call[s] # NoCall, call[s].step # "level", Advance(s, c)
        PROVE  SysfsTypeOK' /\ WritersMayWrite'
    BY <1>1, <2>3 DEF Advance, CanWrite, channelVars, Calls
  <2>4. ASSUME NEW c \in Calls, NEW files \in PwmConfigurations \cup Lines,
               call[s] # NoCall, call[s].step # "level", Write(s, files, c),
               kind = "pwm" => files \in PwmConfigurations,
               kind = "gpio" => files \in Lines
        PROVE  SysfsTypeOK' /\ WritersMayWrite'
    <3>. DEFINE d == Disturb(call)
    <3>1. /\ d \in [Sessions -> {NoCall} \cup Calls]
          /\ \A t \in Sessions : /\ (d[t] = NoCall) <=> (call[t] = NoCall)
                                 /\ call[t] # NoCall => d[t].step = call[t].step
      BY <1>1, DisturbType
    <3>2. call' = [d EXCEPT ![s] = c] /\ attributes' = files
          /\ UNCHANGED <<kind, channel, state, access, exported_by_session, unowned>>
      BY <2>4 DEF Write
    <3>. HIDE DEF d
    <3>3. /\ call' \in [Sessions -> {NoCall} \cup Calls]
          /\ \A t \in Sessions : (call'[t] = NoCall) <=> (call[t] = NoCall)
      <4>1. call[s] # NoCall /\ c # NoCall /\ c \in Calls
        BY <1>1, <2>4
      <4>. HIDE DEF SysfsTypeOK, WritersMayWrite
      <4>2. call' \in [Sessions -> {NoCall} \cup Calls]
        BY <3>1, <3>2, <4>1
      <4>3. ASSUME NEW t \in Sessions
            PROVE  (call'[t] = NoCall) <=> (call[t] = NoCall)
        <5>1. CASE t = s
          BY <3>1, <3>2, <4>1, <5>1
        <5>2. CASE t # s
          BY <3>1, <3>2, <5>2
        <5>. QED  BY <5>1, <5>2
      <4>. QED  BY <4>2, <4>3
    <3>4. SysfsTypeOK'
      <4>1. call' \in [Sessions -> {NoCall} \cup Calls']
        BY <1>1, <3>2, <3>3
      <4>2. \A t \in Sessions : state'[t] = "busy" <=> call'[t] # NoCall
        BY <3>2, <3>3
      <4>3. \/ kind' = "pwm" /\ attributes' \in PwmConfigurations
            \/ kind' = "gpio" /\ attributes' \in Lines
        BY <2>4, <3>2
      <4>4. Calls' = (IF kind' = "pwm" THEN PwmCalls ELSE LineCalls)
        BY DEF Calls
      <4>5. /\ UNCHANGED <<channel, access, exported_by_session, unowned>>
            /\ state' \in [Sessions -> {"none", "idle", "busy", "faulted", "closed"} \cup Opening]
        BY <3>2
      <4>. HIDE DEF WritersMayWrite
      <4>. QED  BY <4>1, <4>2, <4>3, <4>4, <4>5
    <3>5. CanWrite(s)
      BY <2>4
    <3>6. WritersMayWrite'
      BY <2>4, <3>1, <3>2, <3>3, <3>5 DEF CanWrite
    <3>. QED  BY <3>4, <3>6
  <2>. QED  BY <1>2, <2>1, <2>2, <2>3, <2>4 DEF CallStep
<1>3. ASSUME NEW s \in Sessions, Manage(s)
      PROVE  SysfsTypeOK' /\ WritersMayWrite'
  <2>1. CASE BeginOpen(s)
    BY <2>1 DEF BeginOpen, Opened, Opening, CanWrite, channelVars, Calls
  <2>2. CASE WriteExport(s)
    BY <2>2 DEF WriteExport, Opening, CanWrite, Calls
  <2>3. CASE Waited(s)
    BY <2>3 DEF Waited, Opened, Opening, CanWrite, channelVars, Calls
  <2>4. CASE Close(s)
    <3>1. /\ state' \in {state, [state EXCEPT ![s] = "closed"]}
          /\ call' \in {call, Disturb(call)}
          /\ channel' \in {channel, "absent"} /\ unowned' \in {unowned, FALSE}
          /\ UNCHANGED <<kind, attributes, access, exported_by_session>>
          /\ state[s] # "busy"
      BY <2>4 DEF Close, Vanish
    <3>2. /\ call' \in [Sessions -> {NoCall} \cup Calls]
          /\ \A t \in Sessions : /\ (call'[t] = NoCall) <=> (call[t] = NoCall)
                                 /\ call[t] # NoCall => call'[t].step = call[t].step
      BY <1>1, <3>1, DisturbType
    <3>3. SysfsTypeOK'
      <4>1. call' \in [Sessions -> {NoCall} \cup Calls']
        BY <1>1, <3>1, <3>2
      <4>2. \A t \in Sessions : state'[t] = "busy" <=> call'[t] # NoCall
        <5>1. \A t \in Sessions : state'[t] = "busy" <=> state[t] = "busy"
          BY <3>1
        <5>2. \A t \in Sessions : call'[t] = NoCall <=> call[t] = NoCall
          <6>. HIDE DEF SysfsTypeOK, WritersMayWrite
          <6>. QED  BY <3>2
        <5>3. \A t \in Sessions : state[t] = "busy" <=> call[t] # NoCall
          OBVIOUS
        <5>. QED  BY <5>1, <5>2, <5>3
      <4>3. state' \in [Sessions -> {"none", "idle", "busy", "faulted", "closed"} \cup Opening]
        BY <3>1
      <4>. HIDE DEF WritersMayWrite
      <4>. QED  BY <3>1, <4>1, <4>2, <4>3 DEF Calls
    <3>. QED  BY <3>1, <3>2, <3>3 DEF CanWrite
  <2>5. CASE DropSession(s)
    BY <2>5 DEF DropSession, CanWrite, channelVars, Calls
  <2>. QED  BY <1>3, <2>1, <2>2, <2>3, <2>4, <2>5 DEF Manage
<1>4. CASE Appear
  BY <1>4 DEF Appear, CanWrite, sessionVars, Calls
<1>5. CASE Unplug
  BY <1>1, <1>5, DisturbType DEF Unplug, Vanish, CanWrite, Calls
<1>6. CASE UNCHANGED sysfsVars
  BY <1>6 DEF sysfsVars, channelVars, sessionVars, CanWrite, Calls
<1>. QED
  BY <1>2, <1>3, <1>4, <1>5, <1>6, PwmStepOfCall, LineStepOfCall
  DEF Next, SessionStep, Environment

LEMMA SysfsTypeInit == Init => SysfsTypeOK /\ WritersMayWrite
<1>. SUFFICES ASSUME Init PROVE SysfsTypeOK /\ WritersMayWrite
  OBVIOUS
<1>1. Unconfigured \in PwmConfigurations
  BY DEF Unconfigured, PwmConfigurations, Polarities
<1>2. \/ kind = "pwm" /\ attributes \in PwmConfigurations
      \/ kind = "gpio" /\ attributes \in Lines
  BY <1>1 DEF Init, PwmInit, GpioInit
<1>3. /\ channel \in {"absent", "present"} /\ unowned \in BOOLEAN
      /\ state = [s \in Sessions |-> "none"]
      /\ access \in [Sessions -> Accesses]
      /\ exported_by_session = [s \in Sessions |-> FALSE]
      /\ call = [s \in Sessions |-> NoCall]
  BY DEF Init, ChannelInit
<1>. QED  BY <1>2, <1>3 DEF SysfsTypeOK, WritersMayWrite

\* The variables have their types: a session is busy exactly while it is in a
\* call, and the call is one of those of its kind of channel (run_call).
THEOREM SysfsTypeCorrect == Spec => []SysfsTypeOK
<1>1. Init => SysfsTypeOK /\ WritersMayWrite
  BY SysfsTypeInit
<1>2. SysfsTypeOK /\ WritersMayWrite /\ [Next]_sysfsVars => (SysfsTypeOK /\ WritersMayWrite)'
  BY SysfsTypeStep
<1>. QED  BY <1>1, <1>2, PTL DEF Spec

-----------------------------------------------------------------------------
(* Who unexports a channel                                                  *)

LEMMA AccountedStep ==
    SysfsTypeOK /\ ExportAccounted /\ [Next]_sysfsVars => ExportAccounted'
<1>. SUFFICES ASSUME SysfsTypeOK, ExportAccounted, [Next]_sysfsVars,
                     channel' # "absent", ~ unowned'
              PROVE  \E s \in Sessions : \/ state'[s] = "waiting"
                                         \/ state'[s] \in Open /\ exported_by_session'[s]
  BY DEF ExportAccounted
<1>. DEFINE Keeps(t) == \/ state[t] = "waiting"
                        \/ state[t] \in Open /\ exported_by_session[t]
<1>1. /\ state \in [Sessions -> {"none", "idle", "busy", "faulted", "closed"} \cup Opening]
      /\ exported_by_session \in [Sessions -> BOOLEAN]
      /\ \A s \in Sessions : state[s] = "busy" <=> call[s] # NoCall
      /\ unowned \in BOOLEAN
  BY DEF SysfsTypeOK
<1>2. channel # "absent" /\ ~ unowned => \E t \in Sessions : Keeps(t)
  BY DEF ExportAccounted
<1>3. ASSUME NEW s \in Sessions, CallStep(s)
      PROVE  \E t \in Sessions : Keeps(t)'
  <2>1. /\ channel' = channel /\ unowned' = unowned
        /\ exported_by_session' = exported_by_session
    BY <1>3 DEF CallStep, BeginCall, FinishCall, Advance, Write, channelVars
  <2>2. PICK t \in Sessions : Keeps(t)
    BY <1>2, <2>1
  <2>3. \/ state' = state
        \/ \E o \in Open : state' = [state EXCEPT ![s] = o] /\ state[s] \in Open
    BY <1>1, <1>3 DEF CallStep, BeginCall, FinishCall, Advance, Write, EnsureOpen, Open
  <2>4. Keeps(t)'
    BY <1>1, <2>1, <2>2, <2>3 DEF Open
  <2>. QED  BY <2>4
<1>4. ASSUME NEW s \in Sessions, Manage(s)
      PROVE  \E t \in Sessions : Keeps(t)'
  <2>1. CASE BeginOpen(s)
    <3>1. PICK t \in Sessions : Keeps(t)
      BY <1>2, <2>1 DEF BeginOpen, channelVars
    <3>2. t # s /\ state'[t] = state[t] /\ exported_by_session'[t] = exported_by_session[t]
      BY <1>1, <2>1, <3>1 DEF BeginOpen, Opened, Open
    <3>. QED  BY <3>1, <3>2
  <2>2. CASE WriteExport(s)
    <3>1. CASE state' = [state EXCEPT ![s] = "waiting"]
      BY <1>1, <3>1
    <3>2. CASE state' = [state EXCEPT ![s] = "none"] /\ UNCHANGED channel
      <4>1. PICK t \in Sessions : Keeps(t)
        BY <1>2, <2>2, <3>2 DEF WriteExport
      <4>2. t # s /\ state'[t] = state[t] /\ exported_by_session'[t] = exported_by_session[t]
        BY <1>1, <2>2, <3>2, <4>1 DEF WriteExport, Open
      <4>. QED  BY <4>1, <4>2
    <3>. QED  BY <2>2, <3>1, <3>2 DEF WriteExport
  <2>3. CASE Waited(s)
    <3>1. Present /\ Opened(s, TRUE)
      BY <1>1, <2>3 DEF Waited, channelVars
    <3>2. state'[s] = "idle" /\ exported_by_session'[s]
      BY <1>1, <3>1 DEF Opened
    <3>. QED  BY <3>2 DEF Open
  <2>4. CASE Close(s)
    <3>1. /\ channel' = channel /\ unowned' = unowned
          /\ exported_by_session' = exported_by_session
          /\ \/ state' = state
             \/ ~ exported_by_session[s] /\ state' = [state EXCEPT ![s] = "closed"]
          /\ state[s] # "waiting"
      BY <2>4 DEF Close, Vanish
    <3>2. PICK t \in Sessions : Keeps(t)
      BY <1>2, <3>1
    <3>3. Keeps(t)'
      BY <1>1, <3>1, <3>2
    <3>. QED  BY <3>3
  <2>5. CASE DropSession(s)
    <3>1. /\ channel' = channel /\ ~ unowned
          /\ ~ (exported_by_session[s] /\ state[s] # "closed")
          /\ state[s] # "waiting"
      BY <1>1, <2>5 DEF DropSession, channelVars
    <3>2. PICK t \in Sessions : Keeps(t)
      BY <1>2, <3>1
    <3>3. t # s /\ state'[t] = state[t] /\ exported_by_session'[t] = exported_by_session[t]
      BY <1>1, <2>5, <3>1, <3>2 DEF DropSession, Open
    <3>. QED  BY <3>2, <3>3
  <2>. QED  BY <1>4, <2>1, <2>2, <2>3, <2>4, <2>5 DEF Manage
<1>5. CASE Appear
  BY <1>2, <1>5 DEF Appear, sessionVars
<1>6. CASE Unplug
  BY <1>6 DEF Unplug, Vanish
<1>7. CASE UNCHANGED sysfsVars
  BY <1>2, <1>7 DEF sysfsVars, channelVars, sessionVars
<1>. QED
  BY <1>3, <1>4, <1>5, <1>6, <1>7, PwmStepOfCall, LineStepOfCall
  DEF Next, SessionStep, Environment

\* Whatever threads open, close and drop sessions, an exported channel has a
\* session that will unexport it, is waited for, or is nobody's: no session
\* takes another's export for its own (ensure_exported, close).
THEOREM ExportIsAccounted == Spec => []ExportAccounted
<1>1. Init => ExportAccounted
  BY DEF Init, ChannelInit, ExportAccounted
<1>2. SysfsTypeOK /\ ExportAccounted /\ [Next]_sysfsVars => ExportAccounted'
  BY AccountedStep
<1>. QED  BY <1>1, <1>2, SysfsTypeCorrect, PTL DEF Spec

-----------------------------------------------------------------------------
(* What a call that nobody disturbs knows of the files                      *)

\* What the writes of configure_line before stage k leave of a line.
LineAfter(line, t, k) ==
    /\ k > 1 => \/ line.active_low = t.active_low
                \/ line.active_low = Missing /\ t.active_low = "0"
    /\ k > 2 => /\ line.direction = t.direction
                /\ t.level # NoLevel => line.raw = t.level
    /\ k > 3 => \/ line.edge = t.edge
                \/ line.edge = Missing /\ t.edge = "none"

\* Call c, with the channel's files as they are.
AsExpected(c, files) ==
    /\ c.step = "write" => /\ ValidPwm(c.target)
                           /\ c.current.duty_cycle <= c.current.period
                           /\ c.sole => files = AfterWrites(c.current, c.target, c.stage)
    /\ c.step = "line" => /\ ~ Rejected(c.target)
                          /\ c.sole => LineAfter(files, c.target, c.stage)

\* The files hold what the kernel allows, and what each call left in them.
FilesInv ==
    /\ kind = "pwm" => attributes.duty_cycle <= attributes.period
    /\ \A s \in Sessions : call[s] # NoCall => AsExpected(call[s], attributes)

\* A call that is disturbed expects nothing of the files any more.
LEMMA DisturbedExpects ==
    ASSUME NEW c \in Calls, NEW files, AsExpected(c, files), NEW others
    PROVE  AsExpected([c EXCEPT !.sole = FALSE], others)
<1>. DEFINE d == [c EXCEPT !.sole = FALSE]
<1>1. d.step = c.step /\ ~ d.sole
  BY DisturbedCall
<1>2. c.step = "write" => d.target = c.target /\ d.current = c.current
  <2>1. CASE kind = "pwm"
    BY <2>1 DEF Calls, PwmCalls
  <2>2. CASE kind # "pwm"
    BY <2>2 DEF Calls, LineCalls
  <2>. QED  BY <2>1, <2>2
<1>3. c.step = "line" => d.target = c.target
  <2>1. CASE kind = "pwm"
    BY <2>1 DEF Calls, PwmCalls
  <2>2. CASE kind # "pwm"
    BY <2>2 DEF Calls, LineCalls
  <2>. QED  BY <2>1, <2>2
<1>. HIDE DEF d
<1>. QED  BY <1>1, <1>2, <1>3 DEF AsExpected

\* A step of session s disturbs the other calls or leaves them and the files
\* alone, so only its own call is to be looked at.
LEMMA OwnCallOnly ==
    ASSUME SysfsTypeOK, FilesInv, NEW s \in Sessions, NEW c, kind' = kind,
           kind = "pwm" => attributes'.duty_cycle <= attributes'.period,
           \/ call' = [call EXCEPT ![s] = c] /\ attributes' = attributes
           \/ call' = [Disturb(call) EXCEPT ![s] = c],
           c # NoCall => AsExpected(c, attributes')
    PROVE  FilesInv'
<1>1. call \in [Sessions -> {NoCall} \cup Calls]
  BY DEF SysfsTypeOK, Calls
<1>2. ASSUME NEW t \in Sessions, call'[t] # NoCall
      PROVE  AsExpected(call'[t], attributes')
  <2>1. CASE t = s
    BY <1>1, <1>2, <2>1 DEF Disturb
  <2>2. CASE t # s /\ call' = [call EXCEPT ![s] = c] /\ attributes' = attributes
    BY <1>1, <1>2, <2>2 DEF FilesInv
  <2>3. CASE t # s /\ call' = [Disturb(call) EXCEPT ![s] = c]
    <3>1. call'[t] = Disturb(call)[t]
      BY <2>3 DEF Disturb
    <3>2. call[t] # NoCall /\ call'[t] = [call[t] EXCEPT !.sole = FALSE]
      BY <1>2, <3>1 DEF Disturb
    <3>3. call[t] \in Calls /\ AsExpected(call[t], attributes)
      BY <1>1, <3>2 DEF FilesInv
    <3>. QED  BY <3>2, <3>3, DisturbedExpects
  <2>. QED  BY <2>1, <2>2, <2>3
<1>. QED  BY <1>2 DEF FilesInv

\* The write that a call makes next follows from what it left in the files.
LEMMA NextWriteFromFiles ==
    ASSUME NEW c \in PwmCalls, c.step = "write", NEW files, AsExpected(c, files),
           c.sole, StillNeeded(c) # {}
    PROVE  /\ NextStage(c) \in 1 .. 5
           /\ files = AfterWrites(c.current, c.target, NextStage(c))
           /\ Writes(c.current, c.target)[NextStage(c)].needed
<1>. DEFINE n == NextStage(c)
<1>1. /\ c.current \in PwmConfigurations /\ c.target \in PwmConfigurations
      /\ c.stage \in 1 .. 6
  BY CallFields
<1>2. n \in StillNeeded(c) /\ n \in c.stage .. 5 /\ \A j \in StillNeeded(c) : n <= j
  BY <1>1, NextStageIsNeeded
<1>. HIDE DEF n
<1>3. \A k \in c.stage .. 5 : k < n => ~ Writes(c.current, c.target)[k].needed
  BY <1>1, <1>2 DEF StillNeeded
<1>4. AfterWrites(c.current, c.target, n) = AfterWrites(c.current, c.target, c.stage)
  BY <1>1, <1>2, <1>3, SkippedStages
<1>5. files = AfterWrites(c.current, c.target, c.stage)
  BY DEF AsExpected
<1>6. Writes(c.current, c.target)[n].needed
  BY <1>2 DEF StillNeeded
<1>. QED  BY <1>1, <1>2, <1>4, <1>5, <1>6 DEF n

\* A write of configure_line leads from its stage to the next.
LEMMA LineLeadsOn ==
    ASSUME NEW line \in Lines, NEW t \in LineConfigurations, NEW k \in 1 .. 3,
           ~ Rejected(t), ~ Lacks(line, t, k), LineAfter(line, t, k)
    PROVE  LineAfter(LineWritten(line, t, k), t, k + 1)
<1>1. CASE k = 1
  <2>. DEFINE w == LineWritten(line, t, k)
  <2>1. /\ line.active_low = Missing => w.active_low = Missing
        /\ line.active_low # Missing => w.active_low = t.active_low
    BY <1>1 DEF LineWritten, Lines
  <2>2. line.active_low = Missing => t.active_low = "0"
    BY <1>1 DEF Lacks, LineConfigurations
  <2>. HIDE DEF w
  <2>3. LineAfter(w, t, 2)
    BY <2>1, <2>2 DEF LineAfter
  <2>. QED  BY <1>1, <2>3 DEF w
<1>2. CASE k = 2
  <2>1. /\ Redirected(line, t).active_low = line.active_low
        /\ Redirected(line, t).direction = t.direction
        /\ t.level # NoLevel => Redirected(line, t).raw = t.level
    BY DEF Redirected, Rejected, Lines, LineConfigurations
  <2>2. LineWritten(line, t, k) = Redirected(line, t)
    BY <1>2 DEF LineWritten
  <2>3. \/ line.active_low = t.active_low
        \/ line.active_low = Missing /\ t.active_low = "0"
    BY <1>2 DEF LineAfter
  <2>4. LineAfter(Redirected(line, t), t, 3)
    BY <2>1, <2>3 DEF LineAfter
  <2>. QED  BY <1>2, <2>2, <2>4
<1>3. CASE k = 3
  <2>. DEFINE w == LineWritten(line, t, k)
  <2>1. /\ w.active_low = line.active_low /\ w.direction = line.direction
        /\ w.raw = line.raw
        /\ line.edge = Missing => w.edge = Missing
        /\ line.edge # Missing => w.edge = t.edge
    BY <1>3 DEF LineWritten, Lines
  <2>2. line.edge = Missing => t.edge = "none"
    BY <1>3 DEF Lacks
  <2>. HIDE DEF w
  <2>3. LineAfter(line, t, 3)
    BY <1>3
  <2>4. LineAfter(w, t, 4)
    BY <2>1, <2>2, <2>3 DEF LineAfter
  <2>. QED  BY <1>3, <2>4 DEF w
<1>. QED  BY <1>1, <1>2, <1>3

LEMMA PwmFilesStep ==
    ASSUME SysfsTypeOK, FilesInv, NEW s \in Sessions, PwmNext(s)
    PROVE  FilesInv'
<1>1. /\ kind = "pwm" /\ attributes \in PwmConfigurations
      /\ attributes.duty_cycle <= attributes.period
  BY DEF PwmNext, PwmStep, ReadTarget, ReadCurrent, WriteStage, Applied, WriteEnable,
         PwmCallFails, BeginPwmCall, InStep, SysfsTypeOK, PwmConfigurations, Lines, FilesInv
<1>2. call[s] # NoCall => call[s] \in PwmCalls /\ AsExpected(call[s], attributes)
  BY <1>1 DEF SysfsTypeOK, FilesInv
<1>3. ASSUME NEW r \in PwmRequests[s], BeginPwmCall(s, r)
      PROVE  FilesInv'
  <2>. DEFINE c == CASE r.call = "configure" -> Applying(r.target)
                     [] r.call = "adjust" -> Adjusting(r)
                     [] r.call = "enable" -> Enabling(r.value)
  <2>1. /\ call' = [call EXCEPT ![s] = c] /\ attributes' = attributes /\ kind' = kind
    BY <1>3 DEF BeginPwmCall, BeginCall, channelVars
  <2>2. c.step \in {"apply", "adjust", "enable"}
    BY PwmRequestAssumption DEF Applying, Adjusting, Enabling
  <2>3. AsExpected(c, attributes')
    BY <2>2 DEF AsExpected
  <2>. HIDE DEF c
  <2>. QED  BY <1>1, <2>1, <2>3, OwnCallOnly
<1>4. ASSUME ReadTarget(s)
      PROVE  FilesInv'
  <2>. DEFINE c == Applying([attributes EXCEPT ![call[s].file] = call[s].value])
  <2>1. /\ call' = [call EXCEPT ![s] = c] /\ attributes' = attributes /\ kind' = kind
    BY <1>4 DEF ReadTarget, Advance, channelVars
  <2>2. AsExpected(c, attributes')
    BY DEF AsExpected, Applying
  <2>. HIDE DEF c
  <2>. QED  BY <1>1, <2>1, <2>2, OwnCallOnly
<1>5. ASSUME ReadCurrent(s)
      PROVE  FilesInv'
  <2>. DEFINE t == call[s].target
              c == Writing(attributes, t, 1)
  <2>1. /\ call[s] # NoCall /\ call[s].step = "apply" /\ ValidPwm(t)
        /\ call' = [call EXCEPT ![s] = c] /\ attributes' = attributes /\ kind' = kind
    BY <1>5 DEF ReadCurrent, InStep, Advance, channelVars
  <2>2. t \in PwmConfigurations
    BY <1>2, <2>1, CallFields
  <2>3. AfterWrites(attributes, t, 1) = attributes
    BY <1>1, <2>2, FirstAndLast
  <2>4. AsExpected(c, attributes')
    BY <1>1, <2>1, <2>3 DEF AsExpected, Writing
  <2>. HIDE DEF c
  <2>. QED  BY <1>1, <2>1, <2>4, OwnCallOnly
<1>6. ASSUME WriteStage(s)
      PROVE  FilesInv'
  <2>. DEFINE old == call[s]
              n == NextStage(old)
              w == NextWrite(old)
              c == [old EXCEPT !.stage = n + 1]
  <2>1. /\ old # NoCall /\ old.step = "write" /\ StillNeeded(old) # {}
        /\ KernelAccepts(attributes, w)
        /\ call' = [Disturb(call) EXCEPT ![s] = c]
        /\ attributes' = Written(attributes, w) /\ kind' = kind
    BY <1>6 DEF WriteStage, InStep, Write
  <2>2. attributes'.duty_cycle <= attributes'.period
    BY <2>1 DEF KernelAccepts
  <2>3. old \in PwmCalls /\ AsExpected(old, attributes)
    BY <1>2, <2>1
  <2>4. /\ old.current \in PwmConfigurations /\ old.target \in PwmConfigurations
        /\ old.stage \in 1 .. 6
    BY <2>1, <2>3, CallFields
  <2>5. n \in 1 .. 5
    BY <2>1, <2>4, NextStageIsNeeded
  <2>6. ASSUME old.sole
        PROVE  attributes' = AfterWrites(old.current, old.target, n + 1)
    <3>1. /\ attributes = AfterWrites(old.current, old.target, n)
          /\ Writes(old.current, old.target)[n].needed
      BY <2>1, <2>3, <2>6, NextWriteFromFiles
    <3>2. w = Writes(old.current, old.target)[n]
      BY DEF NextWrite
    <3>. HIDE DEF n, old, w
    <3>. QED  BY <2>1, <2>4, <2>5, <3>1, <3>2, WriteLeadsOn
  <2>7. /\ c.step = "write" /\ c.current = old.current /\ c.target = old.target
        /\ c.sole = old.sole /\ c.stage = n + 1
    <3>. HIDE DEF n
    <3>. QED  BY <2>1, <2>3 DEF PwmCalls
  <2>. HIDE DEF c, n, old, w
  <2>8. AsExpected(c, attributes')
    BY <2>1, <2>3, <2>6, <2>7 DEF AsExpected
  <2>. QED  BY <1>1, <2>1, <2>2, <2>8, OwnCallOnly
<1>7. ASSUME WriteEnable(s)
      PROVE  FilesInv'
  <2>1. /\ call' = [Disturb(call) EXCEPT ![s] = Enabled] /\ kind' = kind
        /\ attributes'.duty_cycle <= attributes'.period
    BY <1>7 DEF WriteEnable, Write, KernelAccepts
  <2>2. AsExpected(Enabled, attributes')
    BY DEF AsExpected, Enabled
  <2>. QED  BY <2>1, <2>2, OwnCallOnly
<1>8. ASSUME Applied(s) \/ PwmCallFails(s)
      PROVE  FilesInv'
  <2>1. call' = [call EXCEPT ![s] = NoCall] /\ attributes' = attributes /\ kind' = kind
    BY <1>8 DEF Applied, PwmCallFails, FinishCall, channelVars
  <2>. QED  BY <1>1, <2>1, OwnCallOnly
<1>. QED  BY <1>3, <1>4, <1>5, <1>6, <1>7, <1>8 DEF PwmNext, PwmStep

LEMMA LineFilesStep ==
    ASSUME SysfsTypeOK, FilesInv, NEW s \in Sessions, GpioNext(s)
    PROVE  FilesInv'
<1>1. kind = "gpio" /\ attributes \in Lines
  BY DEF GpioNext, GpioStep, ReadLevel, ReadDirection, WriteLevel, WriteLine, LineCallEnds,
         LineCallFails, BeginLineCall, InLineCall, SysfsTypeOK
<1>2. call[s] # NoCall => call[s] \in LineCalls /\ AsExpected(call[s], attributes)
  BY <1>1 DEF SysfsTypeOK, FilesInv
<1>3. ASSUME NEW r \in GpioRequests[s], BeginLineCall(s, r)
      PROVE  FilesInv'
  <2>. DEFINE c == CASE r.call = "read" -> [step |-> "level", sole |-> FALSE]
                     [] r.call = "write" ->
                           [step |-> "direction", level |-> r.level, sole |-> FALSE]
                     [] r.call = "configure" ->
                           [step |-> "line", target |-> r.target, stage |-> 1, sole |-> TRUE]
  <2>1. /\ call' = [call EXCEPT ![s] = c] /\ attributes' = attributes /\ kind' = kind
        /\ r.call = "configure" => ~ Rejected(r.target)
    BY <1>3 DEF BeginLineCall, BeginCall, channelVars
  <2>2. AsExpected(c, attributes')
    <3>1. CASE r.call \in {"read", "write"}
      BY <3>1 DEF AsExpected
    <3>2. CASE r.call = "configure"
      BY <2>1, <3>2 DEF AsExpected, LineAfter
    <3>. QED  BY <3>1, <3>2, GpioRequestAssumption
  <2>. HIDE DEF c
  <2>. QED  BY <1>1, <2>1, <2>2, OwnCallOnly
<1>4. ASSUME ReadDirection(s)
      PROVE  FilesInv'
  <2>. DEFINE c == [step |-> "value", level |-> call[s].level, sole |-> FALSE]
  <2>1. /\ call' = [call EXCEPT ![s] = c] /\ attributes' = attributes /\ kind' = kind
    BY <1>4 DEF ReadDirection, Advance, channelVars
  <2>2. AsExpected(c, attributes')
    BY DEF AsExpected
  <2>. HIDE DEF c
  <2>. QED  BY <1>1, <2>1, <2>2, OwnCallOnly
<1>5. ASSUME WriteLevel(s)
      PROVE  FilesInv'
  <2>1. call' = [Disturb(call) EXCEPT ![s] = Driven] /\ kind' = kind
    BY <1>5 DEF WriteLevel, Write
  <2>2. AsExpected(Driven, attributes')
    BY DEF AsExpected, Driven
  <2>. QED  BY <1>1, <2>1, <2>2, OwnCallOnly
<1>6. ASSUME WriteLine(s)
      PROVE  FilesInv'
  <2>. DEFINE old == call[s]
              c == [old EXCEPT !.stage = @ + 1]
  <2>1. /\ old # NoCall /\ old.step = "line" /\ old.stage <= 3
        /\ ~ Lacks(attributes, old.target, old.stage)
        /\ call' = [Disturb(call) EXCEPT ![s] = c] /\ kind' = kind
        /\ attributes' = LineWritten(attributes, old.target, old.stage)
    BY <1>6 DEF WriteLine, InLineCall, Write
  <2>2. old \in LineCalls /\ AsExpected(old, attributes)
    BY <1>2, <2>1
  <2>3. old.target \in LineConfigurations /\ old.stage \in 1 .. 3
    BY <2>1, <2>2, LineCallFields
  <2>4. /\ c.step = "line" /\ c.target = old.target /\ c.sole = old.sole
        /\ c.stage = old.stage + 1
    BY <2>1, <2>2 DEF LineCalls
  <2>. HIDE DEF c, old
  <2>5. ~ Rejected(old.target) /\ (old.sole => LineAfter(attributes, old.target, old.stage))
    BY <2>1, <2>2 DEF AsExpected
  <2>6. old.sole => LineAfter(attributes', old.target, old.stage + 1)
    BY <1>1, <2>1, <2>3, <2>5, LineLeadsOn
  <2>7. AsExpected(c, attributes')
    BY <2>4, <2>5, <2>6 DEF AsExpected
  <2>. QED  BY <1>1, <2>1, <2>7, OwnCallOnly
<1>7. ASSUME ReadLevel(s) \/ LineCallEnds(s) \/ LineCallFails(s)
      PROVE  FilesInv'
  <2>1. call' = [call EXCEPT ![s] = NoCall] /\ attributes' = attributes /\ kind' = kind
    BY <1>7 DEF ReadLevel, LineCallEnds, LineCallFails, FinishCall, channelVars
  <2>. QED  BY <1>1, <2>1, OwnCallOnly
<1>. QED  BY <1>3, <1>4, <1>5, <1>6, <1>7 DEF GpioNext, GpioStep

LEMMA FilesStep ==
    SysfsTypeOK /\ FilesInv /\ [Next]_sysfsVars => FilesInv'
<1>. SUFFICES ASSUME SysfsTypeOK, FilesInv, [Next]_sysfsVars
              PROVE  FilesInv'
  OBVIOUS
<1>1. ASSUME UNCHANGED <<kind, attributes>>, call' \in {call, Disturb(call)}
      PROVE  FilesInv'
  <2>1. CASE call' = call
    BY <1>1, <2>1 DEF FilesInv
  <2>2. CASE call' = Disturb(call)
    <3>1. ASSUME NEW t \in Sessions, call'[t] # NoCall
          PROVE  AsExpected(call'[t], attributes')
      <4>1. call[t] # NoCall /\ call'[t] = [call[t] EXCEPT !.sole = FALSE]
        BY <2>2, <3>1 DEF Disturb
      <4>2. call[t] \in Calls /\ AsExpected(call[t], attributes)
        BY <4>1 DEF SysfsTypeOK, Calls, FilesInv
      <4>. QED  BY <4>1, <4>2, DisturbedExpects
    <3>. QED  BY <1>1, <3>1 DEF FilesInv
  <2>. QED  BY <1>1, <2>1, <2>2
<1>2. ASSUME NEW s \in Sessions, Manage(s)
      PROVE  FilesInv'
  BY <1>1, <1>2 DEF Manage, BeginOpen, WriteExport, Waited, Close, Vanish, DropSession, channelVars
<1>3. CASE Appear \/ Unplug
  BY <1>1, <1>3 DEF Appear, Unplug, Vanish, sessionVars
<1>4. CASE UNCHANGED sysfsVars
  BY <1>1, <1>4 DEF sysfsVars, channelVars, sessionVars
<1>. QED
  BY <1>2, <1>3, <1>4, PwmFilesStep, LineFilesStep DEF Next, SessionStep, Environment

LEMMA FilesInvariant == Spec => [](SysfsTypeOK /\ FilesInv)
<1>1. Init => FilesInv
  BY DEF Init, ChannelInit, PwmInit, GpioInit, FilesInv, Unconfigured
<1>2. SysfsTypeOK /\ FilesInv /\ [Next]_sysfsVars => FilesInv'
  BY FilesStep
<1>. QED  BY <1>1, <1>2, SysfsTypeCorrect, PTL DEF Spec

\* A call on a pwm channel that is writing, with what it knows.
LEMMA WritingCall ==
    ASSUME SysfsTypeOK, FilesInv, NEW s \in Sessions, InStep(s, "write"), call[s].sole
    PROVE  /\ call[s] \in PwmCalls /\ AsExpected(call[s], attributes)
           /\ call[s].current \in PwmConfigurations /\ call[s].target \in PwmConfigurations
           /\ call[s].stage \in 1 .. 6
           /\ attributes = AfterWrites(call[s].current, call[s].target, call[s].stage)
<1>1. call[s] \in PwmCalls /\ AsExpected(call[s], attributes) /\ call[s].step = "write"
  BY DEF SysfsTypeOK, FilesInv, InStep
<1>. QED  BY <1>1, CallFields DEF AsExpected

\* For every current and every valid target configuration, the order in which
\* apply_configuration writes is one the kernel accepts at every write.
THEOREM OrderIsAccepted == Spec => []WritesAreAccepted
<1>1. SysfsTypeOK /\ FilesInv => WritesAreAccepted
  <2>. SUFFICES ASSUME SysfsTypeOK, FilesInv, NEW s \in Sessions, InStep(s, "write"),
                       call[s].sole, StillNeeded(call[s]) # {}
                PROVE  KernelAccepts(attributes, NextWrite(call[s]))
    BY DEF WritesAreAccepted
  <2>. DEFINE c == call[s]
              n == NextStage(c)
  <2>1. /\ c \in PwmCalls /\ c.step = "write" /\ AsExpected(c, attributes)
        /\ c.current \in PwmConfigurations /\ c.target \in PwmConfigurations
    BY WritingCall DEF InStep
  <2>2. /\ n \in 1 .. 5 /\ attributes = AfterWrites(c.current, c.target, n)
        /\ Writes(c.current, c.target)[n].needed
    BY <2>1, NextWriteFromFiles
  <2>3. ValidPwm(c.target) /\ c.current.duty_cycle <= c.current.period
    BY <2>1 DEF AsExpected
  <2>4. NextWrite(c) = Writes(c.current, c.target)[n]
    BY DEF NextWrite
  <2>. HIDE DEF n, c
  <2>5. KernelAccepts(attributes, NextWrite(c))
    BY <2>1, <2>2, <2>3, <2>4, WriteAccepted
  <2>. QED  BY <2>5 DEF c
<1>. QED  BY <1>1, FilesInvariant, PTL

\* An undisturbed call that has made its writes leaves the configuration it was
\* asked for (apply_configuration).
THEOREM ConfigurationIsApplied == Spec => []AppliedAsAsked
<1>1. SysfsTypeOK /\ FilesInv => AppliedAsAsked
  <2>. SUFFICES ASSUME SysfsTypeOK, FilesInv, NEW s \in Sessions, InStep(s, "write"),
                       call[s].sole, StillNeeded(call[s]) = {}
                PROVE  attributes = call[s].target
    BY DEF AppliedAsAsked
  <2>. DEFINE c == call[s]
  <2>1. /\ c.current \in PwmConfigurations /\ c.target \in PwmConfigurations
        /\ c.stage \in 1 .. 6
        /\ attributes = AfterWrites(c.current, c.target, c.stage)
    BY WritingCall
  <2>. HIDE DEF c
  <2>2. \A k \in c.stage .. 5 : ~ Writes(c.current, c.target)[k].needed
    BY DEF StillNeeded, c
  <2>3. AfterWrites(c.current, c.target, 6) = AfterWrites(c.current, c.target, c.stage)
    BY <2>1, <2>2, SkippedStages
  <2>4. attributes = c.target
    BY <2>1, <2>3, FirstAndLast
  <2>. QED  BY <2>4 DEF c
<1>. QED  BY <1>1, FilesInvariant, PTL

\* Between the writes of an undisturbed call a running channel runs the old or
\* the new configuration (apply_configuration).
THEOREM WaveformIsWhole == Spec => []NoMixedWaveform
<1>1. SysfsTypeOK /\ FilesInv => NoMixedWaveform
  <2>. SUFFICES ASSUME SysfsTypeOK, FilesInv, NEW s \in Sessions, InStep(s, "write"),
                       call[s].sole, attributes.enabled
                PROVE  attributes \in {call[s].current, call[s].target}
    BY DEF NoMixedWaveform
  <2>1. /\ call[s].current \in PwmConfigurations /\ call[s].target \in PwmConfigurations
        /\ call[s].stage \in 1 .. 6
        /\ attributes = AfterWrites(call[s].current, call[s].target, call[s].stage)
    BY WritingCall
  <2>. QED  BY <2>1, EnabledIsWhole
<1>. QED  BY <1>1, FilesInvariant, PTL

\* After an undisturbed configure_line the configuration reads back as asked
\* for and the wire of an output has the initial level, whichever files the
\* line lacks (configure_line, current_configuration).
THEOREM LineIsAsAsked == Spec => []LineReadsBack
<1>1. SysfsTypeOK /\ FilesInv => LineReadsBack
  <2>. SUFFICES ASSUME SysfsTypeOK, FilesInv, NEW s \in Sessions, InLineCall(s, "line"),
                       call[s].sole, call[s].stage > 3
                PROVE  LET t == call[s].target IN
                       /\ ReadBack(attributes) = [direction |-> t.direction,
                                                  active_low |-> t.active_low,
                                                  edge |-> t.edge]
                       /\ t.level # NoLevel => attributes.raw = t.level
    BY DEF LineReadsBack, ConfiguredLines
  <2>. DEFINE c == call[s]
              t == c.target
  <2>1. c \in LineCalls /\ AsExpected(c, attributes) /\ c.step = "line"
    BY DEF SysfsTypeOK, FilesInv, InLineCall
  <2>2. t \in LineConfigurations /\ c.stage \in 1 .. 4
    BY <2>1, LineCallFields
  <2>3. LineAfter(attributes, t, c.stage)
    BY <2>1 DEF AsExpected
  <2>4. /\ attributes.direction = t.direction
        /\ \/ attributes.active_low = t.active_low
           \/ attributes.active_low = Missing /\ t.active_low = "0"
        /\ \/ attributes.edge = t.edge
           \/ attributes.edge = Missing /\ t.edge = "none"
        /\ t.level # NoLevel => attributes.raw = t.level
    <3>1. LineAfter(attributes, t, 4)
      BY <2>2, <2>3
    <3>. QED  BY <3>1 DEF LineAfter
  <2>5. t.active_low # Missing /\ t.edge # Missing
    BY <2>2 DEF LineConfigurations, Missing
  <2>. QED  BY <2>4, <2>5 DEF ReadBack
<1>. QED  BY <1>1, FilesInvariant, PTL

-----------------------------------------------------------------------------
(* The sessions are sessions of lemnos-bus                                  *)

\* The state that a session has for its caller.
BusState == [s \in Sessions |-> IF state[s] \in Opening THEN "none" ELSE state[s]]

\* One session changes its state, to one that its caller sees or does not see.
LEMMA BusStateChange ==
    ASSUME SysfsTypeOK, NEW s \in Sessions, NEW v, state' = [state EXCEPT ![s] = v]
    PROVE  /\ v \notin Opening => BusState' = [BusState EXCEPT ![s] = v]
           /\ v \in Opening /\ BusState[s] = "none" => BusState' = BusState
           /\ v = "none" /\ BusState[s] = "none" => BusState' = BusState
<1>1. state' \in [Sessions -> {state[t] : t \in Sessions} \cup {v}]
  BY DEF SysfsTypeOK
<1>2. \A t \in Sessions : state'[t] = IF t = s THEN v ELSE state[t]
  BY DEF SysfsTypeOK
<1>3. v \notin Opening => BusState' = [BusState EXCEPT ![s] = v]
  BY <1>2 DEF BusState
<1>4. v \in Opening /\ BusState[s] = "none" => BusState' = BusState
  BY <1>2 DEF BusState
<1>5. v = "none" /\ BusState[s] = "none" => BusState' = BusState
  BY <1>2 DEF BusState, Opening
<1>. QED  BY <1>3, <1>4, <1>5

\* An access right can always be given again.
LEMMA SameAccess ==
    ASSUME SysfsTypeOK, NEW s \in Sessions
    PROVE  \E a \in SessionAccess : access = [access EXCEPT ![s] = a]
<1>1. access \in [Sessions -> Accesses] /\ Accesses \subseteq SessionAccess
  BY AccessAssumption DEF SysfsTypeOK
<1>2. access[s] \in SessionAccess /\ access = [access EXCEPT ![s] = access[s]]
  BY <1>1
<1>. QED  BY <1>2

\* A step that opens, begins a call, touches the files and so on is that step
\* of the session of lemnos-bus.
LEMMA BusSteps ==
    ASSUME SysfsTypeOK, SysfsTypeOK', NEW s \in Sessions
    PROVE  /\ BusState[s] = "none" /\ BusState' = [BusState EXCEPT ![s] = "idle"]
                  /\ access' = access
              => Bus!Open(s)
           /\ BusState[s] \in {"idle", "faulted"} /\ UNCHANGED <<access, attributes>>
                  /\ BusState' = [BusState EXCEPT ![s] = "busy"]
              => Bus!BeginCall(s)
           /\ BusState[s] = "busy" /\ CanWrite(s) /\ UNCHANGED <<BusState, access>>
              => Bus!Touch(s)
           /\ BusState[s] = "busy" /\ UNCHANGED <<access, attributes>>
                  /\ (\E o \in {"idle", "faulted"} : BusState' = [BusState EXCEPT ![s] = o])
              => Bus!FinishCall(s)
           /\ BusState[s] \in {"idle", "faulted"} /\ UNCHANGED <<access, attributes>>
                  /\ BusState' = [BusState EXCEPT ![s] = "closed"]
              => Bus!Close(s)
           /\ BusState[s] \in {"idle", "faulted", "closed"} /\ UNCHANGED <<access, attributes>>
                  /\ BusState' = [BusState EXCEPT ![s] = "none"]
              => Bus!Drop(s)
<1>1. attributes' \in PwmConfigurations \cup Lines
  BY DEF SysfsTypeOK
<1>2. \E a \in SessionAccess : access = [access EXCEPT ![s] = a]
  BY SameAccess
<1>3. BusState[s] = "none" /\ BusState' = [BusState EXCEPT ![s] = "idle"] /\ access' = access
      => Bus!Open(s)
  BY <1>1, <1>2 DEF Bus!Open, Bus!SessionAccess, SessionAccess, BusState
<1>4. BusState[s] \in {"idle", "faulted"} /\ UNCHANGED <<access, attributes>>
         /\ BusState' = [BusState EXCEPT ![s] = "busy"]
      => Bus!BeginCall(s)
  BY DEF Bus!BeginCall, Bus!Callable, BusState
<1>5. BusState[s] = "busy" /\ CanWrite(s) /\ UNCHANGED <<BusState, access>> => Bus!Touch(s)
  BY <1>1 DEF Bus!Touch, Bus!CanWrite, CanWrite, BusState
<1>6. BusState[s] = "busy" /\ UNCHANGED <<access, attributes>>
         /\ (\E o \in {"idle", "faulted"} : BusState' = [BusState EXCEPT ![s] = o])
      => Bus!FinishCall(s)
  BY DEF Bus!FinishCall, BusState
<1>7. BusState[s] \in {"idle", "faulted"} /\ UNCHANGED <<access, attributes>>
         /\ BusState' = [BusState EXCEPT ![s] = "closed"]
      => Bus!Close(s)
  BY DEF Bus!Close, Bus!Callable, BusState
<1>8. BusState[s] \in {"idle", "faulted", "closed"} /\ UNCHANGED <<access, attributes>>
         /\ BusState' = [BusState EXCEPT ![s] = "none"]
      => Bus!Drop(s)
  BY DEF Bus!Drop, BusState
<1>. QED  BY <1>3, <1>4, <1>5, <1>6, <1>7, <1>8

LEMMA BusInit == Init => Bus!Init
<1>. SUFFICES ASSUME Init PROVE Bus!Init
  OBVIOUS
<1>1. SysfsTypeOK
  BY SysfsTypeInit
<1>2. state = [s \in Sessions |-> "none"]
  BY DEF Init, ChannelInit
<1>3. access \in [Sessions -> SessionAccess] /\ attributes \in PwmConfigurations \cup Lines
  BY <1>1, AccessAssumption DEF SysfsTypeOK
<1>4. BusState = [s \in Sessions |-> "none"]
  BY <1>2 DEF BusState, Opening
<1>. QED  BY <1>3, <1>4 DEF Bus!Init, Bus!SessionAccess, SessionAccess, BusState

\* What lemnos-bus sees of a step: one of its own, or nothing.
BusStep == (\E s \in Sessions : \/ Bus!Open(s) \/ Bus!BeginCall(s) \/ Bus!Touch(s)
                                \/ Bus!FinishCall(s) \/ Bus!Close(s) \/ Bus!Drop(s))
           \/ UNCHANGED <<BusState, access, attributes>>

LEMMA CallIsBusStep ==
    ASSUME SysfsTypeOK, SysfsTypeOK', WritersMayWrite, NEW s \in Sessions, CallStep(s)
    PROVE  BusStep
<1>1. /\ state \in [Sessions -> {"none", "idle", "busy", "faulted", "closed"} \cup Opening]
      /\ state[s] = "busy" <=> call[s] # NoCall
  BY DEF SysfsTypeOK
<1>2. BusState[s] = IF state[s] \in Opening THEN "none" ELSE state[s]
  BY DEF BusState
<1>3. ASSUME NEW c \in Calls, BeginCall(s, c)
      PROVE  BusStep
  <2>1. /\ state[s] \in {"idle", "faulted"} /\ UNCHANGED <<access, attributes>>
        /\ state' = [state EXCEPT ![s] = "busy"]
    BY <1>3 DEF BeginCall, EnsureOpen, channelVars
  <2>2. BusState' = [BusState EXCEPT ![s] = "busy"]
    BY <2>1, BusStateChange DEF Opening
  <2>3. BusState[s] \in {"idle", "faulted"}
    BY <1>2, <2>1 DEF Opening
  <2>4. Bus!BeginCall(s)
    BY <2>1, <2>2, <2>3, BusSteps
  <2>. QED  BY <2>4 DEF BusStep
<1>4. ASSUME NEW outcome \in {"idle", "faulted"}, call[s] # NoCall, FinishCall(s, outcome)
      PROVE  BusStep
  <2>1. /\ state[s] = "busy" /\ UNCHANGED <<access, attributes>>
        /\ state' = [state EXCEPT ![s] = outcome]
    BY <1>1, <1>4 DEF FinishCall, channelVars
  <2>2. BusState' = [BusState EXCEPT ![s] = outcome]
    BY <2>1, BusStateChange DEF Opening
  <2>3. BusState[s] = "busy"
    BY <1>2, <2>1 DEF Opening
  <2>4. Bus!FinishCall(s)
    BY <2>1, <2>2, <2>3, BusSteps
  <2>. QED  BY <2>4 DEF BusStep
<1>5. ASSUME NEW c \in Calls, Advance(s, c)
      PROVE  BusStep
  <2>1. UNCHANGED <<state, access, attributes>>
    BY <1>5 DEF Advance, channelVars
  <2>. QED  BY <2>1 DEF BusStep, BusState
<1>6. ASSUME NEW c \in Calls, NEW files, call[s] # NoCall, call[s].step # "level",
             Write(s, files, c)
      PROVE  BusStep
  <2>1. state[s] = "busy" /\ UNCHANGED <<state, access>> /\ CanWrite(s)
    BY <1>1, <1>6 DEF Write, WritersMayWrite
  <2>2. BusState[s] = "busy" /\ UNCHANGED BusState
    BY <1>2, <2>1 DEF Opening, BusState
  <2>3. Bus!Touch(s)
    BY <2>1, <2>2, BusSteps
  <2>. QED  BY <2>3 DEF BusStep
<1>. QED  BY <1>3, <1>4, <1>5, <1>6 DEF CallStep

LEMMA ManageIsBusStep ==
    ASSUME SysfsTypeOK, SysfsTypeOK', NEW s \in Sessions, Manage(s)
    PROVE  BusStep
<1>1. BusState[s] = IF state[s] \in Opening THEN "none" ELSE state[s]
  BY DEF BusState
<1>2. ASSUME BusState[s] = "none", access' = access, state' = [state EXCEPT ![s] = "idle"]
      PROVE  BusStep
  <2>1. BusState' = [BusState EXCEPT ![s] = "idle"]
    BY <1>2, BusStateChange DEF Opening
  <2>2. Bus!Open(s)
    BY <1>2, <2>1, BusSteps
  <2>. QED  BY <2>2 DEF BusStep
<1>3. ASSUME BusState[s] = "none", UNCHANGED <<access, attributes>>,
             NEW v \in {"none"} \cup Opening, state' = [state EXCEPT ![s] = v]
      PROVE  BusStep
  <2>1. BusState' = BusState
    BY <1>3, BusStateChange
  <2>. QED  BY <1>3, <2>1 DEF BusStep
<1>4. CASE BeginOpen(s)
  <2>1. BusState[s] = "none" /\ UNCHANGED <<access, attributes>>
    BY <1>1, <1>4 DEF BeginOpen, Opening, channelVars
  <2>2. \E v \in {"idle", "exporting"} : state' = [state EXCEPT ![s] = v]
    BY <1>4 DEF BeginOpen, Opened
  <2>. QED  BY <1>2, <1>3, <2>1, <2>2 DEF Opening
<1>5. CASE WriteExport(s)
  <2>1. BusState[s] = "none" /\ UNCHANGED <<access, attributes>>
    BY <1>1, <1>5 DEF WriteExport, Opening
  <2>2. \E v \in {"waiting", "none"} : state' = [state EXCEPT ![s] = v]
    BY <1>5 DEF WriteExport
  <2>. QED  BY <1>3, <2>1, <2>2 DEF Opening
<1>6. CASE Waited(s)
  <2>1. BusState[s] = "none" /\ UNCHANGED <<access, attributes>>
    BY <1>1, <1>6 DEF Waited, Opening, channelVars
  <2>2. \E v \in {"idle", "none"} : state' = [state EXCEPT ![s] = v]
    BY <1>6 DEF Waited, Opened
  <2>. QED  BY <1>2, <1>3, <2>1, <2>2
<1>7. CASE Close(s)
  <2>1. /\ state[s] \in {"idle", "faulted", "closed"} /\ UNCHANGED <<access, attributes>>
        /\ state' = state \/ state' = [state EXCEPT ![s] = "closed"]
    BY <1>7 DEF Close, Vanish
  <2>2. CASE state' = state
    BY <2>1, <2>2 DEF BusStep, BusState
  <2>3. CASE state[s] = "closed" /\ state' = [state EXCEPT ![s] = "closed"]
    <3>1. state' = state
      BY <2>3 DEF SysfsTypeOK
    <3>. QED  BY <2>1, <3>1 DEF BusStep, BusState
  <2>4. CASE state[s] \in {"idle", "faulted"} /\ state' = [state EXCEPT ![s] = "closed"]
    <3>1. BusState' = [BusState EXCEPT ![s] = "closed"] /\ BusState[s] \in {"idle", "faulted"}
      BY <1>1, <2>4, BusStateChange DEF Opening
    <3>2. Bus!Close(s)
      BY <2>1, <3>1, BusSteps
    <3>. QED  BY <3>2 DEF BusStep
  <2>. QED  BY <2>1, <2>2, <2>3, <2>4
<1>8. CASE DropSession(s)
  <2>1. /\ state[s] \in {"idle", "faulted", "closed"} /\ UNCHANGED <<access, attributes>>
        /\ state' = [state EXCEPT ![s] = "none"]
    BY <1>8 DEF DropSession, channelVars
  <2>2. /\ BusState' = [BusState EXCEPT ![s] = "none"]
        /\ BusState[s] \in {"idle", "faulted", "closed"}
    BY <1>1, <2>1, BusStateChange DEF Opening
  <2>3. Bus!Drop(s)
    BY <2>1, <2>2, BusSteps
  <2>. QED  BY <2>3 DEF BusStep
<1>. QED  BY <1>4, <1>5, <1>6, <1>7, <1>8 DEF Manage

\* Sysfs sessions implement the sessions of lemnos-bus: what their callers see
\* is opening, one call at a time by those who may write, and closing for good.
THEOREM SysfsImplementsBus == Spec => ImplementsBusSession
<1>1. Init => Bus!Init
  BY BusInit
<1>2. /\ SysfsTypeOK /\ WritersMayWrite /\ SysfsTypeOK' /\ [Next]_sysfsVars
      => [Bus!Next]_(Bus!busVars)
  <2>. SUFFICES ASSUME SysfsTypeOK, WritersMayWrite, SysfsTypeOK', [Next]_sysfsVars
                PROVE  [Bus!Next]_(Bus!busVars)
    OBVIOUS
  <2>1. ASSUME NEW s \in Sessions, SessionStep(s)
        PROVE  BusStep
    BY <2>1, CallIsBusStep, ManageIsBusStep, PwmStepOfCall, LineStepOfCall DEF SessionStep
  <2>2. ASSUME Environment \/ UNCHANGED sysfsVars
        PROVE  BusStep
    <3>1. UNCHANGED <<state, access, attributes>>
      BY <2>2 DEF Environment, Appear, Unplug, Vanish, sysfsVars, channelVars, sessionVars
    <3>. QED  BY <3>1 DEF BusStep, BusState
  <2>3. BusStep
    BY <2>1, <2>2 DEF Next
  <2>. QED  BY <2>3 DEF BusStep, Bus!Next, Bus!busVars, BusState
<1>3. Init /\ [][Next]_sysfsVars => [](SysfsTypeOK /\ WritersMayWrite)
  BY SysfsTypeInit, SysfsTypeStep, PTL
<1>. QED  BY <1>1, <1>2, <1>3, PTL DEF Spec, ImplementsBusSession, Bus!Spec
=============================================================================
