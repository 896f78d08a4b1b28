---------------------------- MODULE PwmSessions ----------------------------
(***************************************************************************)
(* LinuxSysfsPwmSession: calls on a pwm channel through its four files.     *)
(*                                                                         *)
(* apply_configuration reads the files once and then writes at most five    *)
(* times, in the order of Stages; each write may fail, and another session  *)
(* may write in between.  A call is its steps: "adjust" reads the current   *)
(* configuration to change one value of it, "apply" validates the target    *)
(* and reads the current configuration again, "write" is the next write.    *)
(* The four reads of a configuration are one step.                          *)
(***************************************************************************)
EXTENDS SysfsChannel, Naturals

CONSTANT PwmRequests    \* the values callers ask for, a set of records

Polarities == {"normal", "inversed"}

\* Values are nanoseconds; the files of a fresh channel hold zeros.
PwmConfigurations ==
    [period : Nat, duty_cycle : Nat, enabled : BOOLEAN, polarity : Polarities]

ASSUME PwmRequestAssumption ==
    \A s \in Sessions : \A r \in PwmRequests[s] :
        \/ r.call = "configure" /\ r.target \in PwmConfigurations
        \/ r.call = "adjust" /\ r.file \in {"period", "duty_cycle"} /\ r.value \in Nat
        \/ r.call = "enable" /\ r.value \in BOOLEAN

Unconfigured == [period |-> 0, duty_cycle |-> 0, enabled |-> FALSE, polarity |-> "normal"]

\* validate_configuration
ValidPwm(t) == t.period > 0 /\ t.duty_cycle <= t.period

\* Faulty variant: an enabled channel is reconfigured while it runs.
NeverDisable(c, t) == FALSE

NeedsDisable(c, t) == c.enabled /\ c # t
ExpandPeriodFirst(c, t) == t.period > c.period \/ t.duty_cycle > c.period

\* Faulty variant: the period is always written first.
TimingOrderFixed(c, t) == <<"period", "duty_cycle">>

\* apply_timing: whatever keeps the duty cycle within the period goes first.
TimingOrder(c, t) == IF ExpandPeriodFirst(c, t) THEN <<"period", "duty_cycle">>
                                                ELSE <<"duty_cycle", "period">>

FileWrite(file, value, needed) == [file |-> file, value |-> value, needed |-> needed]

\* Faulty variant: the channel is enabled again only if the target says
\* otherwise than what was read.
WritesLeavingDisabled(c, t) ==
    LET timing(k) == LET file == TimingOrder(c, t)[k]
                     IN  FileWrite(file, t[file], c[file] # t[file])
    IN  << FileWrite("enabled", FALSE, NeedsDisable(c, t)),
           timing(1),
           timing(2),
           FileWrite("polarity", t.polarity, c.polarity # t.polarity),
           FileWrite("enabled", t.enabled, c.enabled # t.enabled) >>

\* apply_configuration: the writes that turn configuration c into t, in order,
\* and whether each is needed.
Writes(c, t) ==
    LET timing(k) == LET file == TimingOrder(c, t)[k]
                     IN  FileWrite(file, t[file], c[file] # t[file])
    IN  << FileWrite("enabled", FALSE, NeedsDisable(c, t)),
           timing(1),
           timing(2),
           FileWrite("polarity", t.polarity, c.polarity # t.polarity),
           FileWrite("enabled", t.enabled, NeedsDisable(c, t) \/ c.enabled # t.enabled) >>

Written(a, w) == [a EXCEPT ![w.file] = w.value]

\* The kernel keeps the duty cycle within the period, enables no channel
\* without a period and turns no running channel round.
KernelAccepts(a, w) ==
    LET new == Written(a, w) IN
    /\ new.duty_cycle <= new.period
    /\ w.file = "polarity" => ~ a.enabled
    /\ w.file = "enabled" /\ w.value => a.period > 0

-----------------------------------------------------------------------------
(* Calls                                                                    *)

Adjusting(r) == [step |-> "adjust", file |-> r.file, value |-> r.value, sole |-> FALSE]
Applying(t) == [step |-> "apply", target |-> t, sole |-> FALSE]
Writing(c, t, k) ==
    [step |-> "write", current |-> c, target |-> t, stage |-> k, sole |-> TRUE]
Enabling(b) == [step |-> "enable", value |-> b, sole |-> FALSE]

Enabled == [step |-> "enabled", sole |-> FALSE]

\* The calls in progress.
PwmCalls ==
    [step : {"adjust"}, file : {"period", "duty_cycle"}, value : Nat, sole : BOOLEAN]
    \cup [step : {"apply"}, target : PwmConfigurations, sole : BOOLEAN]
    \cup [step : {"write"}, current : PwmConfigurations, target : PwmConfigurations,
          stage : 1 .. 6, sole : BOOLEAN]
    \cup [step : {"enable"}, value : BOOLEAN, sole : BOOLEAN]
    \cup [step : {"enabled"}, sole : BOOLEAN]

InStep(s, step) == kind = "pwm" /\ call[s] # NoCall /\ call[s].step = step

\* The writes of the call that are still to be made.
StillNeeded(c) == {k \in c.stage .. 5 : Writes(c.current, c.target)[k].needed}
NextStage(c) == CHOOSE k \in StillNeeded(c) : \A j \in StillNeeded(c) : k <= j
NextWrite(c) == Writes(c.current, c.target)[NextStage(c)]

\* set_enabled, set_period_ns, set_duty_cycle_ns, configure
BeginPwmCall(s, r) ==
    /\ kind = "pwm"
    /\ CanWrite(s)
    /\ BeginCall(s, CASE r.call = "configure" -> Applying(r.target)
                      [] r.call = "adjust" -> Adjusting(r)
                      [] r.call = "enable" -> Enabling(r.value))

\* current_configuration for the target of set_period_ns and set_duty_cycle_ns
ReadTarget(s) ==
    /\ InStep(s, "adjust")
    /\ Present
    /\ Advance(s, Applying([attributes EXCEPT ![call[s].file] = call[s].value]))

\* apply_configuration up to its first write
ReadCurrent(s) ==
    /\ InStep(s, "apply")
    /\ ValidPwm(call[s].target)
    /\ Present
    /\ Advance(s, Writing(attributes, call[s].target, 1))

WriteStage(s) ==
    /\ InStep(s, "write")
    /\ StillNeeded(call[s]) # {}
    /\ LET w == NextWrite(call[s]) IN
        /\ KernelAccepts(attributes, w)
        /\ Write(s, Written(attributes, w), [call[s] EXCEPT !.stage = NextStage(call[s]) + 1])

Applied(s) ==
    /\ \/ InStep(s, "write") /\ StillNeeded(call[s]) = {}
       \/ InStep(s, "enabled")
    /\ FinishCall(s, "idle")

\* write_enable as the only write of a call
WriteEnable(s) ==
    /\ InStep(s, "enable")
    /\ LET w == FileWrite("enabled", call[s].value, TRUE) IN
        /\ KernelAccepts(attributes, w)
        /\ Write(s, Written(attributes, w), Enabled)

\* Any read or write may fail, a target may be invalid; what was written stays.
PwmCallFails(s) ==
    /\ kind = "pwm"
    /\ state[s] = "busy"
    /\ FinishCall(s, "faulted")

PwmStep(s) == \/ ReadTarget(s) \/ ReadCurrent(s) \/ WriteStage(s) \/ Applied(s)
              \/ WriteEnable(s) \/ PwmCallFails(s)

PwmInit ==
    /\ kind = "pwm"
    /\ attributes = Unconfigured

PwmNext(s) == PwmStep(s) \/ \E r \in PwmRequests[s] : BeginPwmCall(s, r)

-----------------------------------------------------------------------------
(* While no other session writes, the order of the writes is one the kernel *)
(* accepts: a duty cycle never exceeds the period in force, polarity is not *)
(* turned under way (apply_timing, apply_configuration).                    *)
WritesAreAccepted ==
    \A s \in Sessions :
        InStep(s, "write") /\ call[s].sole /\ StillNeeded(call[s]) # {} =>
            KernelAccepts(attributes, NextWrite(call[s]))

(* A call that nobody disturbed and that has made its writes leaves the      *)
(* channel exactly as it was asked to (apply_configuration).                *)
AppliedAsAsked ==
    \A s \in Sessions :
        InStep(s, "write") /\ call[s].sole /\ StillNeeded(call[s]) = {} =>
            attributes = call[s].target

(* During an undisturbed call, and so after one that failed half-way, a      *)
(* running channel runs what it ran before or what was asked for, never a    *)
(* mixture (apply_configuration: disable first, enable last).               *)
NoMixedWaveform ==
    \A s \in Sessions :
        InStep(s, "write") /\ call[s].sole /\ attributes.enabled =>
            attributes \in {call[s].current, call[s].target}
=============================================================================
