---------------------------- MODULE GpioSessions ----------------------------
(***************************************************************************)
(* LinuxSysfsGpioSession: calls on an exported gpio line through its files. *)
(*                                                                         *)
(* configure_line makes up to three writes without reading anything first;  *)
(* write_level reads the direction before it writes the value.  A line may  *)
(* lack the files `active_low` and `edge`.                                  *)
(***************************************************************************)
EXTENDS SysfsChannel, Naturals

CONSTANT GpioRequests   \* what each session's caller asks for, sets of records

Missing == "missing"    \* contents of a file that the line does not have
NoLevel == "none"

Lines == [direction : {"in", "out"}, active_low : {"0", "1", Missing},
          edge : {"none", "rising", Missing}, raw : {"0", "1"}]

\* raw is the level of the wire, whatever active_low is.  The file `value` is
\* the logical level: the kernel turns it round on a line with active_low.
Logical(line, level) == IF line.active_low # "1" THEN level
                        ELSE IF level = "0" THEN "1" ELSE "0"

Value(line) == Logical(line, line.raw)

\* GpioLineConfiguration; unsupported names what sysfs cannot do: bias,
\* debounce, open drain or open source.
LineConfigurations ==
    [direction : {"in", "out"}, active_low : {"0", "1"}, edge : {"none", "rising"},
     level : {"0", "1", NoLevel}, unsupported : BOOLEAN]

ASSUME GpioRequestAssumption ==
    \A s \in Sessions : \A r \in GpioRequests[s] :
        \/ r.call = "read"
        \/ r.call = "write" /\ r.level \in {"0", "1"}
        \/ r.call = "configure" /\ r.target \in LineConfigurations

\* configure_line rejects these before the call begins.
Rejected(t) ==
    \/ t.direction = "in" /\ t.level # NoLevel
    \/ t.direction = "out" /\ t.edge # "none"
    \/ t.unsupported

\* A direction file takes "in", "out", "low" or "high"; all but the first make
\* the line an output, with the level 0 unless it says otherwise.  The kernel
\* takes that level as it is, for the wire, and not turned round.
Redirected(line, t) ==
    IF t.direction = "in" THEN [line EXCEPT !.direction = "in"]
    ELSE [line EXCEPT !.direction = "out",
                      !.raw = IF t.level = NoLevel THEN "0" ELSE t.level]

\* The three writes of configure_line.  A file that is missing is not written,
\* and missing it is an error if the configuration needs it.
Lacks(line, t, k) ==
    \/ k = 1 /\ line.active_low = Missing /\ t.active_low = "1"
    \/ k = 3 /\ line.edge = Missing /\ t.edge # "none"

\* Faulty variant: an edge is set but never cleared.
LineWrittenKeepingEdge(line, t, k) ==
    CASE k = 1 -> IF line.active_low = Missing THEN line
                  ELSE [line EXCEPT !.active_low = t.active_low]
      [] k = 2 -> Redirected(line, t)
      [] k = 3 -> IF line.edge = Missing \/ t.edge = "none" THEN line
                  ELSE [line EXCEPT !.edge = t.edge]

LineWritten(line, t, k) ==
    CASE k = 1 -> IF line.active_low = Missing THEN line
                  ELSE [line EXCEPT !.active_low = t.active_low]
      [] k = 2 -> Redirected(line, t)
      [] k = 3 -> IF line.edge = Missing THEN line ELSE [line EXCEPT !.edge = t.edge]

-----------------------------------------------------------------------------
(* Calls                                                                    *)

InLineCall(s, step) == kind = "gpio" /\ call[s] # NoCall /\ call[s].step = step

Driven == [step |-> "driven", sole |-> FALSE]

\* The calls in progress.
LineCalls ==
    [step : {"level", "driven"}, sole : BOOLEAN]
    \cup [step : {"direction", "value"}, level : {"0", "1"}, sole : BOOLEAN]
    \cup [step : {"line"}, target : LineConfigurations, stage : 1 .. 4, sole : BOOLEAN]

BeginLineCall(s, r) ==
    /\ kind = "gpio"
    /\ r.call # "read" => CanWrite(s)
    /\ r.call = "configure" => ~ Rejected(r.target)
    /\ BeginCall(s, CASE r.call = "read" -> [step |-> "level", sole |-> FALSE]
                      [] r.call = "write" ->
                            [step |-> "direction", level |-> r.level, sole |-> FALSE]
                      [] r.call = "configure" ->
                            [step |-> "line", target |-> r.target, stage |-> 1, sole |-> TRUE])

\* read_level
ReadLevel(s) ==
    /\ InLineCall(s, "level")
    /\ Present
    /\ FinishCall(s, "idle")

\* write_level: the line must be an output when the call looks, and again for
\* the kernel, which drives no input.
ReadDirection(s) ==
    /\ InLineCall(s, "direction")
    /\ Present
    /\ attributes.direction = "out"
    /\ Advance(s, [step |-> "value", level |-> call[s].level, sole |-> FALSE])

WriteLevel(s) ==
    /\ InLineCall(s, "value")
    /\ attributes.direction = "out"
    /\ Write(s, [attributes EXCEPT !.raw = Logical(attributes, call[s].level)], Driven)

\* configure_line: active_low, direction, edge
WriteLine(s) ==
    /\ InLineCall(s, "line")
    /\ LET c == call[s] IN
        /\ c.stage <= 3
        /\ ~ Lacks(attributes, c.target, c.stage)
        /\ Write(s, LineWritten(attributes, c.target, c.stage),
                    [c EXCEPT !.stage = @ + 1])

LineCallEnds(s) ==
    /\ \/ InLineCall(s, "line") /\ call[s].stage > 3
       \/ InLineCall(s, "driven")
    /\ FinishCall(s, "idle")

LineCallFails(s) ==
    /\ kind = "gpio"
    /\ state[s] = "busy"
    /\ FinishCall(s, "faulted")

GpioStep(s) == \/ ReadLevel(s) \/ ReadDirection(s) \/ WriteLevel(s)
               \/ WriteLine(s) \/ LineCallEnds(s) \/ LineCallFails(s)

GpioNext(s) == GpioStep(s) \/ \E r \in GpioRequests[s] : BeginLineCall(s, r)

\* A line as its owner left it.
GpioInit ==
    /\ kind = "gpio"
    /\ attributes \in Lines

\* current_configuration: what a missing file is read as
ReadBack(line) == [direction |-> line.direction,
                   active_low |-> IF line.active_low = Missing THEN "0" ELSE line.active_low,
                   edge |-> IF line.edge = Missing THEN "none" ELSE line.edge]

-----------------------------------------------------------------------------
(* After the writes of a configure_line that nobody disturbed the line's     *)
(* configuration reads back as it was asked for, whatever it was before and  *)
(* whatever files it lacks, and the wire of an output has the initial level  *)
(* (configure_line, current_configuration).                                 *)
ConfiguredLines ==
    {s \in Sessions : InLineCall(s, "line") /\ call[s].sole /\ call[s].stage > 3}

LineReadsBack ==
    \A s \in ConfiguredLines :
        LET t == call[s].target IN
        /\ ReadBack(attributes) =
            [direction |-> t.direction, active_low |-> t.active_low, edge |-> t.edge]
        /\ t.level # NoLevel => attributes.raw = t.level

(* assert_gpio_round_trip_contract expects of a session on a line configured *)
(* with an initial level that read_level, the file `value`, returns it.  With *)
(* active_low it does not: the direction file set the wire, not the logical  *)
(* level (gpio/sysfs.rs:322-333).                                           *)
LevelReadsBack ==
    \A s \in ConfiguredLines :
        call[s].target.level # NoLevel => Value(attributes) = call[s].target.level
=============================================================================
