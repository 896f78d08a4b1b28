-------------------------- MODULE MCSysfsSessions --------------------------
(* Two sessions on one channel.  The one shrinks period and duty cycle or    *)
(* turns the channel off, the other expands them or adjusts the duty cycle.  *)
EXTENDS SysfsSessions, TLC

CONSTANTS first, second

Pwm(period, duty_cycle, polarity) ==
    [period |-> period, duty_cycle |-> duty_cycle, enabled |-> TRUE, polarity |-> polarity]

MCPwmRequests ==
    first :> {[call |-> "configure", target |-> Pwm(2, 2, "normal")],
              [call |-> "adjust", file |-> "duty_cycle", value |-> 1]} @@
    second :> {[call |-> "configure", target |-> Pwm(1, 1, "inversed")],
               [call |-> "enable", value |-> FALSE]}

Line(direction, active_low, edge, level) ==
    [direction |-> direction, active_low |-> active_low, edge |-> edge, level |-> level,
     unsupported |-> FALSE]

MCGpioRequests ==
    first :> {[call |-> "configure", target |-> Line("out", "1", "none", "1")],
              [call |-> "read"], [call |-> "write", level |-> "0"]} @@
    second :> {[call |-> "configure", target |-> Line("in", "0", "rising", NoLevel)],
               [call |-> "configure", target |-> Line("out", "0", "none", NoLevel)]}
=============================================================================
