--------------------------- MODULE SysfsSessions ---------------------------
(***************************************************************************)
(* The sysfs sessions of lemnos-linux: sessions of either kind on a shared  *)
(* channel, and that they are the sessions lemnos-bus promises.             *)
(***************************************************************************)
EXTENDS PwmSessions, GpioSessions

ASSUME CallAssumption == NoCall \notin PwmCalls \cup LineCalls

Init == ChannelInit /\ (PwmInit \/ GpioInit)

SessionStep(s) == Manage(s) \/ PwmNext(s) \/ GpioNext(s)

Next == Environment \/ \E s \in Sessions : SessionStep(s)

Spec == Init /\ [][Next]_sysfsVars

SysfsTypeOK ==
    /\ channel \in {"absent", "pending", "present"}
    /\ \/ kind = "pwm" /\ attributes \in PwmConfigurations
       \/ kind = "gpio" /\ attributes \in Lines
    /\ state \in [Sessions -> {"none", "idle", "busy", "faulted", "closed"} \cup Opening]
    /\ access \in [Sessions -> Accesses]
    /\ exported_by_session \in [Sessions -> BOOLEAN]
    /\ call \in [Sessions -> {NoCall} \cup (IF kind = "pwm" THEN PwmCalls ELSE LineCalls)]
    /\ \A s \in Sessions : state[s] = "busy" <=> call[s] # NoCall
    /\ unowned \in BOOLEAN

\* A session that is still being opened does not exist for its caller.
Bus == INSTANCE BusSession
    WITH state <- [s \in Sessions |-> IF state[s] \in Opening THEN "none" ELSE state[s]],
         hardware <- attributes,
         Hardware <- PwmConfigurations \cup Lines

-----------------------------------------------------------------------------
(* Sysfs sessions are sessions of lemnos-bus: one call at a time, closed for *)
(* good, and no write but by a call of a session that may write             *)
(* (session.rs, and the guards of every call in pwm.rs and gpio/sysfs.rs).   *)
ImplementsBusSession == Bus!Spec
=============================================================================
