---------------------------- MODULE SysfsChannel ----------------------------
(***************************************************************************)
(* A sysfs channel (a pwm channel or a gpio line) that several sessions of  *)
(* lemnos-linux share: exporting it, waiting for its directory, unexporting *)
(* it.  The pwm and the gpio session do this alike.                         *)
(*                                                                         *)
(* Sessions run in threads of their own and look at the directory before    *)
(* they write to `export`, so each of these is a step.  The kernel keeps    *)
(* the channel and its attributes; whoever can write sysfs can export a     *)
(* channel too, and a chip can be unplugged and come back.                  *)
(***************************************************************************)
CONSTANTS
    Sessions,
    Accesses,   \* the access rights sessions are opened with
    NoCall

VARIABLES
    kind,       \* "pwm" or "gpio": what the channel is
    channel,    \* "absent", "pending" (exported, no directory yet), "present"
    attributes, \* the contents of the channel's files
    state,      \* SessionMetadata.state, or the step of an open
    access,     \* SessionMetadata.access, the same whenever a caller opens again
    exported_by_session,
    call,       \* the call in progress of a busy session
    unowned     \* history: the channel was exported by a process that is no
                \* session, or by a session that does not exist any more

channelVars == <<kind, channel, attributes>>
sessionVars == <<state, access, exported_by_session, call>>
sysfsVars == <<channelVars, sessionVars, unowned>>

SessionAccess == {"SharedReadOnly", "Shared", "Exclusive", "ExclusiveController"}

ASSUME AccessAssumption == Accesses # {} /\ Accesses \subseteq SessionAccess

Opening == {"exporting", "waiting"}
Open == {"idle", "busy", "faulted"}

\* Faulty variant: a closed session is not rejected.
EnsureNotBusy(s) == state[s] \in {"idle", "faulted", "closed"}

\* ensure_open
EnsureOpen(s) == state[s] \in {"idle", "faulted"}
CanWrite(s) == access[s] # "SharedReadOnly"

\* Whether a file of the channel can be read and written at all.
Present == channel = "present"

ChannelInit ==
    /\ channel \in {"absent", "present"}
    /\ unowned = (channel = "present")
    /\ state = [s \in Sessions |-> "none"]
    /\ access \in [Sessions -> Accesses]
    /\ exported_by_session = [s \in Sessions |-> FALSE]
    /\ call = [s \in Sessions |-> NoCall]

-----------------------------------------------------------------------------
(* Opening                                                                  *)

Opened(s, exporter) ==
    /\ state' = [state EXCEPT ![s] = "idle"]
    /\ exported_by_session' = [exported_by_session EXCEPT ![s] = exporter]

\* The first test of ensure_exported: a directory that exists belongs to
\* somebody else.
BeginOpen(s) ==
    /\ state[s] = "none"
    /\ \/ Present /\ Opened(s, FALSE)
       \/ /\ ~ Present
          /\ state' = [state EXCEPT ![s] = "exporting"]
          /\ UNCHANGED exported_by_session
    /\ UNCHANGED <<channelVars, access, call, unowned>>

\* The write to `export`: refused for a channel that is exported already,
\* because another session was faster; and without the chip there is no file.
WriteExport(s) ==
    /\ state[s] = "exporting"
    /\ \/ /\ channel = "absent"
          /\ channel' = "pending"
          /\ state' = [state EXCEPT ![s] = "waiting"]
       \/ /\ state' = [state EXCEPT ![s] = "none"]
          /\ UNCHANGED channel
    /\ UNCHANGED <<kind, attributes, access, exported_by_session, call, unowned>>

\* Faulty variant: the session forgets that it was the exporter.
WaitedForgetting(s) ==
    /\ state[s] = "waiting"
    /\ \/ Present /\ Opened(s, FALSE) /\ UNCHANGED unowned
       \/ /\ ~ Present
          /\ state' = [state EXCEPT ![s] = "none"]
          /\ unowned' = (unowned \/ channel # "absent")
          /\ UNCHANGED exported_by_session
    /\ UNCHANGED <<channelVars, access, call>>

\* wait_for_path returns: the directory is there, or the retries are used up
\* and the open fails; nobody unexports the channel then.
Waited(s) ==
    /\ state[s] = "waiting"
    /\ \/ Present /\ Opened(s, TRUE) /\ UNCHANGED unowned
       \/ /\ ~ Present
          /\ state' = [state EXCEPT ![s] = "none"]
          /\ unowned' = (unowned \/ channel # "absent")
          /\ UNCHANGED exported_by_session
    /\ UNCHANGED <<channelVars, access, call>>

-----------------------------------------------------------------------------
(* Closing                                                                  *)

\* Calls in progress no longer know what the files hold.
Disturb(calls) == [t \in Sessions |-> IF calls[t] = NoCall THEN NoCall
                                      ELSE [calls[t] EXCEPT !.sole = FALSE]]

\* The channel disappears, with whatever is known of who exported it.
Vanish ==
    /\ channel' = "absent"
    /\ unowned' = FALSE
    /\ call' = Disturb(call)

\* close: an exporter unexports, every time it is closed.  A write that fails
\* leaves the session as it was; if the chip is gone there is no file to write.
Close(s) ==
    /\ state[s] \in {"idle", "faulted", "closed"}
    /\ \/ /\ exported_by_session[s] /\ channel # "absent"
          /\ Vanish
          /\ state' = [state EXCEPT ![s] = "closed"]
       \/ /\ exported_by_session[s]
          /\ UNCHANGED <<channel, call, unowned, state>>
       \/ /\ ~ exported_by_session[s] \/ channel = "absent"
          /\ state' = [state EXCEPT ![s] = "closed"]
          /\ UNCHANGED <<channel, call, unowned>>
    /\ UNCHANGED <<kind, attributes, access, exported_by_session>>

\* The session has no Drop: one that was not closed leaves its export behind.
DropSession(s) ==
    /\ state[s] \in {"idle", "faulted", "closed"}
    /\ state' = [state EXCEPT ![s] = "none"]
    /\ exported_by_session' = [exported_by_session EXCEPT ![s] = FALSE]
    /\ unowned' = (unowned \/ (/\ exported_by_session[s]
                               /\ state[s] # "closed"
                               /\ channel # "absent"))
    /\ UNCHANGED <<channelVars, access, call>>

-----------------------------------------------------------------------------
(* The kernel and other processes                                           *)

Appear ==
    /\ channel = "pending"
    /\ channel' = "present"
    /\ UNCHANGED <<kind, attributes, sessionVars, unowned>>

\* The chip goes, and may be there again without the export.
Unplug ==
    /\ channel # "absent"
    /\ Vanish
    /\ UNCHANGED <<kind, attributes, state, access, exported_by_session>>

Environment == Appear \/ Unplug

Manage(s) ==
    \/ BeginOpen(s)
    \/ WriteExport(s)
    \/ Waited(s)
    \/ Close(s)
    \/ DropSession(s)

-----------------------------------------------------------------------------
(* Calls: run_call around steps on the files                                *)

BeginCall(s, c) ==
    /\ EnsureOpen(s)
    /\ state' = [state EXCEPT ![s] = "busy"]
    /\ call' = [call EXCEPT ![s] = c]
    /\ UNCHANGED <<channelVars, access, exported_by_session, unowned>>

\* Faulty variant: the state is updated by a call that succeeds only.
FinishCallIfOk(s, outcome) ==
    /\ state' = [state EXCEPT ![s] = IF outcome = "idle" THEN "idle" ELSE "busy"]
    /\ call' = [call EXCEPT ![s] = NoCall]
    /\ UNCHANGED <<channelVars, access, exported_by_session, unowned>>

FinishCall(s, outcome) ==
    /\ state' = [state EXCEPT ![s] = outcome]
    /\ call' = [call EXCEPT ![s] = NoCall]
    /\ UNCHANGED <<channelVars, access, exported_by_session, unowned>>

Advance(s, c) ==
    /\ call' = [call EXCEPT ![s] = c]
    /\ UNCHANGED <<channelVars, state, access, exported_by_session, unowned>>

\* A write changes the channel's files; the other calls are disturbed by it.
Write(s, files, c) ==
    /\ Present
    /\ attributes' = files
    /\ call' = [Disturb(call) EXCEPT ![s] = c]
    /\ UNCHANGED <<kind, channel, state, access, exported_by_session, unowned>>

-----------------------------------------------------------------------------
(* A channel that a session exported is the business of a session that will *)
(* unexport it, of one that waits for it, or of nobody because an open      *)
(* timed out or a session was dropped unclosed (ensure_exported, close).    *)
ExportAccounted ==
    channel # "absent" /\ ~ unowned =>
        \E s \in Sessions : \/ state[s] = "waiting"
                            \/ state[s] \in Open /\ exported_by_session[s]
=============================================================================
