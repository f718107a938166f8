------------------------------- MODULE Daemon -------------------------------
(***************************************************************************)
(* The two processes of the program: app/v2/main.go, tool/procTool,        *)
(* app/v2/client/client.go and the writer of tool/log.                     *)
(*                                                                         *)
(* The parent starts the daemon with a pipe as its standard output, if it  *)
(* gets one, waits for a signal or for the daemon's end, interrupts the    *)
(* daemon and ends.                                                        *)
(* The daemon configures the device and waits for a signal or for the      *)
(* parent's end.  Both monitors are one file per platform with one text,   *)
(* but Process.Wait does not do the same on both.                          *)
(***************************************************************************)
EXTENDS Naturals

VARIABLES
    linux,     \* the platform, Linux or Windows, which never changes
    parent,    \* where the parent is
    exitSeen,  \* eSign of the parent's ManageDaemonMonitor
    stopped,   \* sigCh of the parent
    daemon,    \* where the daemon's main goroutine is
    sigCh,     \* signals in sigCh of the daemon's InitDaemonMonitor
    eSign,     \* eSign of the same
    piped,     \* the daemon's standard output leads to the parent
    toStdout,  \* the daemon's log goes to its standard output too
    cause      \* what killed the daemon

output == <<piped, toStdout>>
state == <<parent, exitSeen, stopped, daemon, sigCh, eSign, output, cause>>
procVars == <<linux, state>>

Ended == {"exited", "crashed", "killed"}
Working == {"launched", "starting", "configured", "waiting", "leaving", "closed"}

ProcInit ==
    /\ linux \in BOOLEAN
    /\ parent = "starting"
    /\ exitSeen = FALSE
    /\ stopped = FALSE
    /\ daemon = "none"
    /\ sigCh = 0
    /\ eSign = FALSE
    /\ piped = FALSE /\ toStdout = FALSE
    /\ cause = "none"

-----------------------------------------------------------------------------
\* A line is logged to the standard output and to the file: multiWriter goes
\* on after an error, but on Linux a write to descriptor 1 whose reader is
\* gone raises SIGPIPE, which ends the process.  Without the file the log goes
\* to the standard error alone, which nobody reads.
LogsToPipe == piped /\ toStdout
PipeBroken == linux /\ LogsToPipe /\ parent = "gone"

\* The daemon logs and moves on from `from' to `to', or dies of the write.
LogAndGoto(from, to) ==
    /\ daemon = from
    /\ IF PipeBroken
       THEN daemon' = "killed" /\ cause' = "pipe"
       ELSE daemon' = to /\ UNCHANGED cause

\* Before signal.Notify.
Deaf == {"launched", "starting", "configured"}

\* Mutant: every signal is queued.
InterruptQueued ==
    IF daemon \in Deaf
    THEN daemon' = "killed" /\ cause' = "signal" /\ UNCHANGED sigCh
    ELSE sigCh' = sigCh + 1 /\ UNCHANGED <<daemon, cause>>

\* Before signal.Notify a signal has its default effect; afterwards it goes
\* to sigCh, which keeps one, and the others are dropped.
Interrupt ==
    IF daemon \in Deaf
    THEN daemon' = "killed" /\ cause' = "signal" /\ UNCHANGED sigCh
    ELSE sigCh' = 1 /\ UNCHANGED <<daemon, cause>>

-----------------------------------------------------------------------------
(* The parent.                                                             *)

\* CreatChildProcess: the daemon is started, or the error is logged.  When
\* StdoutPipe fails it is started all the same, without a pipe.
Spawn ==
    /\ parent = "starting"
    /\ \/ parent' = "spawned" /\ daemon' = "launched" /\ piped' \in BOOLEAN
       \/ parent' = "gone" /\ UNCHANGED <<daemon, piped>>
    /\ UNCHANGED <<exitSeen, stopped, sigCh, eSign, toStdout, cause>>

\* ManageDaemonMonitor: from here on signals are caught.
Manage ==
    /\ parent = "spawned"
    /\ parent' = "managing"
    /\ UNCHANGED <<exitSeen, stopped, daemon, sigCh, eSign, output, cause>>

\* monitorDaemonProcess: Wait returns when the daemon has ended.  Exited() is
\* false on Linux for a process that a signal has ended, always true on
\* Windows.
NoticeExit ==
    /\ parent = "managing" /\ ~exitSeen
    /\ daemon \in Ended
    /\ linux => daemon # "killed"
    /\ exitSeen' = TRUE
    /\ UNCHANGED <<parent, stopped, daemon, sigCh, eSign, output, cause>>

\* The select of ManageDaemonMonitor takes a signal or the daemon's end.
Return ==
    /\ parent = "managing" /\ (stopped \/ exitSeen)
    /\ parent' = "interrupting"
    /\ UNCHANGED <<exitSeen, stopped, daemon, sigCh, eSign, output, cause>>

\* Process.Signal(os.Interrupt), which Windows does not support; then main
\* returns.
InterruptDaemon ==
    /\ parent = "interrupting"
    /\ parent' = "gone"
    /\ IF linux THEN Interrupt ELSE UNCHANGED <<daemon, cause, sigCh>>
    /\ UNCHANGED <<exitSeen, stopped, eSign, output>>

-----------------------------------------------------------------------------
(* The daemon.                                                             *)

\* CreatLog: the first line of the log it opens goes to the pipe.
CreatLog ==
    /\ daemon = "launched"
    /\ UNCHANGED <<linux, parent, exitSeen, stopped, sigCh, eSign, piped>>
    /\ \/ daemon' = "starting" /\ UNCHANGED <<toStdout, cause>>
       \/ /\ toStdout' = TRUE
          /\ IF PipeBroken' THEN daemon' = "killed" /\ cause' = "pipe"
                            ELSE daemon' = "starting" /\ UNCHANGED cause

\* InitRoute, NewDevice, InitGateway and Config, which log what they do; the
\* daemon goes on when Config fails.
Configure ==
    /\ LogAndGoto("starting", "configured")
    /\ UNCHANGED <<parent, exitSeen, stopped, sigCh, eSign, output>>

\* NewDevice fails: CreateClient returns before there is anything to close.
ConfigureFails ==
    /\ LogAndGoto("starting", "closed")
    /\ UNCHANGED <<parent, exitSeen, stopped, sigCh, eSign, output>>

\* gv.Start, then InitDaemonMonitor calls signal.Notify.
NotifySignals ==
    /\ daemon = "configured"
    /\ daemon' = "waiting"
    /\ UNCHANGED <<parent, exitSeen, stopped, sigCh, eSign, output, cause>>

\* Mutant: the goroutine waits without logging.
MonitorParentQuietly ==
    /\ daemon = "waiting" /\ ~linux /\ parent = "gone"
    /\ ~eSign
    /\ eSign' = TRUE
    /\ UNCHANGED <<parent, exitSeen, stopped, daemon, sigCh, output, cause>>

\* Mutant: on Windows too Wait does not wait for the parent.
MonitorParentBlind ==
    /\ daemon = "waiting" /\ ~eSign
    /\ LogAndGoto("waiting", "waiting")
    /\ UNCHANGED <<parent, exitSeen, stopped, sigCh, eSign, output>>

\* monitorParentProcess: a line in the log, then FindProcess and Wait.  On
\* Windows Wait returns at the parent's end; on Linux the parent is no child,
\* Wait fails at once, and the loop comes round again after 10 seconds.
MonitorParent ==
    /\ daemon = "waiting" /\ ~eSign
    /\ LogAndGoto("waiting", "waiting")
    /\ eSign' = (~linux /\ parent = "gone")
    /\ UNCHANGED <<parent, exitSeen, stopped, sigCh, output>>

\* The select of InitDaemonMonitor takes a signal or the parent's end, which
\* is logged; InitDaemonMonitor and CreateClient return.
Leave ==
    /\ sigCh > 0 \/ eSign
    /\ LogAndGoto("waiting", "leaving")
    /\ UNCHANGED <<parent, exitSeen, stopped, sigCh, eSign, output>>

\* The deferred dev.Close().
Close ==
    /\ daemon = "leaving"
    /\ daemon' = "closed"
    /\ UNCHANGED <<parent, exitSeen, stopped, sigCh, eSign, output, cause>>

\* "anApp is closing...", and main returns.
Exit ==
    /\ LogAndGoto("closed", "exited")
    /\ UNCHANGED <<parent, exitSeen, stopped, sigCh, eSign, output>>

-----------------------------------------------------------------------------
(* The world around: signals, kills, panics.                               *)

\* A signal to the parent alone, or from a terminal to both processes.
SignalParent ==
    /\ parent \notin {"starting", "gone"}
    /\ IF parent = "spawned"
       THEN parent' = "gone" /\ UNCHANGED stopped
       ELSE stopped' = TRUE /\ UNCHANGED parent
    /\ Interrupt \/ UNCHANGED <<daemon, cause, sigCh>>
    /\ UNCHANGED <<exitSeen, eSign, output>>

SignalDaemon ==
    /\ daemon \in Working
    /\ Interrupt
    /\ UNCHANGED <<parent, exitSeen, stopped, eSign, output>>

KillParent ==
    /\ parent \notin {"starting", "gone"}
    /\ parent' = "gone"
    /\ UNCHANGED <<exitSeen, stopped, daemon, sigCh, eSign, output, cause>>

KillDaemon ==
    /\ daemon \in Working
    /\ daemon' = "killed" /\ cause' = "kill"
    /\ UNCHANGED <<parent, exitSeen, stopped, sigCh, eSign, output>>

\* An unrecovered panic, or the runtime's fatal errors: exit code 2.
Crash ==
    /\ daemon \in Working
    /\ daemon' = "crashed"
    /\ UNCHANGED <<parent, exitSeen, stopped, sigCh, eSign, output, cause>>

Parent == Manage \/ NoticeExit \/ Return \/ InterruptDaemon
DaemonStep == \/ CreatLog \/ Configure \/ ConfigureFails \/ NotifySignals \/ Leave
              \/ Close \/ Exit

ProcNext ==
    /\ UNCHANGED linux
    /\ \/ Spawn \/ Parent \/ DaemonStep \/ MonitorParent
       \/ SignalParent \/ SignalDaemon \/ KillParent \/ KillDaemon \/ Crash

\* Both processes and the daemon's monitor goroutine are scheduled; no signal
\* and no failure has to come.
ProcFairness ==
    WF_state(Parent) /\ WF_state(DaemonStep) /\ WF_state(MonitorParent)

ProcSpec == ProcInit /\ [][ProcNext]_procVars /\ ProcFairness

-----------------------------------------------------------------------------
ProcTypeOK ==
    /\ linux \in BOOLEAN
    /\ parent \in {"starting", "spawned", "managing", "interrupting", "gone"}
    /\ exitSeen \in BOOLEAN
    /\ stopped \in BOOLEAN
    /\ daemon \in {"none"} \cup Working \cup Ended
    /\ sigCh \in 0..1
    /\ eSign \in BOOLEAN
    /\ piped \in BOOLEAN /\ toStdout \in BOOLEAN
    /\ cause \in {"none", "signal", "pipe", "kill"}

\* The monitors report an end only when it has happened, the parent's only where
\* Wait works; the pipe breaks only under an orphan on Linux that logs to it.
OrphanSigns ==
    /\ eSign => ~linux /\ parent = "gone"
    /\ exitSeen => daemon \in Ended
    /\ cause = "pipe" => PipeBroken /\ daemon = "killed"

\* The daemon leaves its select only after an interrupt or the parent's end, and
\* the parent its own only after a signal or the daemon's end.
LeavesForCause ==
    [][/\ daemon # "leaving" /\ daemon' = "leaving"
              => sigCh = 1 \/ parent = "gone"
       /\ parent # "interrupting" /\ parent' = "interrupting"
              => stopped \/ daemon \in Ended]_procVars

\* The daemon does not outlive the parent: not on Windows, where its monitor
\* notices; not once an interrupt has reached it; and not on Linux while it logs
\* to the pipe, by its next line in the log.  Without StdoutPipe or without the
\* log file nothing ends a Linux daemon whose parent is killed.
NoOrphan ==
    parent = "gone" /\ (~linux \/ LogsToPipe \/ sigCh = 1)
        ~> daemon \in Ended \cup {"none"}

\* "monitor the parent process, wait for the parent to exit": the daemon then
\* leaves by itself, and so closes its device, unless something else ends it.
DaemonNotices ==
    parent = "gone" ~> \/ daemon \in {"none", "exited", "crashed"}
                       \/ cause \in {"signal", "kill"}

\* So it does on Windows, where Wait works on any process.
WindowsNotices == ~linux => DaemonNotices

=============================================================================
