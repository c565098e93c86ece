--------------------------- MODULE DaemonLifecycle ---------------------------
(***************************************************************************)
(* The life of the daemon process and the commands that start and stop it: *)
(* run_daemon and handle_client of crates/b3-cli/src/daemon/server.rs, the *)
(* start, stop and attach commands, the restart script of mcp/b3.rs, and   *)
(* the registration of the boot service (service.rs).                      *)
(*                                                                         *)
(* Daemon and commands are processes that know each other by two files,    *)
(* b3.pid and b3.sock: both stay behind when the daemon exits, whichever   *)
(* way it exits once it is ready.  A process is named by its pid.          *)
(***************************************************************************)
EXTENDS Naturals, FiniteSets

CONSTANTS
  Process,      \* bound: the daemons ever started
  Command,      \* bound: the commands that run at once
  MaxReboots,   \* bound: the reboots of the machine
  NoProcess

ASSUME DaemonLifecycleAssumption == NoProcess \notin Process /\ MaxReboots \in Nat

VARIABLES
  phase,        \* of a process: how far run_daemon is
  exited,       \* daemons whose child (Claude or bash) has exited
  pty_blocked,  \* daemons with a client handler in a write to the PTY, which
                \* holds the lock of state.pty
  stop_sent,    \* daemons with a Stop message on a connection of its own
  quit_sent,    \* ... with one behind the input of an attached client
  attached,     \* daemons with an attached client
  reused,       \* pids of dead daemons that another program of the user has
  pid_file,     \* the pid in b3.pid; NoProcess: there is no file
  socket_file,  \* who bound b3.sock; NoProcess: there is no file
  service,      \* the boot service is registered
  cmd,          \* of a command: next step
  target,       \* the process it started, asked to stop or killed
  restarting,   \* it runs in the restart script
  reboots

daemonVars == <<phase, exited, pty_blocked, stop_sent, quit_sent, attached, reused>>
fileVars == <<pid_file, socket_file, service>>
commandVars == <<cmd, target, restarting>>
lifecycleVars == <<daemonVars, fileVars, commandVars, reboots>>

Starting == {"forked", "listed", "checked", "spawned", "serving"}
Leaving == {"stopping", "killed", "deregistered"}
IsAlive(p) == phase[p] \in Starting \cup {"ready"} \cup Leaving
\* The listener is in scope until the process ends.
Listens(p) == p # NoProcess /\ phase[p] \in {"ready"} \cup Leaving

\* kill(pid, 0) says yes to any process of the user with that pid.
process_exists(p) == p # NoProcess /\ (IsAlive(p) \/ p \in reused)
is_running == process_exists(pid_file)
\* is_running removes a stale file.
RemoveStalePid == pid_file' = IF is_running THEN pid_file ELSE NoProcess

Phase(p, here, next) == phase[p] = here /\ phase' = [phase EXCEPT ![p] = next]
CommandStep(c, here, next) == cmd[c] = here /\ cmd' = [cmd EXCEPT ![c] = next]

----------------------------------------------------------------------------
(* run_daemon *)

\* The stale socket goes, then the pid is written.
ListItself(p) ==
  /\ Phase(p, "forked", "listed")
  /\ socket_file' = NoProcess /\ pid_file' = p
  /\ UNCHANGED <<exited, pty_blocked, stop_sent, quit_sent, attached, reused, service,
                 commandVars, reboots>>

\* One of five health checks of the API succeeds; the configuration is refreshed.
ApiReached(p) ==
  /\ Phase(p, "listed", "checked")
  /\ UNCHANGED <<exited, pty_blocked, stop_sent, quit_sent, attached, reused,
                 fileVars, commandVars, reboots>>

\* Claude, or bash where that cannot be spawned.
SpawnPty(p) ==
  /\ Phase(p, "checked", "spawned")
  /\ UNCHANGED <<exited, pty_blocked, stop_sent, quit_sent, attached, reused,
                 fileVars, commandVars, reboots>>

\* After 3 s a child that has exited is replaced by bash; the other tasks start.
CheckChild(p) ==
  /\ Phase(p, "spawned", "serving")
  /\ exited' = exited \ {p}
  /\ UNCHANGED <<pty_blocked, stop_sent, quit_sent, attached, reused, fileVars,
                 commandVars, reboots>>

\* IpcListener::bind, over whatever is there.
BindSocket(p) ==
  /\ Phase(p, "serving", "ready")
  /\ socket_file' = p
  /\ UNCHANGED <<exited, pty_blocked, stop_sent, quit_sent, attached, reused,
                 pid_file, service, commandVars, reboots>>

\* The API is not reached, nothing can be spawned or the socket not bound: the
\* CleanupGuard removes the files, whoever's they are.
StartupFails(p) ==
  /\ phase[p] \in {"listed", "checked", "spawned", "serving"}
  /\ phase' = [phase EXCEPT ![p] = "dead"]
  /\ socket_file' = NoProcess /\ pid_file' = NoProcess
  /\ UNCHANGED <<exited, pty_blocked, stop_sent, quit_sent, attached, reused, service,
                 commandVars, reboots>>

\* handle_client reads Stop; behind blocked input it does not come to it.
ReadStop(p) ==
  /\ p \in stop_sent \/ (p \in quit_sent /\ p \notin pty_blocked)
  /\ Phase(p, "ready", "stopping")
  /\ UNCHANGED <<exited, pty_blocked, stop_sent, quit_sent, attached, reused,
                 fileVars, commandVars, reboots>>

\* The exit monitor looks at the child under the lock of state.pty.
MonitorSeesExit(p) ==
  /\ p \in exited /\ p \notin pty_blocked
  /\ Phase(p, "ready", "stopping")
  /\ UNCHANGED <<exited, pty_blocked, stop_sent, quit_sent, attached, reused,
                 fileVars, commandVars, reboots>>

\* The shutdown kills the child under that lock; no deadline bounds the wait.
KillPty(p) ==
  /\ p \notin pty_blocked
  /\ Phase(p, "stopping", "killed")
  /\ exited' = exited \cup {p}
  /\ UNCHANGED <<pty_blocked, stop_sent, quit_sent, attached, reused, fileVars,
                 commandVars, reboots>>

Deregister(p) ==
  /\ Phase(p, "killed", "deregistered")
  /\ service' = FALSE
  /\ UNCHANGED <<exited, pty_blocked, stop_sent, quit_sent, attached, reused,
                 pid_file, socket_file, commandVars, reboots>>

\* Process p is gone, and what depends on it; no file is.
Dies(p) ==
  /\ phase' = [phase EXCEPT ![p] = "dead"]
  /\ pty_blocked' = pty_blocked \ {p}
  /\ attached' = attached \ {p}

\* process::exit runs no destructor: the files stay.
ExitProcess(p) ==
  /\ phase[p] = "deregistered" /\ Dies(p)
  /\ UNCHANGED <<exited, stop_sent, quit_sent, reused, fileVars, commandVars, reboots>>

\* The panic hook exits too, and the system may kill the daemon.
Crashes(p) ==
  /\ IsAlive(p) /\ Dies(p)
  /\ UNCHANGED <<exited, stop_sent, quit_sent, reused, fileVars, commandVars, reboots>>

DaemonStep(p) ==
  \/ ListItself(p) \/ ApiReached(p) \/ SpawnPty(p) \/ CheckChild(p) \/ BindSocket(p)
  \/ ReadStop(p) \/ MonitorSeesExit(p) \/ KillPty(p) \/ Deregister(p) \/ ExitProcess(p)

----------------------------------------------------------------------------
(* The child, attached clients, other programs (external) *)

ChildExits(p) ==
  /\ phase[p] \in {"spawned", "serving", "ready"} /\ p \notin exited
  /\ exited' = exited \cup {p}
  /\ pty_blocked' = pty_blocked \ {p}   \* the write fails
  /\ UNCHANGED <<phase, stop_sent, quit_sent, attached, reused, fileVars, commandVars,
                 reboots>>

\* Input fills the buffer of a PTY whose child does not read.
ClientTypes(p) ==
  /\ p \in attached /\ phase[p] = "ready" /\ p \notin exited \cup pty_blocked
  /\ pty_blocked' = pty_blocked \cup {p}
  /\ UNCHANGED <<phase, exited, stop_sent, quit_sent, attached, reused, fileVars,
                 commandVars, reboots>>

ChildReads(p) ==
  /\ p \in pty_blocked
  /\ pty_blocked' = pty_blocked \ {p}
  /\ UNCHANGED <<phase, exited, stop_sent, quit_sent, attached, reused, fileVars,
                 commandVars, reboots>>

\* Ctrl+B q sends Stop and Ctrl+B d Detach; both end the attach command.
ClientLeaves(p) ==
  /\ p \in attached
  /\ attached' = attached \ {p}
  /\ quit_sent' \in {quit_sent, quit_sent \cup {p}}
  /\ UNCHANGED <<phase, exited, pty_blocked, stop_sent, reused, fileVars, commandVars,
                 reboots>>

PidReused(p) ==
  /\ phase[p] = "dead" /\ p \notin reused
  /\ reused' = reused \cup {p}
  /\ UNCHANGED <<phase, exited, pty_blocked, stop_sent, quit_sent, attached, fileVars,
                 commandVars, reboots>>

ProgramExits(p) ==
  /\ p \in reused
  /\ reused' = reused \ {p}
  /\ UNCHANGED <<phase, exited, pty_blocked, stop_sent, quit_sent, attached, fileVars,
                 commandVars, reboots>>

----------------------------------------------------------------------------
(* b3 start and b3 attach *)

\* main looks before it forks; with a daemon there, start::run looks once more.
StartLooks(c) ==
  /\ \/ CommandStep(c, "idle", IF is_running THEN "run" ELSE "fork")
     \/ CommandStep(c, "start", IF is_running THEN "run" ELSE "fork")
  /\ restarting' = [restarting EXCEPT ![c] = FALSE]
  /\ RemoveStalePid
  /\ UNCHANGED <<daemonVars, socket_file, service, target, reboots>>

RunLooks(c) ==
  /\ CommandStep(c, "run", IF is_running THEN "attach" ELSE "fork")
  /\ RemoveStalePid
  /\ UNCHANGED <<daemonVars, socket_file, service, target, restarting, reboots>>

Fork(c, p) ==
  /\ phase[p] = "none" /\ phase' = [phase EXCEPT ![p] = "forked"]
  /\ CommandStep(c, "fork", "wait")
  /\ target' = [target EXCEPT ![c] = p]
  /\ UNCHANGED <<exited, pty_blocked, stop_sent, quit_sent, attached, reused,
                 fileVars, restarting, reboots>>

\* The pipe brings "R" or "F", or the daemon is found dead.
StartWaits(c) ==
  /\ \/ CommandStep(c, "wait", "install")
     \/ CommandStep(c, "wait", "idle") /\ phase[target[c]] = "dead"
  /\ phase[target[c]] \notin Starting
  /\ UNCHANGED <<daemonVars, fileVars, target, restarting, reboots>>

\* After 30 s start gives up; the daemon, which lists itself at once and may try
\* the API for 55 s, goes on.
StartTimesOut(c) ==
  /\ CommandStep(c, "wait", "idle")
  /\ phase[target[c]] \in Starting \ {"forked"}
  /\ UNCHANGED <<daemonVars, fileVars, target, restarting, reboots>>

InstallService(c) ==
  /\ CommandStep(c, "install", "attach")
  /\ service' = TRUE
  /\ UNCHANGED <<daemonVars, pid_file, socket_file, target, restarting, reboots>>

\* Attach needs a daemon, its socket and an answer; without a terminal, or with
\* --detached, start does without.
Attach(c) ==
  /\ \/ CommandStep(c, "attach", "idle")
     \/ cmd[c] = "idle" /\ UNCHANGED cmd
  /\ RemoveStalePid
  /\ attached' \in {attached} \cup
       (IF is_running /\ Listens(socket_file) /\ phase[socket_file] = "ready"
        THEN {attached \cup {socket_file}} ELSE {})
  /\ UNCHANGED <<phase, exited, pty_blocked, stop_sent, quit_sent, reused,
                 socket_file, service, target, restarting, reboots>>

----------------------------------------------------------------------------
(* b3 stop, alone or in the restart script *)

AfterStop(c) == IF restarting[c] THEN "verify" ELSE "idle"

\* kill_process: whatever has that pid.
Kill(p) ==
  IF p # NoProcess /\ IsAlive(p) THEN Dies(p) /\ UNCHANGED reused
  ELSE reused' = reused \ {p} /\ UNCHANGED <<phase, pty_blocked, attached>>

StopLooks(c) ==
  /\ CommandStep(c, "idle", IF is_running THEN "connect" ELSE "clean")
  /\ restarting' \in {restarting, [restarting EXCEPT ![c] = TRUE]}
  /\ RemoveStalePid
  /\ UNCHANGED <<daemonVars, socket_file, service, target, reboots>>

CleanStale(c) ==
  /\ CommandStep(c, "clean", AfterStop(c))
  /\ socket_file' = NoProcess /\ pid_file' = NoProcess /\ service' = FALSE
  /\ UNCHANGED <<daemonVars, target, restarting, reboots>>

\* A pid without a socket.
StopTerminates(c) ==
  /\ socket_file = NoProcess
  /\ CommandStep(c, "connect", AfterStop(c))
  /\ Kill(pid_file)
  /\ pid_file' = NoProcess /\ service' = FALSE
  /\ UNCHANGED <<exited, stop_sent, quit_sent, socket_file, target, restarting,
                 reboots>>

\* Mutant: stop does not wait for the daemon's end.
StopConnectsAndLeaves(c) ==
  /\ Listens(socket_file)
  /\ CommandStep(c, "connect", "remove")
  /\ stop_sent' = stop_sent \cup {socket_file}
  /\ target' = [target EXCEPT ![c] = socket_file]
  /\ UNCHANGED <<phase, exited, pty_blocked, quit_sent, attached, reused, fileVars,
                 restarting, reboots>>

\* Stop is sent and the daemon's end is polled for.
StopConnects(c) ==
  /\ Listens(socket_file)
  /\ CommandStep(c, "connect", "poll")
  /\ stop_sent' = stop_sent \cup {socket_file}
  /\ target' = [target EXCEPT ![c] = socket_file]
  /\ UNCHANGED <<phase, exited, pty_blocked, quit_sent, attached, reused, fileVars,
                 restarting, reboots>>

\* Nobody listens: the files go, the service stays.
StopIsRefused(c) ==
  /\ socket_file # NoProcess /\ ~Listens(socket_file)
  /\ CommandStep(c, "connect", AfterStop(c))
  /\ socket_file' = NoProcess /\ pid_file' = NoProcess
  /\ UNCHANGED <<daemonVars, service, target, restarting, reboots>>

PollSeesStopped(c) ==
  /\ ~is_running
  /\ CommandStep(c, "poll", AfterStop(c))
  /\ RemoveStalePid
  /\ service' = FALSE
  /\ UNCHANGED <<daemonVars, socket_file, target, restarting, reboots>>

\* 8 s are over.
PollGivesUp(c) ==
  /\ is_running
  /\ CommandStep(c, "poll", "kill")
  /\ UNCHANGED <<daemonVars, fileVars, target, restarting, reboots>>

\* Mutant: the files go without the process.
ForceKillSkipped(c) ==
  /\ CommandStep(c, "kill", "remove")
  /\ UNCHANGED <<daemonVars, fileVars, target, restarting, reboots>>

\* SIGTERM, for which the daemon has no handler; SIGKILL where it is not enough.
ForceKill(c) ==
  /\ CommandStep(c, "kill", "remove")
  /\ Kill(pid_file)
  /\ UNCHANGED <<exited, stop_sent, quit_sent, fileVars, target, restarting, reboots>>

RemoveFiles(c) ==
  /\ CommandStep(c, "remove", AfterStop(c))
  /\ pid_file' = NoProcess /\ socket_file' = NoProcess /\ service' = FALSE
  /\ UNCHANGED <<daemonVars, target, restarting, reboots>>

\* The script kills what the pid file still names, then updates and starts.
VerifyStopped(c) ==
  /\ CommandStep(c, "verify", "start")
  /\ Kill(pid_file)
  /\ pid_file' = NoProcess
  /\ UNCHANGED <<exited, stop_sent, quit_sent, socket_file, service, target,
                 restarting, reboots>>

StopStep(c) ==
  \/ CleanStale(c) \/ StopTerminates(c) \/ StopConnects(c) \/ StopIsRefused(c)
  \/ PollSeesStopped(c) \/ PollGivesUp(c) \/ ForceKill(c) \/ RemoveFiles(c)

\* Everything dies, the files stay, and a registered service runs b3 start.
Reboot(c) ==
  /\ reboots < MaxReboots /\ reboots' = reboots + 1
  /\ phase' = [p \in Process |-> IF IsAlive(p) THEN "dead" ELSE phase[p]]
  /\ pty_blocked' = {} /\ attached' = {} /\ reused' = {}
  /\ cmd' = [d \in Command |-> IF d = c /\ service THEN "start" ELSE "idle"]
  /\ restarting' = [d \in Command |-> FALSE]
  /\ UNCHANGED <<exited, stop_sent, quit_sent, fileVars, target>>

LifecycleInit ==
  /\ phase = [p \in Process |-> "none"]
  /\ exited = {} /\ pty_blocked = {} /\ stop_sent = {} /\ quit_sent = {}
  /\ attached = {} /\ reused = {}
  /\ pid_file = NoProcess /\ socket_file = NoProcess /\ service = FALSE
  /\ cmd = [c \in Command |-> "idle"] /\ target = [c \in Command |-> NoProcess]
  /\ restarting = [c \in Command |-> FALSE] /\ reboots = 0

LifecycleNext ==
  \/ \E p \in Process :
       \/ DaemonStep(p) \/ StartupFails(p) \/ Crashes(p)
       \/ ChildExits(p) \/ ClientTypes(p) \/ ChildReads(p) \/ ClientLeaves(p)
       \/ PidReused(p) \/ ProgramExits(p)
  \/ \E c \in Command :
       \/ StartLooks(c) \/ RunLooks(c) \/ StartWaits(c) \/ StartTimesOut(c)
       \/ InstallService(c) \/ Attach(c)
       \/ StopLooks(c) \/ StopStep(c) \/ VerifyStopped(c) \/ Reboot(c)
       \/ \E p \in Process : Fork(c, p)

LifecycleSpec == LifecycleInit /\ [][LifecycleNext]_lifecycleVars

----------------------------------------------------------------------------
(* Properties *)

\* The type invariant.
LifecycleTypeOK ==
  /\ phase \in [Process -> Starting \cup {"none", "ready", "dead"} \cup Leaving]
  /\ exited \subseteq Process /\ pty_blocked \subseteq Process
  /\ stop_sent \subseteq Process /\ quit_sent \subseteq Process
  /\ attached \subseteq Process /\ reused \subseteq Process
  /\ pid_file \in Process \cup {NoProcess} /\ socket_file \in Process \cup {NoProcess}
  /\ service \in BOOLEAN
  /\ cmd \in [Command -> {"idle", "run", "fork", "wait", "install", "attach", "clean",
                          "connect", "poll", "kill", "remove", "verify", "start"}]
  /\ target \in [Command -> Process \cup {NoProcess}]
  /\ restarting \in [Command -> BOOLEAN] /\ reboots \in 0..MaxReboots

\* When commands are given one at a time there is never a second daemon (the
\* check of start.rs:6, "daemon is already running"), and the one there is can be
\* found: the pid file names it, and once it is ready the socket is its own.
\* Crashes, reboots, failed startups and reused pids do not change that.
DaemonFound ==
  \A p \in Process : IsAlive(p) =>
    /\ \A q \in Process : IsAlive(q) => q = p
    /\ phase[p] # "forked" => pid_file = p
    /\ Listens(p) => socket_file = p

\* stop.rs:68 and 80: a daemon that stop has asked to exit ends, also one whose
\* shutdown waits for a client's input to be read.
StopStops ==
  \A c \in Command, p \in Process :
    cmd[c] = "poll" /\ target[c] = p ~> phase[p] = "dead"

=============================================================================
