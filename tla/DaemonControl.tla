--------------------------- MODULE DaemonControl ---------------------------
(***************************************************************************)
(* The background daemon and its controllers (scripts/cli.py: daemon       *)
(* helpers, handle_daemon, the [O] key of handle_watch, handle_api).       *)
(* Every command is a process of its own; commands share the PID file and  *)
(* the process table, and nothing locks either.  A daemon holds its port   *)
(* while it serves; a second one that is given the same port exits.        *)
(***************************************************************************)
EXTENDS Naturals, FiniteSets

CONSTANTS
    Controllers,   \* shells and observer windows that issue commands
    PIDs,          \* process IDs, none of them given out twice
    Ports,         \* the values of --port
    MaxCommands,   \* bound: commands issued in all
    Absent         \* no file, no process

\* What a PID file reads as between the truncation and the write of write_text.
Truncated == "truncated"

ASSUME DaemonAssumption ==
    /\ MaxCommands \in Nat
    /\ Absent \notin PIDs \cup Controllers
    /\ Truncated \notin PIDs \cup {Absent}

VARIABLES
    pidfile,    \* DAEMON_PID_FILE
    proc,       \* the state of every process
    port,       \* the port it was started with
    parent,     \* the observer window that started it, if that still runs
    pc,         \* what each controller does next
    cmd,        \* the command it executes
    pid,        \* the PID its last get_daemon_pid or Popen returned
    issued,     \* commands issued so far
    orphans     \* history: daemons whose starter was interrupted

vars == <<pidfile, proc, port, parent, pc, cmd, pid, issued, orphans>>

States == {"unused", "booting", "serving", "stopping", "zombie", "dead"}

Steps ==
    {"idle", "toggle", "existing", "start", "popen", "truncate", "write",
     "stop", "kill", "unlink"}

Commands == {"none", "start", "stop", "restart", "toggle"}

TypeOK ==
    /\ pidfile \in PIDs \cup {Absent, Truncated}
    /\ proc \in [PIDs -> States]
    /\ port \in [PIDs -> Ports \cup {Absent}]
    /\ parent \in [PIDs -> Controllers \cup {Absent}]
    /\ pc \in [Controllers -> Steps]
    /\ cmd \in [Controllers -> Commands]
    /\ pid \in [Controllers -> PIDs \cup {Absent}]
    /\ issued \in 0..MaxCommands
    /\ orphans \subseteq PIDs

Init ==
    /\ pidfile = Absent
    /\ proc = [p \in PIDs |-> "unused"]
    /\ port = [p \in PIDs |-> Absent]
    /\ parent = [p \in PIDs |-> Absent]
    /\ pc = [c \in Controllers |-> "idle"]
    /\ cmd = [c \in Controllers |-> "none"]
    /\ pid = [c \in Controllers |-> Absent]
    /\ issued = 0
    /\ orphans = {}

\* os.kill(pid, 0) also succeeds for a zombie.
is_pid_alive(p) == proc[p] \in {"booting", "serving", "stopping", "zombie"}

get_daemon_pid ==
    IF pidfile \in PIDs /\ is_pid_alive(pidfile) THEN pidfile ELSE Absent

\* Controller c goes on at step "to"; a command is over at "idle".
Continues(c, to) ==
    /\ pc' = [pc EXCEPT ![c] = to]
    /\ cmd' = [cmd EXCEPT ![c] = IF to = "idle" THEN "none" ELSE @]

-----------------------------------------------------------------------------
FirstStep == [start |-> "existing", stop |-> "stop", restart |-> "stop", toggle |-> "toggle"]

\* The user runs "ulpx daemon ..." or presses [O] in an observer window.
Issue(c) ==
    /\ pc[c] = "idle"
    /\ issued < MaxCommands
    /\ issued' = issued + 1
    /\ \E command \in Commands \ {"none"} :
          /\ cmd' = [cmd EXCEPT ![c] = command]
          /\ pc' = [pc EXCEPT ![c] = FirstStep[command]]
    /\ UNCHANGED <<pidfile, proc, port, parent, pid, orphans>>

\* The key handler stops a daemon it sees and otherwise starts one.
Toggle(c) ==
    /\ pc[c] = "toggle"
    /\ Continues(c, IF get_daemon_pid # Absent THEN "stop" ELSE "start")
    /\ UNCHANGED <<pidfile, proc, port, parent, pid, issued, orphans>>

\* handle_daemon: "Daemon already running".
CheckExisting(c) ==
    /\ pc[c] = "existing"
    /\ Continues(c, IF get_daemon_pid # Absent THEN "idle" ELSE "start")
    /\ UNCHANGED <<pidfile, proc, port, parent, pid, issued, orphans>>

\* Mutant: a PID file, whatever it names, stands for a running daemon.
MutTrustsPidFile(c) ==
    /\ pc[c] = "start"
    /\ Continues(c, IF pidfile # Absent THEN "idle" ELSE "popen")
    /\ UNCHANGED <<pidfile, proc, port, parent, pid, issued, orphans>>

\* start_daemon_process looks again.
CheckStart(c) ==
    /\ pc[c] = "start"
    /\ Continues(c, IF get_daemon_pid # Absent THEN "idle" ELSE "popen")
    /\ UNCHANGED <<pidfile, proc, port, parent, pid, issued, orphans>>

\* Zombies of c are reaped when c creates another process, or exits.
Reaped(c, table) ==
    [p \in PIDs |-> IF table[p] = "zombie" /\ parent[p] = c THEN "dead" ELSE table[p]]

\* Popen: an observer window stays the parent, other commands exit.  The daemon gets
\* the port of the command line.
Popen(c) ==
    /\ pc[c] = "popen"
    /\ \E p \in PIDs, n \in Ports :
          /\ proc[p] = "unused"
          /\ port' = [port EXCEPT ![p] = n]
          /\ proc' = [Reaped(c, proc) EXCEPT ![p] = "booting"]
          /\ parent' = [parent EXCEPT ![p] = IF cmd[c] = "toggle" THEN c ELSE Absent]
          /\ pid' = [pid EXCEPT ![c] = p]
    /\ Continues(c, "truncate")
    /\ UNCHANGED <<pidfile, issued, orphans>>

\* DAEMON_PID_FILE.write_text, which truncates the file first.
Truncate(c) ==
    /\ pc[c] = "truncate"
    /\ pidfile' = Truncated
    /\ Continues(c, "write")
    /\ UNCHANGED <<proc, port, parent, pid, issued, orphans>>

\* Mutant: os.getpid() instead of proc.pid.
MutOwnPid(c) ==
    /\ pc[c] = "write"
    /\ pidfile' = c
    /\ Continues(c, "idle")
    /\ UNCHANGED <<proc, port, parent, pid, issued, orphans>>

WritePid(c) ==
    /\ pc[c] = "write"
    /\ pidfile' = pid[c]
    /\ Continues(c, "idle")
    /\ UNCHANGED <<proc, port, parent, pid, issued, orphans>>

\* Ctrl+C between Popen and the end of write_text.
Interrupt(c) ==
    /\ pc[c] \in {"truncate", "write"}
    /\ orphans' = orphans \cup {pid[c]}
    /\ Continues(c, "idle")
    /\ UNCHANGED <<pidfile, proc, port, parent, pid, issued>>

-----------------------------------------------------------------------------
StopRead(c) ==
    /\ pc[c] = "stop"
    /\ pid' = [pid EXCEPT ![c] = get_daemon_pid]
    /\ Continues(c, IF get_daemon_pid = Absent THEN "unlink" ELSE "kill")
    /\ UNCHANGED <<pidfile, proc, port, parent, issued, orphans>>

\* A process exits: its parent, if any, has to reap it.
Exited(p) == IF parent[p] = Absent THEN "dead" ELSE "zombie"

\* Mutant: no signal is sent.
MutNoSignal(c) ==
    /\ pc[c] = "kill"
    /\ Continues(c, "unlink")
    /\ UNCHANGED <<pidfile, proc, port, parent, pid, issued, orphans>>

\* os.kill(pid, SIGTERM): no handler is installed; errors are ignored.
Kill(c) ==
    /\ pc[c] = "kill"
    /\ proc' = [proc EXCEPT ![pid[c]] =
                  IF @ = "serving" THEN "stopping"
                  ELSE IF @ = "booting" THEN Exited(pid[c]) ELSE @]
    /\ Continues(c, "unlink")
    /\ UNCHANGED <<pidfile, port, parent, pid, issued, orphans>>

\* The PID file goes, whatever it says by now; restart continues with a start.
Unlink(c) ==
    /\ pc[c] = "unlink"
    /\ pidfile' = Absent
    /\ Continues(c, IF cmd[c] = "restart" THEN "existing" ELSE "idle")
    /\ UNCHANGED <<proc, port, parent, pid, issued, orphans>>

\* The observer window is closed: init takes over its children.
Detach(c) ==
    /\ pc[c] = "idle"
    /\ \E p \in PIDs : parent[p] = c
    /\ proc' = Reaped(c, proc)
    /\ parent' = [p \in PIDs |-> IF parent[p] = c THEN Absent ELSE parent[p]]
    /\ UNCHANGED <<pidfile, port, pc, cmd, pid, issued, orphans>>

-----------------------------------------------------------------------------
PortTaken(p) == \E q \in PIDs : proc[q] \in {"serving", "stopping"} /\ port[q] = port[p]

\* handle_api: ThreadingHTTPServer binds the port, or raises and the process ends.
Bind(p) ==
    /\ proc[p] = "booting"
    /\ proc' = [proc EXCEPT ![p] = IF PortTaken(p) THEN Exited(p) ELSE "serving"]
    /\ UNCHANGED <<pidfile, port, parent, pc, cmd, pid, issued, orphans>>

\* The signal takes effect.
Terminate(p) ==
    /\ proc[p] = "stopping"
    /\ proc' = [proc EXCEPT ![p] = Exited(p)]
    /\ UNCHANGED <<pidfile, port, parent, pc, cmd, pid, issued, orphans>>

\* The daemon fails, or the machine reboots under its PID file.
Crash(p) ==
    /\ proc[p] \in {"booting", "serving"}
    /\ proc' = [proc EXCEPT ![p] = Exited(p)]
    /\ UNCHANGED <<pidfile, port, parent, pc, cmd, pid, issued, orphans>>

Step(c) ==
    \/ Toggle(c)
    \/ CheckExisting(c)
    \/ CheckStart(c)
    \/ Popen(c)
    \/ Truncate(c)
    \/ WritePid(c)
    \/ StopRead(c)
    \/ Kill(c)
    \/ Unlink(c)

Quiet == \A c \in Controllers : pc[c] = "idle"

\* The user has no more commands to give.
Done == Quiet /\ issued = MaxCommands /\ UNCHANGED vars

Next ==
    \/ \E c \in Controllers : Issue(c) \/ Step(c) \/ Interrupt(c) \/ Detach(c)
    \/ \E p \in PIDs : Bind(p) \/ Terminate(p) \/ Crash(p)
    \/ Done

Spec == Init /\ [][Next]_vars

\* Commands and daemons run; a signal is delivered.
Fairness ==
    /\ \A c \in Controllers : WF_vars(Step(c))
    /\ \A p \in PIDs : WF_vars(Bind(p)) /\ WF_vars(Terminate(p))

FairSpec == Spec /\ Fairness

-----------------------------------------------------------------------------
\* "Daemonized background task with PID tracking" (README.md): whenever no
\* command is running, a serving daemon is the one the PID file names, so that
\* stop finds it; unless the command that started it was interrupted.
DaemonTracked ==
    Quiet => \A p \in PIDs \ orphans : proc[p] = "serving" => pidfile = p

\* A stop ends the daemon it found.
StopTakesEffect ==
    \A c \in Controllers, p \in PIDs :
        (pc[c] = "kill" /\ pid[c] = p) ~> proc[p] \in {"zombie", "dead"}

\* A stale PID file, of whatever crash, never keeps a daemon from being started:
\* a start that runs while no daemon process exists (a zombie counts as one, as
\* it does for is_pid_alive) gets as far as creating one.
StartNotBlocked ==
    \A c \in Controllers :
        (pc[c] \in {"existing", "start"} /\ \A p \in PIDs : ~ is_pid_alive(p))
            ~> pc[c] = "truncate"
=============================================================================
