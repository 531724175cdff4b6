------------------------ MODULE DaemonControlProofs ------------------------
(***************************************************************************)
(* For every set of controllers, process IDs and ports: types, and         *)
(* the tracking of the daemon as long as commands do not overlap.          *)
(***************************************************************************)
EXTENDS DaemonControl, TLAPS

USE DaemonAssumption

\* A controller that created a process, or found one to signal, knows its PID.
KnowsPid == \A c \in Controllers : pc[c] \in {"truncate", "write", "kill"} => pid[c] \in PIDs

ProcessInv == TypeOK /\ KnowsPid

\* One command at a time: nobody types while another command runs.
Serial == \A c, d \in Controllers : pc[c] # "idle" /\ pc[d] # "idle" => c = d

\* A daemon that serves or will: stop has to find it.
Live(p) == p \notin orphans /\ proc[p] \in {"booting", "serving"}

\* Such a daemon is named by the PID file, or by the command that has just created it.
LiveKnown ==
    \A p \in PIDs : Live(p) =>
        \/ pidfile = p
        \/ \E c \in Controllers : pc[c] \in {"truncate", "write"} /\ pid[c] = p

\* Behind the checks of a start, and behind the signal of a stop, there is no other.
OthersGone ==
    \A c \in Controllers, p \in PIDs :
        /\ pc[c] \in {"popen", "unlink"} => ~Live(p)
        /\ pc[c] \in {"truncate", "write"} /\ Live(p) => p = pid[c]
        /\ pc[c] = "kill" => pidfile = pid[c]

TrackedInv == ProcessInv /\ LiveKnown /\ OthersGone

-----------------------------------------------------------------------------
LEMMA GetType == ASSUME TypeOK PROVE get_daemon_pid \in PIDs \cup {Absent}
BY DEF TypeOK, get_daemon_pid

LEMMA ExitedType == ASSUME NEW p PROVE Exited(p) \in {"dead", "zombie"}
BY DEF Exited

\* Only zombies are reaped.
LEMMA ReapedTable ==
    ASSUME TypeOK, NEW c \in Controllers
    PROVE  /\ Reaped(c, proc) \in [PIDs -> States]
           /\ \A p \in PIDs : \/ Reaped(c, proc)[p] = proc[p]
                              \/ proc[p] = "zombie" /\ Reaped(c, proc)[p] = "dead"
BY DEF TypeOK, Reaped, States

LEMMA ContinuesTypes ==
    ASSUME TypeOK, NEW c \in Controllers, NEW to \in Steps, Continues(c, to)
    PROVE  /\ pc' \in [Controllers -> Steps] /\ cmd' \in [Controllers -> Commands]
           /\ pc'[c] = to
           /\ \A d \in Controllers : d # c => pc'[d] = pc[d]
BY DEF TypeOK, Continues, Commands

LEMMA IssueTypes ==
    ASSUME TypeOK, NEW c \in Controllers, Issue(c)
    PROVE  /\ pc' \in [Controllers -> Steps] /\ cmd' \in [Controllers -> Commands]
           /\ pc[c] = "idle" /\ pc'[c] \in {"existing", "stop", "toggle"}
           /\ \A d \in Controllers : d # c => pc'[d] = pc[d]
           /\ issued' \in 0..MaxCommands
<1>1. PICK command \in {"start", "stop", "restart", "toggle"} :
        /\ cmd' = [cmd EXCEPT ![c] = command]
        /\ pc' = [pc EXCEPT ![c] = FirstStep[command]]
  BY DEF Issue, Commands
<1>2. FirstStep[command] \in {"existing", "stop", "toggle"}
  BY DEF FirstStep
<1>3. pc[c] = "idle" /\ issued < MaxCommands /\ issued' = issued + 1
  BY DEF Issue
<1> QED
  BY <1>1, <1>2, <1>3 DEF TypeOK, Steps, Commands

-----------------------------------------------------------------------------
LEMMA ProcessInit == Init => ProcessInv
BY DEF Init, ProcessInv, TypeOK, KnowsPid, States, Steps, Commands

LEMMA ProcessStep ==
    ASSUME ProcessInv, [Next]_vars
    PROVE  ProcessInv'
<1> USE DEF ProcessInv
<1>1. ASSUME NEW c \in Controllers, Issue(c) PROVE ProcessInv'
  BY <1>1, IssueTypes DEF Issue, TypeOK, KnowsPid
<1>2. ASSUME NEW c \in Controllers, Toggle(c) PROVE ProcessInv'
  <2>1. Continues(c, "stop") \/ Continues(c, "start")
    BY <1>2 DEF Toggle
  <2>2. pc' \in [Controllers -> Steps] /\ cmd' \in [Controllers -> Commands]
        /\ pc'[c] \in {"stop", "start"} /\ \A d \in Controllers : d # c => pc'[d] = pc[d]
    BY <2>1, ContinuesTypes DEF Steps
  <2> QED
    BY <1>2, <2>2 DEF Toggle, TypeOK, KnowsPid
<1>3. ASSUME NEW c \in Controllers, CheckExisting(c) PROVE ProcessInv'
  <2>1. Continues(c, "idle") \/ Continues(c, "start")
    BY <1>3 DEF CheckExisting
  <2>2. pc' \in [Controllers -> Steps] /\ cmd' \in [Controllers -> Commands]
        /\ pc'[c] \in {"idle", "start"} /\ \A d \in Controllers : d # c => pc'[d] = pc[d]
    BY <2>1, ContinuesTypes DEF Steps
  <2> QED
    BY <1>3, <2>2 DEF CheckExisting, TypeOK, KnowsPid
<1>4. ASSUME NEW c \in Controllers, CheckStart(c) PROVE ProcessInv'
  <2>1. Continues(c, "idle") \/ Continues(c, "popen")
    BY <1>4 DEF CheckStart
  <2>2. pc' \in [Controllers -> Steps] /\ cmd' \in [Controllers -> Commands]
        /\ pc'[c] \in {"idle", "popen"} /\ \A d \in Controllers : d # c => pc'[d] = pc[d]
    BY <2>1, ContinuesTypes DEF Steps
  <2> QED
    BY <1>4, <2>2 DEF CheckStart, TypeOK, KnowsPid
<1>5. ASSUME NEW c \in Controllers, Popen(c) PROVE ProcessInv'
  <2>1. PICK p \in PIDs, n \in Ports :
          /\ proc' = [Reaped(c, proc) EXCEPT ![p] = "booting"]
          /\ port' = [port EXCEPT ![p] = n]
          /\ parent' = [parent EXCEPT ![p] = IF cmd[c] = "toggle" THEN c ELSE Absent]
          /\ pid' = [pid EXCEPT ![c] = p]
    BY <1>5 DEF Popen
  <2>2. proc' \in [PIDs -> States]
    BY <2>1, ReapedTable DEF States
  <2>3. parent' \in [PIDs -> Controllers \cup {Absent}] /\ port' \in [PIDs -> Ports \cup {Absent}]
    BY <2>1 DEF TypeOK
  <2>4. pid' \in [Controllers -> PIDs \cup {Absent}] /\ pid'[c] \in PIDs
        /\ \A d \in Controllers : d # c => pid'[d] = pid[d]
    BY <2>1 DEF TypeOK
  <2>5. pc' \in [Controllers -> Steps] /\ cmd' \in [Controllers -> Commands]
        /\ \A d \in Controllers : d # c => pc'[d] = pc[d]
    BY <1>5, ContinuesTypes DEF Popen, Steps
  <2> QED
    BY <1>5, <2>2, <2>3, <2>4, <2>5 DEF Popen, TypeOK, KnowsPid
<1>6. ASSUME NEW c \in Controllers, Truncate(c) PROVE ProcessInv'
  <2>1. pc' \in [Controllers -> Steps] /\ cmd' \in [Controllers -> Commands]
        /\ \A d \in Controllers : d # c => pc'[d] = pc[d]
    BY <1>6, ContinuesTypes DEF Truncate, Steps
  <2> QED
    BY <1>6, <2>1 DEF Truncate, TypeOK, KnowsPid
<1>7. ASSUME NEW c \in Controllers, WritePid(c) PROVE ProcessInv'
  <2>1. pc' \in [Controllers -> Steps] /\ cmd' \in [Controllers -> Commands]
        /\ pc'[c] = "idle" /\ \A d \in Controllers : d # c => pc'[d] = pc[d]
    BY <1>7, ContinuesTypes DEF WritePid, Steps
  <2> QED
    BY <1>7, <2>1 DEF WritePid, TypeOK, KnowsPid
<1>8. ASSUME NEW c \in Controllers, StopRead(c) PROVE ProcessInv'
  <2>1. Continues(c, IF get_daemon_pid = Absent THEN "unlink" ELSE "kill")
    BY <1>8 DEF StopRead
  <2>2. pc' \in [Controllers -> Steps] /\ cmd' \in [Controllers -> Commands]
        /\ pc'[c] = (IF get_daemon_pid = Absent THEN "unlink" ELSE "kill")
        /\ \A d \in Controllers : d # c => pc'[d] = pc[d]
    BY <2>1, ContinuesTypes DEF Steps
  <2>3. pid' \in [Controllers -> PIDs \cup {Absent}] /\ pid'[c] = get_daemon_pid
        /\ \A d \in Controllers : d # c => pid'[d] = pid[d]
    BY <1>8, GetType DEF StopRead, TypeOK
  <2>4. KnowsPid'
    BY <2>2, <2>3, GetType DEF KnowsPid
  <2> QED
    BY <1>8, <2>2, <2>3, <2>4 DEF StopRead, TypeOK
<1>9. ASSUME NEW c \in Controllers, Kill(c) PROVE ProcessInv'
  <2>1. pc' \in [Controllers -> Steps] /\ cmd' \in [Controllers -> Commands]
        /\ pc'[c] = "unlink" /\ \A d \in Controllers : d # c => pc'[d] = pc[d]
    BY <1>9, ContinuesTypes DEF Kill, Steps
  <2>2. proc' \in [PIDs -> States]
    BY <1>9, ExitedType DEF Kill, TypeOK, States
  <2> QED
    BY <1>9, <2>1, <2>2 DEF Kill, TypeOK, KnowsPid
<1>10. ASSUME NEW c \in Controllers, Unlink(c) PROVE ProcessInv'
  <2>1. Continues(c, "existing") \/ Continues(c, "idle")
    BY <1>10 DEF Unlink
  <2>2. pc' \in [Controllers -> Steps] /\ cmd' \in [Controllers -> Commands]
        /\ pc'[c] \in {"existing", "idle"} /\ \A d \in Controllers : d # c => pc'[d] = pc[d]
    BY <2>1, ContinuesTypes DEF Steps
  <2> QED
    BY <1>10, <2>2 DEF Unlink, TypeOK, KnowsPid
<1>11. ASSUME NEW c \in Controllers, Interrupt(c) PROVE ProcessInv'
  <2>1. pc' \in [Controllers -> Steps] /\ cmd' \in [Controllers -> Commands]
        /\ pc'[c] = "idle" /\ \A d \in Controllers : d # c => pc'[d] = pc[d]
    BY <1>11, ContinuesTypes DEF Interrupt, Steps
  <2>2. pid[c] \in PIDs
    BY <1>11 DEF Interrupt, KnowsPid
  <2> QED
    BY <1>11, <2>1, <2>2 DEF Interrupt, TypeOK, KnowsPid
<1>12. ASSUME NEW c \in Controllers, Detach(c) PROVE ProcessInv'
  <2>1. parent' \in [PIDs -> Controllers \cup {Absent}]
    BY <1>12 DEF Detach, TypeOK
  <2> QED
    BY <1>12, <2>1, ReapedTable DEF Detach, TypeOK, KnowsPid
<1>13. ASSUME NEW p \in PIDs, Bind(p) \/ Terminate(p) \/ Crash(p) PROVE ProcessInv'
  <2>1. proc' \in [PIDs -> States]
    BY <1>13, ExitedType DEF Bind, Terminate, Crash, TypeOK, States
  <2> QED
    BY <1>13, <2>1 DEF Bind, Terminate, Crash, TypeOK, KnowsPid
<1>14. CASE Done \/ UNCHANGED vars
  BY <1>14 DEF Done, vars, TypeOK, KnowsPid
<1> QED
  BY <1>1, <1>2, <1>3, <1>4, <1>5, <1>6, <1>7, <1>8, <1>9, <1>10, <1>11, <1>12, <1>13, <1>14
  DEF Next, Step

\* The types of the PID file, the process table and the commands, for any number
\* of commands that race (handle_daemon, handle_watch, handle_api).
THEOREM DaemonTypes == Spec => []TypeOK
<1>1. Spec => []ProcessInv
  BY ProcessInit, ProcessStep, PTL DEF Spec
<1> QED
  BY <1>1, PTL DEF ProcessInv

-----------------------------------------------------------------------------
\* What a step does to live daemons and the PID file: at most Popen makes one.
LEMMA TrackedStep ==
    ASSUME TrackedInv, ProcessInv', Serial, Serial', [Next]_vars
    PROVE  TrackedInv'
<1> USE DEF TrackedInv, ProcessInv
<1>0. ASSUME proc' = proc, orphans' = orphans PROVE \A p \in PIDs : Live(p)' <=> Live(p)
  BY <1>0 DEF Live
<1>1. ASSUME NEW c \in Controllers, Issue(c) PROVE TrackedInv'
  <2>1. UNCHANGED <<pidfile, pid>> /\ \A p \in PIDs : Live(p)' <=> Live(p)
    BY <1>1, <1>0 DEF Issue
  <2>2. pc[c] = "idle" /\ pc'[c] \in {"existing", "stop", "toggle"}
        /\ \A d \in Controllers : d # c => pc'[d] = pc[d]
    BY <1>1, IssueTypes
  <2>3. LiveKnown'
    BY <2>1, <2>2 DEF LiveKnown
  <2>4. OthersGone'
    BY <2>1, <2>2 DEF OthersGone
  <2> QED
    BY <2>3, <2>4
<1>2. ASSUME NEW c \in Controllers, Toggle(c) PROVE TrackedInv'
  <2>1. Continues(c, "stop") \/ Continues(c, "start")
    BY <1>2 DEF Toggle
  <2>2. pc[c] = "toggle" /\ pc'[c] \in {"stop", "start"} /\ \A d \in Controllers : d # c => pc'[d] = pc[d]
    BY <1>2, <2>1, ContinuesTypes DEF Toggle, Steps
  <2> QED
    BY <1>2, <1>0, <2>2 DEF Toggle, LiveKnown, OthersGone
<1>3. ASSUME NEW c \in Controllers, CheckExisting(c) PROVE TrackedInv'
  <2>1. Continues(c, "idle") \/ Continues(c, "start")
    BY <1>3 DEF CheckExisting
  <2>2. pc[c] = "existing" /\ pc'[c] \in {"idle", "start"} /\ \A d \in Controllers : d # c => pc'[d] = pc[d]
    BY <1>3, <2>1, ContinuesTypes DEF CheckExisting, Steps
  <2> QED
    BY <1>3, <1>0, <2>2 DEF CheckExisting, LiveKnown, OthersGone
<1>4. ASSUME NEW c \in Controllers, pc[c] \in {"start", "stop"}, get_daemon_pid = Absent, NEW p \in PIDs
      PROVE  ~Live(p)
  <2>1. \A d \in Controllers : pc[d] \notin {"truncate", "write"}
    BY <1>4 DEF Serial
  <2> QED
    BY <1>4, <2>1 DEF LiveKnown, Live, get_daemon_pid, is_pid_alive
<1>5. ASSUME NEW c \in Controllers, CheckStart(c) PROVE TrackedInv'
  <2>1. Continues(c, IF get_daemon_pid # Absent THEN "idle" ELSE "popen")
    BY <1>5 DEF CheckStart
  <2>2. pc[c] = "start" /\ pc'[c] = (IF get_daemon_pid # Absent THEN "idle" ELSE "popen")
        /\ \A d \in Controllers : d # c => pc'[d] = pc[d]
    BY <1>5, <2>1, ContinuesTypes DEF CheckStart, Steps
  <2> QED
    BY <1>5, <1>0, <1>4, <2>2 DEF CheckStart, LiveKnown, OthersGone
<1>6. ASSUME NEW c \in Controllers, Popen(c) PROVE TrackedInv'
  <2>1. PICK p \in PIDs :
          /\ proc' = [Reaped(c, proc) EXCEPT ![p] = "booting"]
          /\ pid' = [pid EXCEPT ![c] = p]
    BY <1>6 DEF Popen
  <2>2. pc[c] = "popen" /\ pc'[c] = "truncate" /\ \A d \in Controllers : d # c => pc'[d] = pc[d]
    BY <1>6, ContinuesTypes DEF Popen, Steps
  <2>3. pid'[c] = p /\ \A d \in Controllers : d # c => pid'[d] = pid[d]
    BY <2>1 DEF TypeOK
  <2>4. \A q \in PIDs : q # p => (Live(q)' => Live(q))
    BY <1>6, <2>1, ReapedTable DEF Popen, Live
  <2>5. \A q \in PIDs : Live(q)' => q = p
    BY <2>2, <2>4 DEF OthersGone
  <2>6. \A d \in Controllers : d # c => pc[d] = "idle"
    BY <2>2 DEF Serial
  <2> QED
    BY <1>6, <2>2, <2>3, <2>5, <2>6 DEF Popen, LiveKnown, OthersGone
<1>7. ASSUME NEW c \in Controllers, Truncate(c) PROVE TrackedInv'
  <2>1. pc[c] = "truncate" /\ pc'[c] = "write" /\ \A d \in Controllers : d # c => pc'[d] = pc[d]
    BY <1>7, ContinuesTypes DEF Truncate, Steps
  <2>2. \A d \in Controllers : d # c => pc[d] = "idle"
    BY <2>1 DEF Serial
  <2> QED
    BY <1>7, <1>0, <2>1, <2>2 DEF Truncate, LiveKnown, OthersGone
<1>8. ASSUME NEW c \in Controllers, WritePid(c) PROVE TrackedInv'
  <2>1. pc[c] = "write" /\ pc'[c] = "idle" /\ \A d \in Controllers : d # c => pc'[d] = pc[d]
    BY <1>8, ContinuesTypes DEF WritePid, Steps
  <2>2. \A d \in Controllers : d # c => pc[d] = "idle"
    BY <2>1 DEF Serial
  <2> QED
    BY <1>8, <1>0, <2>1, <2>2 DEF WritePid, LiveKnown, OthersGone
<1>9. ASSUME NEW c \in Controllers, Interrupt(c) PROVE TrackedInv'
  <2>1. pc[c] \in {"truncate", "write"} /\ pc'[c] = "idle" /\ \A d \in Controllers : d # c => pc'[d] = pc[d]
    BY <1>9, ContinuesTypes DEF Interrupt, Steps
  <2>2. \A d \in Controllers : d # c => pc[d] = "idle"
    BY <2>1 DEF Serial
  <2>3. \A p \in PIDs : ~Live(p)'
    BY <1>9, <2>1 DEF Interrupt, Live, OthersGone
  <2> QED
    BY <2>1, <2>2, <2>3 DEF LiveKnown, OthersGone
<1>10. ASSUME NEW c \in Controllers, StopRead(c) PROVE TrackedInv'
  <2>1. Continues(c, IF get_daemon_pid = Absent THEN "unlink" ELSE "kill")
    BY <1>10 DEF StopRead
  <2>2. pc[c] = "stop" /\ pc'[c] = (IF get_daemon_pid = Absent THEN "unlink" ELSE "kill")
        /\ \A d \in Controllers : d # c => pc'[d] = pc[d]
    BY <1>10, <2>1, ContinuesTypes DEF StopRead, Steps
  <2>3. pid'[c] = get_daemon_pid /\ pidfile' = pidfile
    BY <1>10 DEF StopRead, TypeOK
  <2>4. \A d \in Controllers : d # c => pc[d] = "idle"
    BY <2>2 DEF Serial
  <2>5. get_daemon_pid # Absent => pidfile = get_daemon_pid
    BY DEF get_daemon_pid
  <2>6. \A p \in PIDs : Live(p)' <=> Live(p)
    BY <1>10, <1>0 DEF StopRead
  <2>7. LiveKnown'
    BY <2>2, <2>3, <2>4, <2>6 DEF LiveKnown
  <2>8. OthersGone'
    BY <1>4, <2>2, <2>3, <2>4, <2>5, <2>6 DEF OthersGone
  <2> QED
    BY <2>7, <2>8
<1>11. ASSUME NEW c \in Controllers, Kill(c) PROVE TrackedInv'
  <2>1. pc[c] = "kill" /\ pc'[c] = "unlink" /\ \A d \in Controllers : d # c => pc'[d] = pc[d]
    BY <1>11, ContinuesTypes DEF Kill, Steps
  <2>2. \A d \in Controllers : d # c => pc[d] = "idle"
    BY <2>1 DEF Serial
  <2>3. pid[c] \in PIDs /\ pidfile = pid[c]
    BY <2>1 DEF KnowsPid, OthersGone
  <2>4. proc'[pid[c]] \notin {"booting", "serving"}
        /\ \A p \in PIDs : p # pid[c] => proc'[p] = proc[p]
    BY <1>11, <2>3, ExitedType DEF Kill, TypeOK
  <2>5. \A p \in PIDs : ~Live(p)'
    BY <1>11, <2>1, <2>2, <2>3, <2>4 DEF Kill, Live, LiveKnown
  <2> QED
    BY <2>1, <2>2, <2>5 DEF LiveKnown, OthersGone
<1>12. ASSUME NEW c \in Controllers, Unlink(c) PROVE TrackedInv'
  <2>1. Continues(c, "existing") \/ Continues(c, "idle")
    BY <1>12 DEF Unlink
  <2>2. pc[c] = "unlink" /\ pc'[c] \in {"existing", "idle"} /\ \A d \in Controllers : d # c => pc'[d] = pc[d]
    BY <1>12, <2>1, ContinuesTypes DEF Unlink, Steps
  <2>3. \A d \in Controllers : d # c => pc[d] = "idle"
    BY <2>2 DEF Serial
  <2>4. \A p \in PIDs : ~Live(p)'
    BY <1>12, <1>0, <2>2 DEF Unlink, OthersGone
  <2> QED
    BY <2>2, <2>3, <2>4 DEF LiveKnown, OthersGone
<1>13. ASSUME NEW c \in Controllers, Detach(c) PROVE TrackedInv'
  <2>1. \A p \in PIDs : Live(p)' => Live(p)
    BY <1>13, ReapedTable DEF Detach, Live
  <2> QED
    BY <1>13, <2>1 DEF Detach, LiveKnown, OthersGone
<1>14. ASSUME NEW p \in PIDs, Bind(p) \/ Terminate(p) \/ Crash(p) PROVE TrackedInv'
  <2>1. \A q \in PIDs : Live(q)' => Live(q)
    BY <1>14, ExitedType DEF Bind, Terminate, Crash, Live, TypeOK
  <2>2. UNCHANGED <<pidfile, pc, pid>>
    BY <1>14 DEF Bind, Terminate, Crash
  <2> QED
    BY <2>1, <2>2 DEF LiveKnown, OthersGone
<1>15. CASE Done \/ UNCHANGED vars
  BY <1>15 DEF Done, vars, LiveKnown, OthersGone, Live
<1> QED
  BY <1>1, <1>2, <1>3, <1>5, <1>6, <1>7, <1>8, <1>9, <1>10, <1>11, <1>12, <1>13, <1>14, <1>15
  DEF Next, Step

\* PID tracking (start_daemon_process, stop_daemon_process): as long as no two
\* commands overlap, however many shells and windows issue them, and whatever
\* crashes, interruptions and lost ports happen in between, the PID file names
\* the serving daemon whenever no command runs.
THEOREM SerialCommandsTrack == Spec /\ []Serial => []DaemonTracked
<1>1. Spec => []ProcessInv
  BY ProcessInit, ProcessStep, PTL DEF Spec
<1>2. Init => TrackedInv
  <2>1. ASSUME Init PROVE LiveKnown /\ OthersGone
    BY <2>1 DEF Init, LiveKnown, OthersGone, Live
  <2> QED
    BY <2>1, ProcessInit DEF TrackedInv
<1>3. TrackedInv /\ ProcessInv' /\ Serial /\ Serial' /\ [Next]_vars => TrackedInv'
  BY TrackedStep
<1>4. TrackedInv => DaemonTracked
  BY DEF TrackedInv, LiveKnown, Live, DaemonTracked, Quiet
<1> QED
  BY <1>1, <1>2, <1>3, <1>4, PTL DEF Spec

=============================================================================
