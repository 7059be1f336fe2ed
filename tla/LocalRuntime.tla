---------------------------- MODULE LocalRuntime ----------------------------
(***************************************************************************)
(* The local runtime (cmd/viaduct): `viaduct start`, in the foreground or    *)
(* detached, and `viaduct stop`, which know each other only through the      *)
(* record in local-runtime.json and through the port of the runtime.         *)
(* Several commands run at the same time, are interrupted, and work with     *)
(* process ids that the system uses again.                                  *)
(***************************************************************************)
EXTENDS Naturals

CONSTANTS Commands,  \* invocations of the command line
          Pids       \* process ids

NoPid == "no pid"

\* A missing record names no process.
ASSUME RuntimeAssumption == NoPid \notin Pids

VARIABLES
    process,   \* pid -> free, starting, serving, failed or foreign
    keys,      \* API keys are configured in the store of the runtime
    record,    \* local-runtime.json: the recorded pid
    cmd,       \* command -> kind, step, pid it works with
    interrupt, \* history: commands overlapped, were interrupted or misjudged a probe
    disowned,  \* history: a stop did not take a runtime with keys for a local one
    recycled,  \* history: the pid a stop has verified was freed before the kill
    killed     \* history: a stop killed a foreign process that had the pid all along

rvars == <<process, keys, record, cmd, interrupt, disowned, recycled, killed>>

Idle == [kind |-> "none", step |-> "idle", pid |-> NoPid]
Runtime == {"starting", "serving", "failed"}
Listening == \E p \in Pids : process[p] = "serving"
Active(c) == cmd[c].step \notin {"idle", "running"}

Goto(c, step) == cmd' = [cmd EXCEPT ![c].step = step]
End(c) == cmd' = [cmd EXCEPT ![c] = Idle]
At(c, kinds, step) == cmd[c].kind \in kinds /\ cmd[c].step = step
Starts == {"detached", "foreground"}

\* runtimeReachable: somebody answers the health check in time; an answer that is
\* too late counts as none.
Probe(answered) ==
    \/ answered /\ Listening /\ UNCHANGED interrupt
    \/ ~answered /\ ~Listening /\ UNCHANGED interrupt
    \/ ~answered /\ Listening /\ interrupt' = TRUE

\* The pid of a child that has ended stays taken until its parent ends, too.
Held(p) == \E c \in Commands : cmd[c].kind = "detached" /\ Active(c) /\ cmd[c].pid = p

\* A foreground start is the same process as its server and ends with it.
Without(p) ==
    [c \in Commands |->
       IF cmd[c].kind = "foreground" /\ cmd[c].pid = p /\ cmd[c].step # "idle"
       THEN Idle ELSE cmd[c]]

Gone(p) ==
    /\ process' = [process EXCEPT ![p] = "free"]
    /\ recycled' = recycled \cup {c \in Commands : At(c, {"stop"}, "kill") /\ cmd[c].pid = p}

-----------------------------------------------------------------------------
(* viaduct start.                                                           *)

Begin(c) ==
    /\ cmd[c].step = "idle"
    /\ \E kind \in Starts \cup {"stop"} :
         cmd' = [cmd EXCEPT ![c] = [kind |-> kind, step |-> "read", pid |-> NoPid]]
    /\ interrupt' = (interrupt \/ \E d \in Commands : Active(d))
    /\ recycled' = recycled \ {c}
    /\ UNCHANGED <<process, keys, record, killed, disowned>>

\* prepareLocalRuntime: a runtime that is recorded and answers is left alone; the
\* record of one that does not answer is removed.
prepareLocalRuntime(c) ==
    \/ /\ At(c, Starts, "read")
       /\ Goto(c, IF record = NoPid THEN "launch" ELSE "probe")
       /\ UNCHANGED <<process, keys, record, interrupt, recycled, killed, disowned>>
    \/ /\ At(c, Starts, "probe")
       /\ \/ Probe(TRUE) /\ End(c)
          \/ Probe(FALSE) /\ Goto(c, "forget")
       /\ UNCHANGED <<process, keys, record, recycled, killed, disowned>>
    \/ /\ At(c, Starts, "forget")
       /\ record' = NoPid /\ Goto(c, "launch")
       /\ UNCHANGED <<process, keys, interrupt, recycled, killed, disowned>>

\* A detached start launches a child process and then records it, a foreground
\* start is the process itself and records itself before it serves.
Launch(c) ==
    /\ At(c, Starts, "launch")
    /\ \E p \in Pids : /\ process[p] = "free" /\ ~Held(p)
                       /\ process' = [process EXCEPT ![p] = "starting"]
                       /\ cmd' = [cmd EXCEPT ![c].pid = p, ![c].step = "write"]
    /\ UNCHANGED <<keys, record, interrupt, recycled, killed, disowned>>

\* writeLocalRuntimeState; when that fails the child is killed.
writeLocalRuntimeState(c) ==
    /\ At(c, Starts, "write")
    /\ \/ /\ record' = cmd[c].pid /\ Goto(c, "wait") /\ UNCHANGED <<process, recycled>>
       \/ /\ Gone(cmd[c].pid) /\ End(c) /\ UNCHANGED record
    /\ UNCHANGED <<keys, interrupt, killed, disowned>>

\* waitForRuntimeHealth asks the port, not the process.  A detached start then
\* ends; a foreground start goes on until its server ends.
waitForRuntimeHealth(c) ==
    /\ At(c, Starts, "wait") /\ Listening
    /\ IF cmd[c].kind = "detached" THEN End(c) ELSE Goto(c, "running")
    /\ UNCHANGED <<process, keys, record, interrupt, recycled, killed, disowned>>

\* A foreground start stops its own server and goes on to its deferred calls.
StopServing(c) == process' = [process EXCEPT ![cmd[c].pid] = "failed"] /\ UNCHANGED recycled

\* No answer in 20 s: the process is killed or told to stop.
HealthTimeout(c) ==
    /\ At(c, Starts, "wait")
    /\ interrupt' = (interrupt \/ Listening)
    /\ IF cmd[c].kind = "foreground" THEN StopServing(c)
       ELSE IF process[cmd[c].pid] \in Runtime THEN Gone(cmd[c].pid)
       ELSE UNCHANGED <<process, recycled>>
    /\ Goto(c, "clear")
    /\ UNCHANGED <<keys, record, killed, disowned>>

\* The server of a foreground start ends, by an error or by Ctrl+C.
ForegroundEnds(c) ==
    /\ At(c, {"foreground"}, "running")
    /\ StopServing(c) /\ Goto(c, "clear")
    /\ interrupt' = (interrupt \/ \E d \in Commands : Active(d))
    /\ UNCHANGED <<keys, record, killed, disowned>>

\* clearLocalRuntimeState removes the record, whoever wrote it.
clearLocalRuntimeState(c) ==
    /\ cmd[c].step = "clear"
    /\ record' = NoPid
    /\ End(c)
    /\ IF cmd[c].kind = "foreground" THEN Gone(cmd[c].pid) ELSE UNCHANGED <<process, recycled>>
    /\ UNCHANGED <<keys, interrupt, killed, disowned>>

-----------------------------------------------------------------------------
(* viaduct stop.                                                            *)

StopRead(c) ==
    /\ At(c, {"stop"}, "read")
    /\ IF record = NoPid
       THEN End(c)
       ELSE cmd' = [cmd EXCEPT ![c].step = "verify", ![c].pid = record]
    /\ UNCHANGED <<process, keys, record, interrupt, recycled, killed, disowned>>

\* Mutant: the executable behind the pid is not compared.
recordedRuntimeReachable(c) == process[cmd[c].pid] # "free" /\ ~keys

\* The endpoint reports a local operator session only while no keys are configured.
\* recordedRuntimeVerified: the pid runs this program, the port answers, and the
\* endpoint is a local runtime.
recordedRuntimeVerified(c) == process[cmd[c].pid] \in Runtime /\ ~keys

StopVerify(c) ==
    /\ At(c, {"stop"}, "verify")
    /\ \/ recordedRuntimeVerified(c) /\ Probe(TRUE) /\ Goto(c, "kill") /\ UNCHANGED disowned
       \/ recordedRuntimeVerified(c) /\ Probe(FALSE) /\ Goto(c, "clear") /\ UNCHANGED disowned
       \/ /\ ~recordedRuntimeVerified(c) /\ Goto(c, "clear")
          /\ disowned' = (disowned \/ (keys /\ Listening)) /\ UNCHANGED interrupt
    /\ UNCHANGED <<process, keys, record, recycled, killed>>

\* killRuntimeProcess kills whatever has the pid now.
killRuntimeProcess(c) ==
    /\ At(c, {"stop"}, "kill")
    /\ IF process[cmd[c].pid] = "free"
       THEN End(c) /\ UNCHANGED <<process, killed, recycled>>
       ELSE /\ killed' = (killed \/ (process[cmd[c].pid] = "foreign" /\ c \notin recycled))
            /\ Gone(cmd[c].pid)
            /\ cmd' = [Without(cmd[c].pid) EXCEPT ![c].step = "gone"]
    /\ UNCHANGED <<keys, record, interrupt, disowned>>

\* The port is asked until nobody answers or 10 s are over.
StopWait(c) ==
    /\ At(c, {"stop"}, "gone")
    /\ \/ ~Listening /\ Goto(c, "clear")
       \/ Listening /\ End(c)
    /\ UNCHANGED <<process, keys, record, interrupt, recycled, killed, disowned>>

-----------------------------------------------------------------------------
(* The processes themselves.                                                *)

\* ListenAndServe: one process has the port; another one fails, and exits when it
\* is a detached child.
Serve(p) ==
    /\ process[p] = "starting"
    /\ process' = [process EXCEPT ![p] = IF Listening THEN "failed" ELSE "serving"]
    /\ UNCHANGED <<keys, record, cmd, interrupt, recycled, killed, disowned>>

\* A runtime crashes or a failed child exits; the command of a foreground start
\* is the same process.
Crash(p) ==
    /\ process[p] \in Runtime
    /\ Gone(p)
    /\ cmd' = Without(p)
    /\ UNCHANGED <<keys, record, interrupt, killed, disowned>>

\* The shell kills a command that is not the runtime itself.
Interrupted(c) ==
    /\ Active(c) /\ (cmd[c].kind = "foreground" => cmd[c].pid = NoPid)
    /\ End(c) /\ interrupt' = TRUE
    /\ UNCHANGED <<process, keys, record, recycled, killed, disowned>>

\* External: another program gets a free pid, or ends.
Foreign(p) ==
    /\ process[p] \in {"free", "foreign"} /\ ~Held(p)
    /\ IF process[p] = "free"
       THEN process' = [process EXCEPT ![p] = "foreign"] /\ UNCHANGED recycled
       ELSE Gone(p)
    /\ UNCHANGED <<keys, record, cmd, interrupt, killed, disowned>>

\* An administrator configures a key.
ConfigureKeys ==
    /\ ~keys /\ Listening /\ keys' = TRUE
    /\ UNCHANGED <<process, record, cmd, interrupt, recycled, killed, disowned>>

RInit ==
    /\ process = [p \in Pids |-> "free"] /\ keys = FALSE /\ record = NoPid
    /\ cmd = [c \in Commands |-> Idle]
    /\ interrupt = FALSE /\ disowned = FALSE /\ recycled = {} /\ killed = FALSE

RNext ==
    \/ \E c \in Commands :
         \/ Begin(c) \/ prepareLocalRuntime(c) \/ Launch(c) \/ writeLocalRuntimeState(c)
         \/ waitForRuntimeHealth(c) \/ HealthTimeout(c) \/ ForegroundEnds(c)
         \/ clearLocalRuntimeState(c) \/ StopRead(c) \/ StopVerify(c)
         \/ killRuntimeProcess(c) \/ StopWait(c) \/ Interrupted(c)
    \/ \E p \in Pids : Serve(p) \/ Crash(p) \/ Foreign(p)
    \/ ConfigureKeys

RSpec == RInit /\ [][RNext]_rvars

-----------------------------------------------------------------------------
(* Properties.                                                              *)

\* Only one runtime serves the port, however many starts run at once, and a command
\* that runs the server in the foreground works with a pid that is a runtime's.
RTypeOK ==
    /\ process \in [Pids -> Runtime \cup {"free", "foreign"}]
    /\ record \in Pids \cup {NoPid}
    /\ \A p, q \in Pids : process[p] = "serving" /\ process[q] = "serving" => p = q
    /\ \A c \in Commands : cmd[c].kind = "foreground" /\ cmd[c].step = "running" =>
          process[cmd[c].pid] \in Runtime

\* Between commands, a runtime that serves is the recorded one, so that stop, status
\* and start find it: through crashes, stale records and reused pids, as long as no
\* two commands ran at the same time, none was interrupted or took a slow answer
\* for none, and no key was configured before a stop.
ServingIsRecorded ==
    ~interrupt /\ ~disowned /\ (\A c \in Commands : ~Active(c)) =>
       \A p \in Pids : process[p] = "serving" => record = p

\* Stop never kills a program that is not a Viaduct runtime, whatever a stale record
\* names, unless the pid changed hands between the verification and the kill.
StopKillsViaduct == ~killed

\* start and stop find each other through record, port and pid: a runtime that
\* serves is recorded, only one serves, and stop kills no other program, up to the
\* overlaps and the reuse of pids named above.
RuntimeIsKnown ==
  /\ RTypeOK
  /\ ServingIsRecorded
  /\ StopKillsViaduct
=============================================================================
