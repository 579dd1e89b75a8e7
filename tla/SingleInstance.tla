--------------------------- MODULE SingleInstance ---------------------------
(***************************************************************************)
(* One running program per data directory: app/SingleInstanceGuard with    *)
(* the way main.cpp uses it.  A start takes the lock and listens, or asks  *)
(* the process that holds the lock to come forward and ends.               *)
(***************************************************************************)
EXTENDS Integers, FiniteSets

CONSTANTS
    Pids,          \* processes at a time
    Builds,        \* programs on the disk
    ProcMaxFaults  \* bound: windows closed, crashes, hangs

ASSUME SingleInstanceAssumption ==
    Pids \subseteq Nat \ {0} /\ Builds \subseteq Nat \ {0} /\ ProcMaxFaults \in Nat

VARIABLES
    proc,       \* what each process is doing, see ProcStates
    build,      \* the program it runs: its build stamp and path; 0 before
    holder,     \* whom contestprogramm.lock names: 0 is nobody, Stale one that is gone
    socket,     \* who listens under the server's name, likewise
    inbox,      \* the "raise" lines not read yet, by process: the builds they name
    wish,       \* history: a start was made, and no window has come forward since
    gap,        \* history: a start found the lock taken and its holder not listening
    procFaults

procVars == <<proc, build, holder, socket, inbox, wish, gap, procFaults>>

\* starting: in tryAcquire(), before the lock    asking: the lock was refused
\* locked: before listen()    handed: waits for "ok"    running: app.exec()
\* quitting: app.exec() has returned, the guard is still there
ProcStates == {"off", "starting", "asking", "locked", "handed", "running", "hung",
               "quitting"}

\* Left behind by a process that crashed
Stale == -1

FreePids == {q \in Pids : proc[q] = "off"}

IsNextPid(p) == p \in FreePids /\ \A q \in FreePids : p <= q

\* A second start reaches a listening socket even if nobody reads it.
Answering == socket \in Pids

\* QLockFile: free, or its process is gone.
LockIsFree == holder \notin Pids

ProcFault == procFaults < ProcMaxFaults /\ procFaults' = procFaults + 1

-----------------------------------------------------------------------------
\* The operator starts a program; a number is left over for a restart.
StartProgram(p, b) ==
    /\ IsNextPid(p) /\ FreePids # {p}
    /\ proc' = [proc EXCEPT ![p] = "starting"] /\ build' = [build EXCEPT ![p] = b]
    /\ wish' = TRUE
    /\ UNCHANGED <<holder, socket, inbox, gap, procFaults>>

\* tryAcquire(): the lock within 200 ms, or not.
TakeLock(p) ==
    /\ proc[p] = "starting" /\ LockIsFree
    /\ holder' = p /\ proc' = [proc EXCEPT ![p] = "locked"]
    /\ UNCHANGED <<build, socket, inbox, wish, gap, procFaults>>

LockRefused(p) ==
    /\ proc[p] = "starting" /\ ~LockIsFree
    /\ proc' = [proc EXCEPT ![p] = "asking"]
    /\ UNCHANGED <<build, holder, socket, inbox, wish, gap, procFaults>>

\* Mutant of Listen: the name a crash left behind is not removed, and listen()
\* fails.
Listen_NotRemoved(p) ==
    /\ proc[p] = "locked"
    /\ socket' = IF socket = 0 THEN p ELSE socket
    /\ proc' = [proc EXCEPT ![p] = "running"] /\ wish' = FALSE
    /\ UNCHANGED <<build, holder, inbox, gap, procFaults>>

\* removeServer(), listen(), the window
Listen(p) ==
    /\ proc[p] = "locked"
    /\ socket' = p
    /\ proc' = [proc EXCEPT ![p] = "running"] /\ wish' = FALSE
    /\ UNCHANGED <<build, holder, inbox, gap, procFaults>>

\* connectToServer(), the line with stamp and path
Ask(p) ==
    /\ proc[p] = "asking" /\ Answering
    /\ inbox' = [inbox EXCEPT ![socket] = @ \cup {build[p]}]
    /\ proc' = [proc EXCEPT ![p] = "handed"]
    /\ UNCHANGED <<build, holder, socket, wish, gap, procFaults>>

\* Nobody listens: the lock once more, and "the operator wins" without it.
GoOnAlone(p) ==
    /\ proc[p] = "asking" /\ ~Answering
    /\ IF LockIsFree
       THEN /\ holder' = p /\ proc' = [proc EXCEPT ![p] = "locked"]
            /\ UNCHANGED <<wish, gap>>
       ELSE /\ proc' = [proc EXCEPT ![p] = "running"] /\ wish' = FALSE
            /\ gap' = (gap \/ proc[holder] = "locked")
            /\ UNCHANGED holder
    /\ UNCHANGED <<build, socket, inbox, procFaults>>

\* "ok", a socket closed under it or the time-out: the start ends here.
StartEnds(p) ==
    /\ proc[p] = "handed"
    /\ proc' = [proc EXCEPT ![p] = "off"] /\ build' = [build EXCEPT ![p] = 0]
    /\ UNCHANGED <<holder, socket, inbox, wish, gap, procFaults>>

\* release()
Released(p) ==
    /\ socket' = IF socket = p THEN 0 ELSE socket
    /\ holder' = IF holder = p THEN 0 ELSE holder

\* Mutant of RestartInto: the new start finds the lock of the process that made it.
RestartInto_LockStays(p, r, b) ==
    /\ proc' = [proc EXCEPT ![p] = "quitting", ![r] = "starting"]
    /\ build' = [build EXCEPT ![r] = b]
    /\ UNCHANGED <<holder, socket>>

\* main.cpp, restartInto(): release(), startDetached(), quit()
RestartInto(p, r, b) ==
    /\ Released(p)
    /\ proc' = [proc EXCEPT ![p] = "quitting", ![r] = "starting"]
    /\ build' = [build EXCEPT ![r] = b]

\* handle(): the window comes forward, or another build takes over.
ReadLine(p, b, r) ==
    /\ proc[p] = "running" /\ b \in inbox[p]
    /\ IF b # build[p]
       THEN /\ IsNextPid(r)
            /\ inbox' = [inbox EXCEPT ![p] = {}]
            /\ RestartInto(p, r, b)
            /\ UNCHANGED wish
       ELSE /\ inbox' = [inbox EXCEPT ![p] = @ \ {b}]
            /\ wish' = FALSE
            /\ UNCHANGED <<proc, build, holder, socket>>
    /\ UNCHANGED <<gap, procFaults>>

\* A restored copy of the log: the same program again.
RestartSelf(p, r) ==
    /\ proc[p] = "running" /\ IsNextPid(r)
    /\ RestartInto(p, r, build[p])
    /\ inbox' = [inbox EXCEPT ![p] = {}] /\ wish' = TRUE
    /\ UNCHANGED <<gap, procFaults>>

\* The window is closed; what comes in now is not read any more.
CloseWindow(p) ==
    /\ ProcFault /\ proc[p] = "running"
    /\ proc' = [proc EXCEPT ![p] = "quitting"]
    /\ UNCHANGED <<build, holder, socket, inbox, wish, gap>>

\* ~SingleInstanceGuard()
ProcessEnds(p) ==
    /\ proc[p] = "quitting"
    /\ Released(p)
    /\ proc' = [proc EXCEPT ![p] = "off"] /\ build' = [build EXCEPT ![p] = 0]
    /\ inbox' = [inbox EXCEPT ![p] = {}]
    /\ UNCHANGED <<wish, gap, procFaults>>

\* A crash leaves the lock file and the name of the server.
ProcessCrashes(p) ==
    /\ ProcFault /\ proc[p] # "off"
    /\ proc' = [proc EXCEPT ![p] = "off"] /\ build' = [build EXCEPT ![p] = 0]
    /\ inbox' = [inbox EXCEPT ![p] = {}]
    /\ holder' = IF holder = p THEN Stale ELSE holder
    /\ socket' = IF socket = p THEN Stale ELSE socket
    /\ UNCHANGED <<wish, gap>>

ProcessHangs(p) ==
    /\ ProcFault /\ proc[p] = "running"
    /\ proc' = [proc EXCEPT ![p] = "hung"]
    /\ UNCHANGED <<build, holder, socket, inbox, wish, gap>>

-----------------------------------------------------------------------------
ProcInit ==
    /\ proc = [p \in Pids |-> "off"] /\ build = [p \in Pids |-> 0]
    /\ holder = 0 /\ socket = 0 /\ inbox = [p \in Pids |-> {}]
    /\ wish = FALSE /\ gap = FALSE /\ procFaults = 0

\* What goes on by itself.
ProcStep(p) ==
    \/ TakeLock(p) \/ LockRefused(p) \/ Listen(p) \/ Ask(p) \/ GoOnAlone(p)
    \/ StartEnds(p) \/ ProcessEnds(p)

ReadLines(p) == \E b \in Builds, r \in Pids : ReadLine(p, b, r)

ProcNext ==
    \E p \in Pids :
        \/ ProcStep(p) \/ ReadLines(p)
        \/ \E b \in Builds : StartProgram(p, b)
        \/ \E r \in Pids : RestartSelf(p, r)
        \/ CloseWindow(p) \/ ProcessCrashes(p) \/ ProcessHangs(p)

ProcFairness == \A p \in Pids : WF_procVars(ProcStep(p)) /\ WF_procVars(ReadLines(p))

-----------------------------------------------------------------------------
ProcTypeOK ==
    /\ proc \in [Pids -> ProcStates] /\ build \in [Pids -> {0} \cup Builds]
    /\ holder \in {0, Stale} \cup Pids /\ socket \in {0, Stale} \cup Pids
    /\ inbox \in [Pids -> SUBSET Builds]
    /\ wish \in BOOLEAN /\ gap \in BOOLEAN /\ procFaults \in 0..ProcMaxFaults

Working == {p \in Pids : proc[p] \in {"running", "hung"}}

\* "A second start does not open a second window on the same database"
\* (SingleInstanceGuard.h:13): two processes work on one log only where a start
\* met the holder of the lock between lock and socket.
OneWorksOnTheLog == gap \/ Cardinality(Working) <= 1

\* "the operator wants the NEW program" (main.cpp:91), or the window in front:
\* while nobody closes, crashes or hangs, every start and every restart ends
\* with a window coming forward.
StartsAreSeen == wish ~> (~wish \/ procFaults > 0)
=============================================================================
