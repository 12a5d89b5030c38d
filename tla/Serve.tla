------------------------------- MODULE Serve --------------------------------
(***************************************************************************)
(* `polystac serve` (cmd/polystac/main.go: runServe; internal/app: Build)  *)
(* on a spatialite repository: processes that open one database file,      *)
(* listen, answer requests, are told to stop, fail, are killed, and start  *)
(* again, next to commands that open the file, write and close it.         *)
(* SpatialiteSchema is the opening, RequestChain a request; this module is *)
(* what surrounds them.                                                    *)
(***************************************************************************)
EXTENDS SpatialiteSchema, RequestChain

CONSTANTS
  Servers,   \* the processes that serve; the others are commands
  MaxStarts, \* bound: starts, of all processes together
  MaxKills   \* bound: kills

ASSUME ServersAssumption == Servers \subseteq Proc
ASSUME BoundsAssumption  == MaxStarts \in Nat /\ MaxKills \in Nat

VARIABLES
  life,     \* where runServe is
  listener, \* the goroutine of ListenAndServe
  errCh,    \* the error in the channel
  exit,     \* what runServe is about to return
  late,     \* history: processes whose Shutdown ran into its deadline
  by,       \* the process that answers each request
  starts, kills

lifeVars == <<life, listener, errCh, exit, late, by, starts, kills>>
vars == <<schemaVars, req, lifeVars>>

(* build: in app.Build.  select, shutdown: so named in runServe.  cleanup: *)
(* the deferred repository Close is next.  return: main is next.  A        *)
(* command is at work where a server is in select and shutdown.            *)
Lives == {"down", "build", "select", "shutdown", "work", "cleanup", "return"}

Init ==
  /\ SchemaInit /\ ChainInit
  /\ life = [p \in Proc |-> "down"]
  /\ listener = [p \in Proc |-> "none"]
  /\ errCh = [p \in Proc |-> FALSE]
  /\ exit = [p \in Proc |-> "none"]
  /\ late = {}
  /\ by = [r \in Request |-> NoProc]
  /\ starts = 0 /\ kills = 0

Of(p) == {r \in Request : by[r] = p /\ req[r].at \in Active}

Live(p, l) == life' = [life EXCEPT ![p] = l]

-----------------------------------------------------------------------------
Start(p) ==
  /\ life[p] = "down" /\ starts < MaxStarts
  /\ StartOpen(p)
  /\ Live(p, "build")
  /\ starts' = starts + 1
  /\ UNCHANGED <<listener, errCh, exit, late, by, kills, req>>

Open(p) ==
  /\ life[p] = "build"
  /\ OpenStep(p)
  /\ UNCHANGED <<lifeVars, req>>

(* Mutant: Build is tried again when it fails.                             *)
BuildFailsRetries(p) ==
  /\ life[p] = "build" /\ step[p] = "failed"
  /\ Goto(p, "connect")
  /\ UNCHANGED <<file, writer, seen, done, alone, calm, lifeVars, req>>

BuildFails(p) ==
  /\ life[p] = "build" /\ step[p] = "failed"
  /\ CloseFile(p, FALSE)
  /\ Live(p, "return")
  /\ exit' = [exit EXCEPT ![p] = "error"]
  /\ UNCHANGED <<listener, errCh, late, by, starts, kills, req>>

(* The goroutine is started, and runServe comes to its select (server.New  *)
(* fails only without a repository, and Build has one).                    *)
BuildSucceeds(p) ==
  /\ life[p] = "build" /\ step[p] = "open"
  /\ p \in Servers
  /\ Live(p, "select")
  /\ listener' = [listener EXCEPT ![p] = "starting"]
  /\ UNCHANGED <<errCh, exit, late, by, starts, kills, schemaVars, req>>

(* `polystac migrate` writes through the repository and closes it.         *)
CommandOpens(p) ==
  /\ life[p] = "build" /\ step[p] = "open"
  /\ p \notin Servers
  /\ Live(p, "work")
  /\ UNCHANGED <<listener, errCh, exit, late, by, starts, kills, schemaVars, req>>

CommandWrites(p) ==
  /\ life[p] = "work" /\ file.column
  /\ WriteItem(p)
  /\ UNCHANGED <<lifeVars, req>>

CommandEnds(p) ==
  /\ life[p] = "work"
  /\ Live(p, "cleanup")
  /\ exit' = [exit EXCEPT ![p] = IF p \in done THEN "error" ELSE "ok"]
  /\ UNCHANGED <<listener, errCh, late, by, starts, kills, schemaVars, req>>

-----------------------------------------------------------------------------
(* The goroutine: ListenAndServe binds the address, unless Shutdown came   *)
(* first; it fails then, or at any Accept.                                 *)
Listen(p) ==
  /\ listener[p] = "starting"
  /\ listener' = [listener EXCEPT ![p] =
                    IF life[p] = "select" THEN "up" ELSE "ended"]
  /\ UNCHANGED <<life, errCh, exit, late, by, starts, kills, schemaVars, req>>

ListenFails(p) ==
  /\ listener[p] = "up" \/ (listener[p] = "starting" /\ life[p] = "select")
  /\ listener' = [listener EXCEPT ![p] = "ended"]
  /\ errCh' = [errCh EXCEPT ![p] = TRUE]
  /\ UNCHANGED <<life, exit, late, by, starts, kills, schemaVars, req>>

(* select: an error of the listener.                                       *)
SelectError(p) ==
  /\ life[p] = "select" /\ errCh[p]
  /\ Live(p, "cleanup")
  /\ errCh' = [errCh EXCEPT ![p] = FALSE]
  /\ exit' = [exit EXCEPT ![p] = "error"]
  /\ UNCHANGED <<listener, late, by, starts, kills, schemaVars, req>>

(* select: ctx is done.  Shutdown closes the listeners.                    *)
SelectDone(p) ==
  /\ life[p] = "select" /\ p \in done
  /\ Live(p, "shutdown")
  /\ listener' = [listener EXCEPT ![p] = IF @ = "up" THEN "ended" ELSE @]
  /\ UNCHANGED <<errCh, exit, late, by, starts, kills, schemaVars, req>>

(* Mutant: Close instead of Shutdown.                                      *)
ShutdownAtOnce(p) ==
  /\ life[p] = "shutdown"
  /\ Live(p, "cleanup")
  /\ exit' = [exit EXCEPT ![p] = "ok"]
  /\ UNCHANGED <<listener, errCh, late, by, starts, kills, schemaVars, req>>

(* Shutdown returns when no request is left.                               *)
ShutdownDrained(p) ==
  /\ life[p] = "shutdown" /\ Of(p) = {}
  /\ Live(p, "cleanup")
  /\ exit' = [exit EXCEPT ![p] = "ok"]
  /\ UNCHANGED <<listener, errCh, late, by, starts, kills, schemaVars, req>>

(* ... or when ShutdownTimeout has passed.                                 *)
ShutdownDeadline(p) ==
  /\ life[p] = "shutdown" /\ Of(p) # {}
  /\ Live(p, "cleanup")
  /\ exit' = [exit EXCEPT ![p] = "error"]
  /\ late' = late \cup {p}
  /\ UNCHANGED <<listener, errCh, by, starts, kills, schemaVars, req>>

Cleanup(p) ==
  /\ life[p] = "cleanup"
  /\ CloseFile(p, FALSE)
  /\ Live(p, "return")
  /\ UNCHANGED <<listener, errCh, exit, late, by, starts, kills, req>>

(* The process is gone, and with it its goroutines and connections.        *)
Gone(p) ==
  /\ Live(p, "down")
  /\ listener' = [listener EXCEPT ![p] = "none"]
  /\ errCh' = [errCh EXCEPT ![p] = FALSE]
  /\ req' = [r \in Request |-> IF by[r] = p THEN NoRequest ELSE req[r]]
  /\ by'  = [r \in Request |-> IF by[r] = p THEN NoProc ELSE by[r]]
  /\ exit' = [exit EXCEPT ![p] = "none"]
  /\ late' = late \ {p}
  /\ UNCHANGED <<starts>>

Exit(p) ==
  /\ life[p] = "return"
  /\ Gone(p)
  /\ UNCHANGED <<kills, schemaVars>>

Kill(p) ==
  /\ life[p] # "down" /\ kills < MaxKills
  /\ Gone(p)
  /\ CloseFile(p, TRUE)
  /\ kills' = kills + 1

(* SIGINT or SIGTERM; later ones change nothing.                           *)
Signal(p) ==
  /\ life[p] \in {"build", "select", "work"} /\ p \notin done
  /\ done' = done \cup {p}
  /\ UNCHANGED <<file, writer, step, seen, alone, calm, lifeVars, req>>

-----------------------------------------------------------------------------
Arrive(p, r) ==
  /\ listener[p] = "up"
  /\ req[r].at = "none"
  /\ \E chain \in Chains : req' = [req EXCEPT ![r] = Arrived(chain)]
  /\ by' = [by EXCEPT ![r] = p]
  /\ UNCHANGED <<life, listener, errCh, exit, late, starts, kills, schemaVars>>

(* The answer is out; r stands for the next request.                       *)
Leave(r) ==
  /\ req[r].at = "done"
  /\ req' = [req EXCEPT ![r] = NoRequest]
  /\ by' = [by EXCEPT ![r] = NoProc]
  /\ UNCHANGED <<life, listener, errCh, exit, late, starts, kills, schemaVars>>

Hooks(r) ==
  /\ ChainStep(r)
  /\ UNCHANGED <<schemaVars, lifeVars>>

(* The handler reads, or writes an item; either may fail; without the      *)
(* geometry column, or after Close, it does.                               *)
HandlerFails(r) ==
  /\ Handle(r, Failed) \/ HandlerPanics(r)
  /\ UNCHANGED <<schemaVars, lifeVars>>

HandlerReads(r) ==
  /\ Handle(r, OK)
  /\ step[by[r]] = "open"
  /\ UNCHANGED <<schemaVars, lifeVars>>

HandlerWrites(r) ==
  /\ Handle(r, OK)
  /\ file.column
  /\ WriteItem(by[r])
  /\ UNCHANGED <<lifeVars, file>>

-----------------------------------------------------------------------------
Main(p) ==
  \/ Open(p) \/ BuildFails(p) \/ BuildSucceeds(p)
  \/ CommandOpens(p) \/ CommandEnds(p)
  \/ SelectError(p) \/ SelectDone(p)
  \/ ShutdownDrained(p) \/ ShutdownDeadline(p) \/ Cleanup(p) \/ Exit(p)

Next ==
  \/ \E p \in Proc :
       \/ Start(p) \/ Main(p) \/ CommandWrites(p) \/ Listen(p) \/ ListenFails(p)
       \/ Signal(p) \/ Kill(p)
       \/ \E r \in Request : Arrive(p, r)
  \/ \E r \in Request :
       \/ Hooks(r) \/ HandlerFails(r) \/ HandlerReads(r) \/ HandlerWrites(r)
       \/ Leave(r)

Spec == Init /\ [][Next]_vars

(* The goroutine of runServe runs while it can; busy_timeout and           *)
(* ShutdownTimeout pass.  Nothing is assumed of hooks and handlers.        *)
FairSpec == Spec /\ \A p \in Proc : WF_vars(Main(p))

-----------------------------------------------------------------------------
TypeOK ==
  /\ SchemaTypeOK /\ ChainTypeOK
  /\ life \in [Proc -> Lives]
  /\ listener \in [Proc -> {"none", "starting", "up", "ended"}]
  /\ errCh \in [Proc -> BOOLEAN]
  /\ exit \in [Proc -> {"none", "ok", "error"}]
  /\ late \subseteq Proc
  /\ by \in [Request -> Proc \cup {NoProc}]
  /\ starts \in 0..MaxStarts /\ kills \in 0..MaxKills

(* The repository is closed under a request only when Shutdown ran into    *)
(* its deadline or the listener failed on its own, and then the exit       *)
(* status says so; a status of 0 means that a signal came, every request   *)
(* was answered before the repository was closed, and none was cut off     *)
(* (runServe: the race of errCh with ctx.Done, deferred cleanup).          *)
RepositoryOutlivesRequests ==
  \A p \in Proc :
    /\ Of(p) # {} /\ step[p] = "closed" => exit[p] = "error"
    /\ exit[p] = "ok" => Of(p) = {} /\ p \notin late
    /\ life[p] \in {"cleanup", "return"} /\ exit[p] = "error" /\ Of(p) # {}
         => p \in late \/ listener[p] = "ended"

(* A process that got a signal goes down: in the middle of opening, while  *)
(* others hold the lock, with requests that never end, with a listener     *)
(* that fails at the same time (runServe returns).                         *)
SignalEnds == \A p \in Proc : p \in done ~> life[p] = "down"
=============================================================================
