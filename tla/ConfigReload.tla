---------------------------- MODULE ConfigReload ----------------------------
(***************************************************************************)
(* The reload flow of `alloy run` (src/internal/alloycli/cmd_run.go): the  *)
(* reload closure reads the config files, parses them, shows them on the   *)
(* HTTP service (SetSources) and hands them to the controller's            *)
(* LoadSource.  It is called by the main goroutine for the initial load    *)
(* and on every SIGHUP, and by the HTTP service's /-/reload handler on its *)
(* own goroutine, so two reloads may run at once; LoadSource itself is     *)
(* serialized by loadMut and taken here as one step.  The file is a        *)
(* version number that an operator bumps by editing it.                    *)
(***************************************************************************)
EXTENDS Integers

CONSTANTS
    MaxWrites,  \* bound on edits of the config file
    BadParse,   \* versions that loadSourceFiles or ParseSources reject
    BadLoad,    \* versions whose LoadSource reports errors
    MaxSignals, \* bound on SIGHUPs sent
    MaxHttp     \* bound on /-/reload requests

Version == 0..MaxWrites
Goroutine == {"main", "http"}
None == -1

ASSUME ReloadAssumption ==
    /\ MaxWrites \in Nat /\ MaxSignals \in Nat /\ MaxHttp \in Nat
    /\ BadParse \subseteq Version /\ BadLoad \subseteq Version

VARIABLES
    file,     \* the version on disk
    rpc,      \* per goroutine: where its reload call is ("idle", "parse", "load")
    readv,    \* per goroutine: the version its reload read
    err,      \* per goroutine: the error its last reload returned
    sources,  \* the version httpService.SetSources last got (None if none)
    loaded,   \* the version the controller last loaded without errors
    mainPc,   \* "init", "initWait", "participant", "loop", "sighupWait", "exited"
    pending,  \* a SIGHUP is buffered in reloadSignal (capacity 1)
    ctxDone,  \* the process context is cancelled
    signals,  \* SIGHUPs sent so far
    https,    \* /-/reload requests so far
    demand,   \* history: the newest version a SIGHUP asked for, not yet read
    lastRead  \* history: [v |-> version, g |-> goroutine] of the newest read

vars == <<file, rpc, readv, err, sources, loaded, mainPc, pending, ctxDone,
          signals, https, demand, lastRead>>

Init ==
    /\ file \in Version
    /\ rpc = [g \in Goroutine |-> "idle"]
    /\ readv = [g \in Goroutine |-> None]
    /\ err = [g \in Goroutine |-> FALSE]
    /\ sources = None
    /\ loaded = None
    /\ mainPc = "init"
    /\ pending = FALSE
    /\ ctxDone = FALSE
    /\ signals = 0
    /\ https = 0
    /\ demand = None
    /\ lastRead = [v |-> None, g |-> "main"]

Alive == mainPc # "exited"

-----------------------------------------------------------------------------
(* The reload closure, on goroutine g.                                     *)

\* loadSourceFiles: the files are read.
ReadFiles(g) ==
    /\ rpc[g] = "idle"
    /\ rpc' = [rpc EXCEPT ![g] = "parse"]
    /\ readv' = [readv EXCEPT ![g] = file]
    /\ lastRead' = [v |-> file, g |-> g]

\* Reading or parsing failed: reload returns the error.
ParseFail(g) ==
    /\ Alive
    /\ rpc[g] = "parse"
    /\ readv[g] \in BadParse
    /\ rpc' = [rpc EXCEPT ![g] = "idle"]
    /\ err' = [err EXCEPT ![g] = TRUE]
    /\ UNCHANGED <<file, readv, sources, loaded, mainPc, pending, ctxDone,
                   signals, https, demand, lastRead>>

\* httpService.SetSources with the parsed files.
SetSources(g) ==
    /\ Alive
    /\ rpc[g] = "parse"
    /\ readv[g] \notin BadParse
    /\ sources' = readv[g]
    /\ rpc' = [rpc EXCEPT ![g] = "load"]
    /\ UNCHANGED <<file, readv, err, loaded, mainPc, pending, ctxDone,
                   signals, https, demand, lastRead>>

\* Mutant: reload drops the error LoadSource returned.
LoadSourceErrDropped(g) ==
    /\ Alive
    /\ rpc[g] = "load"
    /\ rpc' = [rpc EXCEPT ![g] = "idle"]
    /\ err' = [err EXCEPT ![g] = FALSE]
    /\ loaded' = IF readv[g] \in BadLoad THEN loaded ELSE readv[g]
    /\ UNCHANGED <<file, readv, sources, mainPc, pending, ctxDone, signals,
                   https, demand, lastRead>>

\* f.LoadSource under loadMut; its error is the reload's error.
LoadSource(g) ==
    /\ Alive
    /\ rpc[g] = "load"
    /\ rpc' = [rpc EXCEPT ![g] = "idle"]
    /\ err' = [err EXCEPT ![g] = readv[g] \in BadLoad]
    /\ loaded' = IF readv[g] \in BadLoad THEN loaded ELSE readv[g]
    /\ UNCHANGED <<file, readv, sources, mainPc, pending, ctxDone, signals,
                   https, demand, lastRead>>

-----------------------------------------------------------------------------
(* The main goroutine of Run.                                              *)

\* The initial reload starts.
InitialReload ==
    /\ mainPc = "init"
    /\ ReadFiles("main")
    /\ mainPc' = "initWait"
    /\ UNCHANGED <<file, err, sources, loaded, pending, ctxDone, signals,
                   https, demand>>

\* The initial reload returned: on an error Run returns and the process
\* exits; otherwise the node changes to the Participant state.
InitialDone ==
    /\ mainPc = "initWait"
    /\ rpc["main"] = "idle"
    /\ mainPc' = IF err["main"] THEN "exited" ELSE "participant"
    /\ UNCHANGED <<file, rpc, readv, err, sources, loaded, pending, ctxDone,
                   signals, https, demand, lastRead>>

\* clusterService.ChangeState; then signal.Notify registers reloadSignal.
BecomeParticipant ==
    /\ mainPc = "participant"
    /\ mainPc' = "loop"
    /\ UNCHANGED <<file, rpc, readv, err, sources, loaded, pending, ctxDone,
                   signals, https, demand, lastRead>>

\* select: <-ctx.Done() returns.
MainCtxDone ==
    /\ mainPc = "loop"
    /\ ctxDone
    /\ mainPc' = "exited"
    /\ UNCHANGED <<file, rpc, readv, err, sources, loaded, pending, ctxDone,
                   signals, https, demand, lastRead>>

\* select: <-reloadSignal is received and reload is called.
SighupReload ==
    /\ mainPc = "loop"
    /\ pending
    /\ pending' = FALSE
    /\ ReadFiles("main")
    /\ demand' = None
    /\ mainPc' = "sighupWait"
    /\ UNCHANGED <<file, err, sources, loaded, ctxDone, signals, https>>

\* The SIGHUP reload returned; its error is only logged.
SighupDone ==
    /\ mainPc = "sighupWait"
    /\ rpc["main"] = "idle"
    /\ mainPc' = "loop"
    /\ UNCHANGED <<file, rpc, readv, err, sources, loaded, pending, ctxDone,
                   signals, https, demand, lastRead>>

-----------------------------------------------------------------------------
(* The environment.                                                        *)

\* A /-/reload request: the HTTP service runs once the controller has
\* started its services, which is after the first successful load.
HttpReload ==
    /\ Alive
    /\ loaded # None
    /\ https < MaxHttp
    /\ https' = https + 1
    /\ ReadFiles("http")
    /\ UNCHANGED <<file, err, sources, loaded, mainPc, pending, ctxDone,
                   signals, demand>>

\* An operator edits the config file.
WriteFile ==
    /\ Alive
    /\ file < MaxWrites
    /\ file' = file + 1
    /\ UNCHANGED <<rpc, readv, err, sources, loaded, mainPc, pending, ctxDone,
                   signals, https, demand, lastRead>>

\* Mutant: the signal is delivered only when the main goroutine is waiting
\* in select, as with an unbuffered reloadSignal channel.
SighupUnbuffered ==
    /\ Alive
    /\ signals < MaxSignals
    /\ signals' = signals + 1
    /\ IF mainPc \in {"loop", "sighupWait"}
         THEN /\ pending' = (pending \/ mainPc = "loop")
              /\ demand' = file
              /\ UNCHANGED mainPc
         ELSE /\ mainPc' = "exited"
              /\ UNCHANGED <<pending, demand>>
    /\ UNCHANGED <<file, rpc, readv, err, sources, loaded, ctxDone, https,
                   lastRead>>

\* A SIGHUP: once signal.Notify is registered it is buffered in
\* reloadSignal (a second one while one is buffered is dropped); before
\* that, Go's default action for SIGHUP terminates the process.
Sighup ==
    /\ Alive
    /\ signals < MaxSignals
    /\ signals' = signals + 1
    /\ IF mainPc \in {"loop", "sighupWait"}
         THEN /\ pending' = TRUE
              /\ demand' = file
              /\ UNCHANGED mainPc
         ELSE /\ mainPc' = "exited"
              /\ UNCHANGED <<pending, demand>>
    /\ UNCHANGED <<file, rpc, readv, err, sources, loaded, ctxDone, https,
                   lastRead>>

\* The process is asked to stop.
Interrupt ==
    /\ Alive
    /\ ~ctxDone
    /\ ctxDone' = TRUE
    /\ UNCHANGED <<file, rpc, readv, err, sources, loaded, mainPc, pending,
                   signals, https, demand, lastRead>>

-----------------------------------------------------------------------------
Next ==
    \/ InitialReload \/ InitialDone \/ BecomeParticipant
    \/ MainCtxDone \/ SighupReload \/ SighupDone
    \/ \E g \in Goroutine : ParseFail(g) \/ SetSources(g) \/ LoadSource(g)
    \/ HttpReload \/ WriteFile \/ Sighup \/ Interrupt

\* Both goroutines are scheduled; the main select is strongly fair to its
\* SIGHUP case (Go picks uniformly among ready cases).
Fairness ==
    /\ \A g \in Goroutine :
          WF_vars(ParseFail(g) \/ SetSources(g) \/ LoadSource(g))
    /\ WF_vars(InitialReload) /\ WF_vars(InitialDone)
    /\ WF_vars(BecomeParticipant) /\ WF_vars(SighupDone)
    /\ SF_vars(SighupReload) /\ SF_vars(MainCtxDone)

Spec == Init /\ [][Next]_vars /\ Fairness

-----------------------------------------------------------------------------
(* Properties.                                                             *)

TypeOK ==
    /\ file \in Version
    /\ rpc \in [Goroutine -> {"idle", "parse", "load"}]
    /\ readv \in [Goroutine -> Version \cup {None}]
    /\ err \in [Goroutine -> BOOLEAN]
    /\ sources \in Version \cup {None}
    /\ loaded \in Version \cup {None}
    /\ mainPc \in {"init", "initWait", "participant", "loop", "sighupWait",
                   "exited"}
    /\ pending \in BOOLEAN
    /\ ctxDone \in BOOLEAN
    /\ signals \in 0..MaxSignals
    /\ https \in 0..MaxHttp
    /\ demand \in Version \cup {None}
    /\ lastRead \in [v : Version \cup {None}, g : Goroutine]

\* A SIGHUP is never lost: after an operator edits the file and sends
\* SIGHUP, the main goroutine eventually reloads a version at least as new,
\* however the signals coalesce in the one-slot channel and overlap with
\* reloads already running (or the process stops).
SighupServed == demand # None ~> (demand = None \/ ~Alive)

\* The configuration read last wins: whenever no reload is running and the
\* most recent read of the file loaded without errors, the controller runs
\* that version (what an operator who edits, then reloads, expects).
NewestReadApplied ==
    (Alive /\ \A g \in Goroutine : rpc[g] = "idle")
        /\ lastRead.v # None /\ lastRead.v \notin BadParse \cup BadLoad
            => loaded = lastRead.v


\* The node announces itself as a Participant of the cluster (and then
\* serves SIGHUPs) only once a configuration has loaded without errors, as
\* the comment before clusterService.ChangeState says; the HTTP reload
\* goroutine cannot supply that load, since it serves only after one.
ParticipantLoaded ==
    mainPc \in {"participant", "loop", "sighupWait"} => loaded # None

=============================================================================
