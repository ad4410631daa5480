------------------------- MODULE ConfigReloadProofs -------------------------
(***************************************************************************)
(* Proofs about the reload flow of `alloy run`, for every bound on edits,  *)
(* signals and HTTP requests and every set of bad versions: the state is   *)
(* well typed and the node becomes a Participant only after a load that    *)
(* succeeded.  That every SIGHUP is served (SighupServed) is a liveness    *)
(* property and is checked by TLC only.                                    *)
(***************************************************************************)
EXTENDS ConfigReload, TLAPS

\* The inductive invariant.  A reload that is running has read a version
\* of the file no newer than the file now (edits only move forward), one
\* that parsed once it is loading, and the initial reload, once it has
\* returned without an error, has left a loaded configuration behind: only
\* the main goroutine writes err["main"], and the HTTP goroutine does not
\* run before a load.
IInv ==
    /\ TypeOK
    /\ \A g \in Goroutine : rpc[g] # "idle" => readv[g] \in 0..file
    /\ \A g \in Goroutine : rpc[g] = "load" => readv[g] \notin BadParse
    /\ mainPc = "initWait" /\ rpc["main"] = "idle" /\ ~err["main"]
           => loaded # None
    /\ ParticipantLoaded


USE ReloadAssumption DEF ReloadAssumption

-----------------------------------------------------------------------------
LEMMA InitIInv == Init => IInv
<1> SUFFICES ASSUME Init PROVE IInv
  OBVIOUS
<1>1. /\ file \in Version
      /\ rpc \in [Goroutine -> {"idle", "parse", "load"}]
      /\ readv \in [Goroutine -> Version \cup {None}]
      /\ err \in [Goroutine -> BOOLEAN]
  BY DEF Init, Version, None
<1>2. /\ sources \in Version \cup {None} /\ loaded \in Version \cup {None}
      /\ demand \in Version \cup {None}
      /\ lastRead \in [v : Version \cup {None}, g : Goroutine]
  BY DEF Init, Version, None, Goroutine
<1>3. /\ signals \in 0..MaxSignals /\ https \in 0..MaxHttp
      /\ mainPc \in {"init", "initWait", "participant", "loop", "sighupWait",
                     "exited"}
  BY DEF Init
<1>4. pending \in BOOLEAN /\ ctxDone \in BOOLEAN
  BY Zenon DEF Init
<1> QED
  BY <1>1, <1>2, <1>3, <1>4 DEF Init, IInv, TypeOK, ParticipantLoaded

\* The reload closure, on either goroutine.
LEMMA ReloadStepIInv ==
    ASSUME IInv, NEW g \in Goroutine,
           ParseFail(g) \/ SetSources(g) \/ LoadSource(g)
    PROVE  IInv'
<1>1. CASE ParseFail(g)
  BY <1>1 DEF ParseFail, IInv, TypeOK, Version, None, Goroutine,
              ParticipantLoaded
<1>2. CASE SetSources(g)
  BY <1>2 DEF SetSources, IInv, TypeOK, Version, None, Goroutine,
              ParticipantLoaded
<1>3. CASE LoadSource(g)
  <2>1. err' \in [Goroutine -> BOOLEAN]
    <3>1. (readv[g] \in BadLoad) \in BOOLEAN
      OBVIOUS
    <3>2. err \in [Goroutine -> BOOLEAN]
      BY DEF IInv, TypeOK
    <3> QED
      BY <1>3, <3>1, <3>2 DEF LoadSource
  <2>2. loaded' \in Version \cup {None} /\ loaded' = None => loaded = None
    BY <1>3 DEF LoadSource, IInv, TypeOK, Version, None, Goroutine
  <2>3. g = "main" /\ ~err'["main"] => loaded' # None
    <3>1. readv[g] \in Version
      BY <1>3 DEF LoadSource, IInv, TypeOK, Version
    <3>2. CASE readv[g] \in BadLoad
      <4>1. g = "main" => err'["main"] = TRUE
        BY <1>3, <3>2 DEF LoadSource, IInv, TypeOK
      <4> QED
        BY <4>1, Zenon
    <3>3. CASE readv[g] \notin BadLoad
      BY <1>3, <3>1, <3>3 DEF LoadSource, Version, None
    <3> QED
      BY <3>2, <3>3
  <2>4. g # "main" => err'["main"] = err["main"]
    BY <1>3 DEF LoadSource, IInv, TypeOK, Goroutine
  <2>5. rpc'["main"] = "idle" /\ g # "main" => rpc["main"] = "idle"
    BY <1>3 DEF LoadSource, IInv, TypeOK, Goroutine
  <2> QED
    BY <1>3, <2>1, <2>2, <2>3, <2>4, <2>5
       DEF LoadSource, IInv, TypeOK, Version, None, Goroutine,
           ParticipantLoaded
<1> QED
  BY <1>1, <1>2, <1>3

\* The steps of the main goroutine.
LEMMA MainStepIInv ==
    ASSUME IInv,
           InitialReload \/ InitialDone \/ BecomeParticipant \/ MainCtxDone
           \/ SighupReload \/ SighupDone
    PROVE  IInv'
<1>1. CASE InitialReload
  BY <1>1 DEF InitialReload, ReadFiles, IInv, TypeOK, Version, None,
              Goroutine, ParticipantLoaded
<1>2. CASE InitialDone
  BY <1>2 DEF InitialDone, IInv, TypeOK, Version, None, Goroutine,
              ParticipantLoaded
<1>3. CASE BecomeParticipant
  BY <1>3 DEF BecomeParticipant, IInv, TypeOK, Version, None, Goroutine,
              ParticipantLoaded
<1>4. CASE MainCtxDone
  BY <1>4 DEF MainCtxDone, IInv, TypeOK, Version, None, Goroutine,
              ParticipantLoaded
<1>5. CASE SighupReload
  <2>1. /\ rpc' = [rpc EXCEPT !["main"] = "parse"]
        /\ readv' = [readv EXCEPT !["main"] = file]
        /\ file' = file /\ loaded' = loaded /\ err' = err
        /\ mainPc' = "sighupWait" /\ pending' = FALSE /\ demand' = None
        /\ lastRead' = [v |-> file, g |-> "main"]
    BY <1>5 DEF SighupReload, ReadFiles
  <2>2. mainPc = "loop"
    BY <1>5 DEF SighupReload
  <2>4. pending' \in BOOLEAN /\ ctxDone' \in BOOLEAN
    BY <1>5, <2>1, Zenon DEF SighupReload, IInv, TypeOK
  <2>3. TypeOK'
    BY <1>5, <2>1, <2>4 DEF SighupReload, IInv, TypeOK, Version, None,
                            Goroutine
  <2>5. \A h \in Goroutine :
          /\ rpc'[h] # "idle" => readv'[h] \in 0..file'
          /\ rpc'[h] = "load" => readv'[h] \notin BadParse
    BY <2>1 DEF IInv, TypeOK, Goroutine, Version
  <2> QED
    BY <2>1, <2>2, <2>3, <2>5 DEF IInv, ParticipantLoaded
<1>6. CASE SighupDone
  BY <1>6 DEF SighupDone, IInv, TypeOK, Version, None, Goroutine,
              ParticipantLoaded
<1> QED
  BY <1>1, <1>2, <1>3, <1>4, <1>5, <1>6

\* The environment: HTTP reloads, edits, signals and the interrupt.
LEMMA EnvStepIInv ==
    ASSUME IInv, HttpReload \/ WriteFile \/ Sighup \/ Interrupt
    PROVE  IInv'
<1>1. CASE HttpReload
  BY <1>1 DEF HttpReload, ReadFiles, IInv, TypeOK, Version, None,
              Goroutine, ParticipantLoaded
<1>2. CASE WriteFile
  BY <1>2 DEF WriteFile, IInv, TypeOK, Version, None, Goroutine,
              ParticipantLoaded
<1>3. CASE Sighup
  <2>1. pending' \in BOOLEAN
    BY <1>3, Zenon DEF Sighup, IInv, TypeOK
  <2>2. /\ demand' \in Version \cup {None} /\ signals' \in 0..MaxSignals
        /\ mainPc' \in {mainPc, "exited"}
    BY <1>3 DEF Sighup, IInv, TypeOK, Version, None
  <2> QED
    BY <1>3, <2>1, <2>2 DEF Sighup, IInv, TypeOK, ParticipantLoaded
<1>4. CASE Interrupt
  BY <1>4 DEF Interrupt, IInv, TypeOK, Version, None, Goroutine,
              ParticipantLoaded
<1> QED
  BY <1>1, <1>2, <1>3, <1>4


LEMMA NextIInv == IInv /\ [Next]_vars => IInv'
<1> SUFFICES ASSUME IInv, [Next]_vars PROVE IInv'
  OBVIOUS
<1>1. CASE \E g \in Goroutine : ParseFail(g) \/ SetSources(g) \/ LoadSource(g)
  BY <1>1, ReloadStepIInv
<1>2. CASE InitialReload \/ InitialDone \/ BecomeParticipant \/ MainCtxDone
           \/ SighupReload \/ SighupDone
  BY <1>2, MainStepIInv
<1>3. CASE HttpReload \/ WriteFile \/ Sighup \/ Interrupt
  BY <1>3, EnvStepIInv
<1>4. CASE UNCHANGED vars
  BY <1>4 DEF vars, IInv, TypeOK, ParticipantLoaded
<1> QED
  BY <1>1, <1>2, <1>3, <1>4 DEF Next

LEMMA SpecIInv == Spec => []IInv
BY InitIInv, NextIInv, PTL DEF Spec

-----------------------------------------------------------------------------
\* Type correctness of the reload flow: versions stay within the edits an
\* operator made, and the signal and request counters within their bounds.
THEOREM TypeCorrect == Spec => []TypeOK
BY SpecIInv, PTL DEF IInv

\* The node changes to the Participant state (and afterwards serves SIGHUPs)
\* only once a configuration has been loaded without errors, whatever the
\* HTTP reload goroutine and the signals do meanwhile.
THEOREM ParticipantLoadedHolds == Spec => []ParticipantLoaded
BY SpecIInv, PTL DEF IInv

=============================================================================
