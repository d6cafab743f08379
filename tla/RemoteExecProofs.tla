-------------------------- MODULE RemoteExecProofs --------------------------
(* What holds of RemoteExec for any number of setup commands and failures. *)
EXTENDS RemoteExec, TLAPS

USE DEF Dirs, Files, Uploads, Paths, Tmp, Commands, Deferred, Final

-----------------------------------------------------------------------------
(* Types *)

Pcs == {"setup", "tmpdir", "logs", "clone", "template", "session", "script",
        "run", "unscript", "untmp", "end"}

\* The places of the program.
LEMMA PlacesAre ==
    /\ DOMAIN OnSuccess = Pcs \ {"end"} /\ DOMAIN OnError = Pcs \ {"end"}
    /\ \A p \in Pcs \ {"end"} : OnSuccess[p] \in Pcs /\ OnError[p] \in Pcs
BY DEF Pcs, OnSuccess, OnError

\* A session stays one when one of its fields gets another value of its type.
LEMMA SessionFields ==
    ASSUME NEW s \in Session
    PROVE  /\ s.started \in BOOLEAN /\ s.piped \in BOOLEAN /\ s.copier \in BOOLEAN
           /\ s.eof \in BOOLEAN /\ s.got \in {"none", "part", "whole"}
           /\ s.failed \in BOOLEAN
           /\ [s EXCEPT !.started = TRUE] \in Session
           /\ [s EXCEPT !.piped = TRUE] \in Session
           /\ \A x \in BOOLEAN : [s EXCEPT !.copier = x] \in Session
           /\ [s EXCEPT !.eof = TRUE] \in Session
           /\ \A x \in {"none", "part", "whole"} : [s EXCEPT !.got = x] \in Session
           /\ [s EXCEPT !.failed = TRUE] \in Session
BY DEF Session

LEMMA ReturnType ==
    ASSUME TypeOK, pc # "end", NEW e \in BOOLEAN, Return(e)
    PROVE  /\ pc' \in Pcs /\ err' \in BOOLEAN /\ phase' = "open"
           /\ process' = process
           /\ pc' = IF e THEN OnError[pc] ELSE OnSuccess[pc]
BY PlacesAre DEF TypeOK, Return

LEMMA WrittenType ==
    ASSUME TypeOK, NEW u \in Uploads
    PROVE  Written(u) \in [Paths -> {"none", "part", "whole"}]
BY SessionFields DEF TypeOK, Written

LEMMA EffectType ==
    ASSUME TypeOK, NEW c \in Commands
    PROVE  Effect(c) \in [Paths -> {"none", "part", "whole"}]
BY DEF TypeOK, Effect

LEMMA FaultType ==
    ASSUME TypeOK, Fault
    PROVE  faults' \in 0 .. MaxFaults
BY CountAssumption DEF TypeOK, Fault

\* A step keeps the types.
LEMMA TypeStep == TypeOK /\ [Next]_vars => TypeOK'
<1> SUFFICES ASSUME TypeOK, [Next]_vars PROVE TypeOK'
  OBVIOUS
<1>0. pc \in Pcs
  BY PlacesAre DEF TypeOK, Pcs
<1>1. ASSUME NEW c \in Commands, Execute(c) PROVE TypeOK'
  <2>1. disk' \in [Paths -> {"none", "part", "whole"}]
    BY <1>1, EffectType DEF Execute
  <2>2. setup' \in 0 .. SetupCommands
    BY <1>1, CountAssumption DEF Execute, TypeOK
  <2> QED BY <1>1, <2>1, <2>2, ReturnType, PlacesAre DEF Execute, TypeOK, At, Pcs
<1>2. ASSUME NEW c \in Commands, CommandFails(c) PROVE TypeOK'
  <2>1. disk' \in [Paths -> {"none", "part", "whole"}]
    BY <1>2 DEF CommandFails, TypeOK
  <2>2. faults' \in 0 .. MaxFaults
    BY <1>2, FaultType DEF CommandFails
  <2> QED BY <1>2, <2>1, <2>2, ReturnType, PlacesAre DEF CommandFails, TypeOK, At, Pcs
<1>3. CASE CommandRefused
  BY <1>3, ReturnType, PlacesAre DEF CommandRefused, TypeOK, At, Pcs, machine
<1>4. CASE SetupDone
  BY <1>4, PlacesAre DEF SetupDone, TypeOK, Pcs, machine
<1>5. ASSUME NEW u \in Uploads, OpenSession(u) PROVE TypeOK'
  BY <1>5 DEF OpenSession, TypeOK, Continue, machine
<1>6. ASSUME NEW u \in Uploads, Start(u) PROVE TypeOK'
  BY <1>6, SessionFields DEF Start, TypeOK, Continue, machine
<1>7. ASSUME NEW u \in Uploads, SetStdin(u) PROVE TypeOK'
  BY <1>7, SessionFields DEF SetStdin, TypeOK, Continue, machine
<1>8. ASSUME NEW u \in Uploads, CloseEmpty(u) PROVE TypeOK'
  <2>1. session' \in [Uploads -> Session]
    BY <1>8, SessionFields DEF CloseEmpty, TypeOK
  <2> QED BY <1>8, <2>1 DEF CloseEmpty, TypeOK, main, machine
<1>9. ASSUME NEW u \in Uploads, ScpEnds(u) PROVE TypeOK'
  BY <1>9, WrittenType, ReturnType, PlacesAre DEF ScpEnds, TypeOK, Continue, At, Pcs
<1>10. ASSUME NEW u \in Uploads, ScpFails(u) PROVE TypeOK'
  <2>1. faults' \in 0 .. MaxFaults
    BY <1>10, FaultType DEF ScpFails
  <2>2. disk' \in [Paths -> {"none", "part", "whole"}]
    BY <1>10, WrittenType DEF ScpFails, TypeOK
  <2> QED BY <1>10, <2>1, <2>2, ReturnType, PlacesAre DEF ScpFails, TypeOK, At, Pcs
<1>11. ASSUME NEW u \in Uploads, CheckStdinErr(u) PROVE TypeOK'
  BY <1>11, SessionFields, ReturnType, PlacesAre DEF CheckStdinErr, TypeOK, At, Pcs, machine
<1>12. ASSUME NEW u \in Uploads, AskForPipe(u) PROVE TypeOK'
  BY <1>12 DEF AskForPipe, TypeOK, main, machine
<1>13. ASSUME NEW u \in Uploads, Panic(u) PROVE TypeOK'
  BY <1>13 DEF Panic, TypeOK, machine
<1>14. ASSUME NEW u \in Uploads, GetPipe(u) PROVE TypeOK'
  <2>1. session' \in [Uploads -> Session]
    BY <1>14, SessionFields DEF GetPipe, TypeOK
  <2> QED BY <1>14, <2>1 DEF GetPipe, TypeOK, main, machine
<1>15. ASSUME NEW u \in Uploads, Write(u) PROVE TypeOK'
  <2>1. session' \in [Uploads -> Session]
    BY <1>15, SessionFields DEF Write, TypeOK
  <2> QED BY <1>15, <2>1 DEF Write, TypeOK, main, machine
<1>16. ASSUME NEW u \in Uploads, WriteFails(u) PROVE TypeOK'
  <2>1. session' \in [Uploads -> Session]
    BY <1>16, SessionFields DEF WriteFails, TypeOK
  <2> QED BY <1>16, <2>1 DEF WriteFails, TypeOK, main, machine
<1>17. ASSUME NEW u \in Uploads, Close(u) PROVE TypeOK'
  <2>1. session' \in [Uploads -> Session]
    BY <1>17, SessionFields DEF Close, TypeOK
  <2> QED BY <1>17, <2>1 DEF Close, TypeOK, main, machine
<1>18. ASSUME NEW u \in Uploads, MkdirHere(u) PROVE TypeOK'
  BY <1>18, ReturnType, PlacesAre DEF MkdirHere, TypeOK, At, Pcs
<1>19. ASSUME NEW u \in Uploads, OpenFile(u) PROVE TypeOK'
  BY <1>19 DEF OpenFile, TypeOK, Continue
<1>20. ASSUME NEW u \in Uploads, WriteFile(u) PROVE TypeOK'
  BY <1>20, ReturnType, PlacesAre DEF WriteFile, TypeOK, At, Pcs
<1>21. ASSUME NEW u \in Uploads, HereFails(u) PROVE TypeOK'
  <2>1. faults' \in 0 .. MaxFaults
    BY <1>21, FaultType DEF HereFails
  <2>2. disk' \in [Paths -> {"none", "part", "whole"}]
    BY <1>21 DEF HereFails, TypeOK
  <2> QED BY <1>21, <2>1, <2>2, ReturnType, PlacesAre DEF HereFails, TypeOK, At, Pcs
<1>22. CASE OpenRun
  BY <1>22, ReturnType, PlacesAre DEF OpenRun, TypeOK, At, Pcs, machine
<1>23. CASE StartRun
  BY <1>23, ReturnType, PlacesAre DEF StartRun, TypeOK, At, Pcs, Continue
<1>24. CASE EndRun
  BY <1>24, ReturnType, PlacesAre DEF EndRun, TypeOK, At, Pcs, machine
<1>25. CASE End
  BY <1>25 DEF End, TypeOK, machine
<1>26. CASE CallFails
  BY <1>26, ReturnType, PlacesAre DEF CallFails, TypeOK, Pcs, machine
<1>27. CASE BvzEnds \/ BvzFails
  <2>1. faults' \in 0 .. MaxFaults
    <3>1. CASE BvzEnds
      BY <3>1 DEF BvzEnds, TypeOK
    <3>2. CASE BvzFails
      BY <3>2, FaultType DEF BvzFails
    <3> QED BY <1>27, <3>1, <3>2
  <2>2. image' \in BOOLEAN /\ bvz' \in {"no", "running", "done", "failed"}
    BY <1>27 DEF BvzEnds, BvzFails, Provided
  <2>3. UNCHANGED <<executor, link, main, feeder, session, disk, lapse>>
    BY <1>27 DEF BvzEnds, BvzFails
  <2> QED BY <2>1, <2>2, <2>3 DEF TypeOK, main
<1>28. CASE Kill
  BY <1>28, CountAssumption DEF Kill, TypeOK, machine, Fault
<1>29. CASE LinkFails
  <2>1. disk' \in [Paths -> {"none", "part", "whole"}]
    BY <1>29, EffectType, WrittenType DEF LinkFails, TypeOK
  <2> QED BY <1>29, <2>1, CountAssumption DEF LinkFails, TypeOK, main, Fault
<1>30. CASE UNCHANGED vars
  BY <1>30 DEF vars, main, machine, TypeOK
<1> QED
  BY <1>1, <1>2, <1>3, <1>4, <1>5, <1>6, <1>7, <1>8, <1>9, <1>10, <1>11, <1>12,
     <1>13, <1>14, <1>15, <1>16, <1>17, <1>18, <1>19, <1>20, <1>21, <1>22, <1>23,
     <1>24, <1>25, <1>26, <1>27, <1>28, <1>29, <1>30
     DEF Next, Caller, Goroutine, Failure
-----------------------------------------------------------------------------
(* What is known where the caller is *)

\* A call before bootstrap-vz returns.
LEMMA EarlyReturn ==
    ASSUME TypeOK, Progress, pc \in Pcs \ (Final \cup {"run", "setup"}),
           NEW e \in BOOLEAN, Return(e),
           UNCHANGED <<setup, bvz, image, executor, link>>
    PROVE  Progress'
<1>1. bvz = "no" /\ process' = process /\ process # "ok" /\ process # "failed"
  BY DEF Progress, Return, Pcs
<1>2. CASE e
  <2>1. pc' \in {"untmp", "end"} /\ phase' = "open"
    <3>1. pc' = OnError[pc] /\ phase' = "open"
      BY <1>2, ReturnType
    <3> QED BY <3>1 DEF OnError, Pcs
  <2>2. err'
    BY <1>2 DEF Return, Pcs
  <2> QED BY <1>1, <2>1, <2>2 DEF Progress
<1>3. CASE ~e
  <2>1. pc' \in {"logs", "clone", "template", "session", "script", "run"}
    BY <1>3 DEF Return, OnSuccess, Pcs
  <2>2. (err' <=> err) /\ phase' = "open"
    BY <1>3 DEF Return, TypeOK
  <2> QED BY <1>1, <2>1, <2>2 DEF Progress, Pcs
<1> QED BY <1>2, <1>3

LEMMA ProgressStep == TypeOK /\ Progress /\ [Next]_vars => Progress'
<1> SUFFICES ASSUME TypeOK, Progress, [Next]_vars PROVE Progress'
  OBVIOUS
<1>0. pc \in Pcs /\ SetupCommands \in Nat
  BY PlacesAre, CountAssumption DEF TypeOK, Pcs
<1>a. ASSUME UNCHANGED <<process, pc, phase, err, setup, bvz, image, executor, link>>
      PROVE  Progress'
  BY <1>a DEF Progress
<1>1. ASSUME NEW c \in Commands, Execute(c) PROVE Progress'
  BY <1>0, <1>1 DEF Execute, TypeOK, At, Return, OnSuccess, Progress, Remote, Refused
<1>2. ASSUME NEW c \in Commands, CommandFails(c) PROVE Progress'
  <2>1. CASE c = "clone"
    BY <1>2, <2>1, EarlyReturn DEF CommandFails, At, Pcs
  <2>2. CASE c = "setup"
    BY <1>2, <2>2 DEF CommandFails, TypeOK, At, Return, OnError, Progress
  <2>3. CASE c \in Deferred
    BY <1>2, <2>3 DEF CommandFails, TypeOK, At, Return, OnError, Progress, Remote, Refused
  <2> QED BY <2>1, <2>2, <2>3
<1>3. CASE CommandRefused
  BY <1>3 DEF CommandRefused, TypeOK, At, Return, OnError, Progress, machine
<1>4. CASE SetupDone
  BY <1>4 DEF SetupDone, At, Progress, machine
<1>5. ASSUME NEW u \in Uploads, OpenSession(u) \/ Start(u) \/ SetStdin(u) PROVE Progress'
  BY <1>5 DEF OpenSession, Start, SetStdin, Continue, At, Progress, machine
<1>6. ASSUME NEW u \in Uploads, ScpEnds(u) \/ ScpFails(u) PROVE Progress'
  <2>1. pc \in Pcs \ (Final \cup {"run", "setup"})
    BY <1>6 DEF ScpEnds, ScpFails, At, Pcs
  <2>2. CASE Continue("check") /\ ScpEnds(u)
    BY <2>1, <2>2 DEF ScpEnds, Continue, Progress
  <2>3. CASE Return(TRUE)
    BY <1>6, <2>1, <2>3, EarlyReturn DEF ScpEnds, ScpFails
  <2> QED BY <1>6, <2>2, <2>3 DEF ScpEnds, ScpFails
<1>7. ASSUME NEW u \in Uploads, CheckStdinErr(u) PROVE Progress'
  BY <1>7, EarlyReturn, SessionFields DEF CheckStdinErr, At, machine, Pcs, TypeOK
<1>8. ASSUME NEW u \in Uploads, MkdirHere(u) \/ OpenFile(u) \/ WriteFile(u) PROVE Progress'
  <2>1. pc \in Pcs \ (Final \cup {"run", "setup"})
    BY <1>8 DEF MkdirHere, OpenFile, WriteFile, At, Pcs
  <2>2. CASE OpenFile(u)
    BY <2>1, <2>2 DEF OpenFile, Continue, Progress
  <2>3. CASE MkdirHere(u) \/ WriteFile(u)
    BY <2>1, <2>3, EarlyReturn DEF MkdirHere, WriteFile
  <2> QED BY <1>8, <2>2, <2>3
<1>9. ASSUME NEW u \in Uploads, HereFails(u) PROVE Progress'
  BY <1>9, EarlyReturn DEF HereFails, At, Pcs
<1>10. CASE OpenRun
  BY <1>10 DEF OpenRun, At, Return, OnSuccess, Progress, machine
<1>11. CASE StartRun
  BY <1>11 DEF StartRun, At, Return, OnError, Continue, Progress
<1>12. CASE EndRun
  BY <1>12 DEF EndRun, At, Return, OnSuccess, OnError, Progress, machine, TypeOK
<1>13. CASE End
  BY <1>13 DEF End, At, Progress, machine
<1>14. CASE CallFails
  <2>1. CASE pc \in Pcs \ (Final \cup {"run", "setup"})
    BY <1>14, <2>1, EarlyReturn DEF CallFails, machine
  <2>2. CASE pc = "setup"
    BY <1>14, <2>2 DEF CallFails, Return, OnError, Progress, machine
  <2>3. CASE pc = "run"
    BY <1>14, <2>3 DEF CallFails, Return, OnError, Progress, machine
  <2>4. CASE pc = "untmp"
    BY <1>14, <2>4 DEF CallFails, Return, OnError, Progress, machine, TypeOK
  <2> QED BY <1>0, <1>14, <2>1, <2>2, <2>3, <2>4 DEF CallFails
<1>15. CASE BvzEnds \/ BvzFails
  <2>1. /\ UNCHANGED <<process, pc, phase, err, setup, executor, link>>
        /\ bvz = "running" /\ bvz' \in {"done", "failed"}
        /\ bvz' = "done" => image'
    <3>1. CASE BvzFails
      BY <3>1 DEF BvzFails, main
    <3>2. CASE BvzEnds /\ Provided
      BY <3>2 DEF BvzEnds, main
    <3>3. CASE BvzEnds /\ ~Provided
      BY <3>3 DEF BvzEnds, main
    <3> QED BY <1>15, <3>1, <3>2, <3>3
  <2>2. ~(pc \in Final /\ ~err)
    BY <2>1 DEF Progress
  <2> QED BY <2>1, <2>2 DEF Progress
<1>16. CASE Kill \/ (\E u \in Uploads : Panic(u))
  BY <1>16 DEF Kill, Panic, Progress, machine
<1>17. CASE LinkFails
  BY <1>17 DEF LinkFails, Progress, main
<1>18. ASSUME NEW u \in Uploads,
              \/ AskForPipe(u) \/ GetPipe(u) \/ Write(u) \/ WriteFails(u)
              \/ Close(u) \/ CloseEmpty(u)
       PROVE  Progress'
  BY <1>18, <1>a DEF AskForPipe, GetPipe, Write, WriteFails, Close, CloseEmpty, main, machine
<1>19. CASE UNCHANGED vars
  BY <1>19, <1>a DEF vars, main, machine
<1> QED
  BY <1>1, <1>2, <1>3, <1>4, <1>5, <1>6, <1>7, <1>8, <1>9, <1>10, <1>11, <1>12,
     <1>13, <1>14, <1>15, <1>16, <1>17, <1>18, <1>19
     DEF Next, Caller, Goroutine, Failure

LEMMA InitHolds == Init => TypeOK /\ Progress
<1> SUFFICES ASSUME Init PROVE TypeOK /\ Progress
  OBVIOUS
<1>1. TypeOK
  <2>1. NewSession \in Session
    BY DEF Session, NewSession
  <2>2. faults \in 0 .. MaxFaults /\ setup \in 0 .. SetupCommands
    BY CountAssumption DEF Init
  <2> QED BY <2>1, <2>2, ExecutorAssumption, PlacesAre DEF Init, TypeOK, Pcs
<1>2. Progress
  BY DEF Init, Progress
<1> QED BY <1>1, <1>2

\* The state is well typed.
THEOREM TypeCorrect == Spec => []TypeOK
<1> QED BY InitHolds, TypeStep, PTL DEF Spec

LEMMA ProgressHolds == Spec => []Progress
<1> QED BY InitHolds, TypeCorrect, ProgressStep, PTL DEF Spec

\* BuildImage returns without an error only if every setup command was run and
\* the image is there, whatever happened to the uploads.
THEOREM SuccessIsBuilt == Spec => []SuccessMeansBuilt
<1>1. Progress => SuccessMeansBuilt
  BY DEF Progress, SuccessMeansBuilt
<1> QED BY <1>1, ProgressHolds, PTL

\* No step changes the disk of a machine on which bootstrap-vz runs: a caller
\* that went on without it has lost the connection.
THEOREM NotDisturbed == Spec => LeftInPeace
<1>1. ASSUME TypeOK, Progress, [Next]_vars, bvz = "running" PROVE UNCHANGED disk
  <2>0. /\ pc \in {"run"} \cup Final
        /\ pc = "run" => phase = "wait"
        /\ pc # "run" => ~Remote /\ link # "up" /\ executor = "ssh"
    BY <1>1 DEF Progress, Remote
  <2>1. CASE Caller
    <3>1. ~ \E c \in Commands : Execute(c)
      BY <2>0 DEF Execute, At
    <3>2. ~ \E u \in Uploads : ScpEnds(u) \/ MkdirHere(u) \/ OpenFile(u) \/ WriteFile(u)
      BY <2>0 DEF ScpEnds, MkdirHere, OpenFile, WriteFile, At
    <3> QED BY <2>1, <3>1, <3>2
         DEF Caller, CommandRefused, SetupDone, OpenSession, Start, SetStdin,
             CheckStdinErr, OpenRun, StartRun, EndRun, End, CallFails, machine
  <2>2. ASSUME NEW u \in Uploads, Goroutine(u) PROVE UNCHANGED disk
    BY <2>2 DEF Goroutine, AskForPipe, Panic, GetPipe, Write, WriteFails, Close,
                CloseEmpty, machine
  <2>3. CASE BvzEnds
    BY <2>3 DEF BvzEnds
  <2>4. CASE Failure
    <3>1. ~ \E c \in Commands : CommandFails(c)
      BY <2>0 DEF CommandFails, At
    <3>2. ~ \E u \in Uploads : ScpFails(u) \/ HereFails(u)
      BY <2>0 DEF ScpFails, HereFails, At
    <3>3. LinkFails => UNCHANGED disk
      BY <2>0 DEF LinkFails, At
    <3> QED BY <2>4, <3>1, <3>2, <3>3 DEF Failure, BvzFails, Kill, machine
  <2>5. CASE UNCHANGED vars
    BY <2>5 DEF vars, machine
  <2> QED BY <1>1, <2>1, <2>2, <2>3, <2>4, <2>5 DEF Next
<1>2. TypeOK /\ Progress /\ [Next]_vars => [bvz = "running" => UNCHANGED disk]_vars
  BY <1>1
<1> QED BY <1>2, TypeCorrect, ProgressHolds, PTL DEF Spec, LeftInPeace
-----------------------------------------------------------------------------
(* The build implements BuildSession *)

Stage == IF process = "building"
         THEN IF bvz = "no" THEN "setup" ELSE "build"
         ELSE IF process = "ok" THEN "built"
         ELSE IF bvz = "no" THEN "failed" ELSE "left"

LEMMA SessionStep ==
    ASSUME TypeOK, Progress, [Next]_vars
    PROVE  [Build!Next]_(Build!vars)
<1> USE DEF Build!Next, Build!vars
<1>1. CASE UNCHANGED <<process, bvz, image>>
  BY <1>1
<1>2. CASE StartRun
  BY <1>2 DEF StartRun, At, Continue, Return, Progress, Build!Begin
<1>3. CASE BvzEnds \/ BvzFails
  <2>1. /\ bvz = "running" /\ bvz' \in {"done", "failed"} /\ process' = process
        /\ ~image /\ image' \in BOOLEAN /\ process # "ok"
    BY <1>3 DEF BvzEnds, BvzFails, Provided, main, Progress, TypeOK
  <2> QED BY <2>1 DEF Build!Register, TypeOK
<1>4. CASE End
  BY <1>4 DEF End, At, Progress, TypeOK, machine, Build!Finish, Build!GiveUp
<1>5. CASE Kill \/ (\E u \in Uploads : Panic(u))
  BY <1>5 DEF Kill, Panic, Feeds, Progress, TypeOK, machine, Build!GiveUp
<1>6. CASE Caller /\ ~StartRun /\ ~End
  BY <1>1, <1>6
     DEF Caller, Execute, CommandRefused, SetupDone, OpenSession, Start, SetStdin,
         ScpEnds, CheckStdinErr, MkdirHere, OpenFile, WriteFile, OpenRun, EndRun,
         CallFails, Return, Continue, machine
<1>7. ASSUME NEW u \in Uploads, Goroutine(u), ~Panic(u)
      PROVE  UNCHANGED <<process, bvz, image>>
  BY <1>7 DEF Goroutine, AskForPipe, GetPipe, Write, WriteFails, Close, CloseEmpty,
              main, machine
<1>8. CASE Failure /\ ~BvzFails /\ ~Kill
  BY <1>1, <1>8 DEF Failure, CommandFails, ScpFails, HereFails, LinkFails, Return, main
<1>9. CASE UNCHANGED vars
  BY <1>1, <1>9 DEF vars, main, machine
<1> QED BY <1>1, <1>2, <1>3, <1>4, <1>5, <1>6, <1>7, <1>8, <1>9 DEF Next

\* The builds that main() sees are those of BuildSession.
THEOREM ImplementsSession == Spec => SessionSpec
<1>1. Init => Build!Init
  BY DEF Init, Build!Init
<1>2. TypeOK /\ Progress /\ [Next]_vars => [Build!Next]_(Build!vars)
  BY SessionStep
<1> QED BY <1>1, <1>2, TypeCorrect, ProgressHolds, PTL DEF Spec, SessionSpec, Build!Spec
-----------------------------------------------------------------------------
(* Sessions and their goroutines *)

\* What Feeding says of one upload.
Fed(u) ==
    /\ feeder[u] # "none" \/ session[u] # NewSession => Begun(u)
    /\ pc = u /\ phase \in {"exec", "stdin"} => ~session[u].copier
    /\ feeder[u] \in {"none", "ready", "pipe"} => session[u].got = "none"
    /\ session[u].failed => feeder[u] \in {"close", "done"}
    /\ u \in Dirs =>
         /\ session[u].got # "part"
         /\ feeder[u] = "write" \/ session[u].failed => session[u].got = "none"
    /\ ~session[u].copier =>
         /\ session[u].eof => feeder[u] = "done"
         /\ feeder[u] \in {"close", "done"} =>
                session[u].got = "whole" \/ link = "lost"

LEMMA FeedingIs == Feeding <=> \A u \in Uploads : Fed(u)
BY DEF Feeding, Fed

\* Once begun, an upload is not begun again.
LEMMA BegunStays ==
    ASSUME TypeOK, NEW u \in Uploads, Begun(u), pc # "end", NEW e \in BOOLEAN, Return(e)
    PROVE  Begun(u)'
<1>1. pc \in Pcs \ {"end"}
  BY PlacesAre DEF TypeOK, Pcs
<1>2. CASE e
  <2>1. pc' \in Final
    <3>1. pc' = OnError[pc]
      BY <1>2, ReturnType
    <3> QED BY <1>1, <3>1 DEF OnError, Pcs
  <2> QED BY <2>1 DEF Begun
<1>3. CASE ~e
  <2>1. pc' = OnSuccess[pc]
    BY <1>3, ReturnType
  <2> QED BY <1>1, <2>1 DEF OnSuccess, Pcs, Begun, After
<1> QED BY <1>2, <1>3

\* A return changes nothing of what is known of an upload.
LEMMA ReturnFeeds ==
    ASSUME TypeOK, Feeding, pc # "end", NEW e \in BOOLEAN, Return(e),
           UNCHANGED <<link, feeder, session>>
    PROVE  Feeding'
<1> SUFFICES ASSUME NEW u \in Uploads PROVE Fed(u)'
  BY FeedingIs DEF Feeding, Fed
<1>1. Fed(u)
  BY FeedingIs
<1>2. phase' = "open"
  BY ReturnType
<1>3. Begun(u) => Begun(u)'
  BY BegunStays
<1> QED BY <1>1, <1>2, <1>3 DEF Fed

LEMMA FeedingStep == TypeOK /\ Feeding /\ [Next]_vars => Feeding'
<1> SUFFICES ASSUME TypeOK, Feeding, [Next]_vars PROVE Feeding'
  OBVIOUS
<1>a. \A u \in Uploads : Fed(u) /\ session[u] \in Session
  BY FeedingIs DEF TypeOK
<1>b. (\A u \in Uploads : Fed(u)') => Feeding'
  BY DEF Feeding, Fed
<1>1. CASE UNCHANGED <<pc, phase, link, feeder, session>>
  BY <1>1 DEF Feeding, Begun
<1>2. ASSUME NEW c \in Commands, Execute(c) \/ CommandFails(c) PROVE Feeding'
  BY <1>2, ReturnFeeds DEF Execute, CommandFails, At
<1>3. CASE CommandRefused \/ OpenRun \/ EndRun
  BY <1>3, ReturnFeeds, Zenon DEF CommandRefused, OpenRun, EndRun, At
<1>4. CASE SetupDone
  <2> SUFFICES ASSUME NEW u \in Uploads PROVE Fed(u)'
    BY <1>b
  <2>1. ~Begun(u) /\ Fed(u)
    BY <1>4, <1>a DEF SetupDone, At, Begun, After
  <2> QED BY <1>4, <2>1 DEF SetupDone, At, Fed
<1>5. ASSUME NEW v \in Uploads, OpenSession(v) PROVE Feeding'
  <2> SUFFICES ASSUME NEW u \in Uploads PROVE Fed(u)'
    BY <1>b
  <2>1. Fed(u) /\ (Begun(u) => Begun(u)') /\ Begun(v)'
    BY <1>5, <1>a DEF OpenSession, At, Begun, Continue
  <2>2. ~Begun(v)
    BY <1>5 DEF OpenSession, At, Begun, After
  <2> QED BY <1>5, <2>1, <2>2 DEF OpenSession, At, Fed, Continue, TypeOK, NewSession
<1>6. ASSUME NEW v \in Uploads, Start(v) PROVE Feeding'
  <2> SUFFICES ASSUME NEW u \in Uploads PROVE Fed(u)'
    BY <1>b
  <2>1. Fed(u) /\ (Begun(u) => Begun(u)') /\ Begun(v)'
    BY <1>6, <1>a DEF Start, At, Begun, Continue
  <2> QED BY <1>6, <1>a, <2>1 DEF Start, At, Fed, Continue, TypeOK, Session
<1>7. ASSUME NEW v \in Uploads, SetStdin(v) PROVE Feeding'
  <2> SUFFICES ASSUME NEW u \in Uploads PROVE Fed(u)'
    BY <1>b
  <2>1. Fed(u) /\ (Begun(u) => Begun(u)') /\ Begun(v)'
    BY <1>7, <1>a DEF SetStdin, At, Begun, Continue
  <2> QED BY <1>7, <1>a, <2>1 DEF SetStdin, At, Fed, Continue, TypeOK, Session
<1>8. ASSUME NEW v \in Uploads, ScpEnds(v) PROVE Feeding'
  <2>1. CASE Return(TRUE)
    BY <1>8, <2>1, ReturnFeeds DEF ScpEnds, At
  <2>2. CASE Continue("check")
    BY <1>8, <2>2 DEF ScpEnds, At, Continue, Feeding, Begun
  <2> QED BY <1>8, <2>1, <2>2 DEF ScpEnds
<1>9. ASSUME NEW v \in Uploads, ScpFails(v) \/ CheckStdinErr(v) PROVE Feeding'
  BY <1>9, <1>a, ReturnFeeds DEF ScpFails, CheckStdinErr, At, Session
<1>10. ASSUME NEW v \in Uploads, AskForPipe(v) PROVE Feeding'
  BY <1>10 DEF AskForPipe, Feeds, Feeding, Begun, main, TypeOK
<1>11. ASSUME NEW v \in Uploads, GetPipe(v) PROVE Feeding'
  <2> SUFFICES ASSUME NEW u \in Uploads PROVE Fed(u)'
    BY <1>b
  <2>1. Fed(u) /\ (Begun(u) => Begun(u)') /\ Begun(v)'
    BY <1>11, <1>a DEF GetPipe, Feeds, Begun, Fed, main
  <2> QED BY <1>11, <1>a, <2>1 DEF GetPipe, Feeds, Fed, TypeOK, Session, main
<1>12. ASSUME NEW v \in Uploads, Write(v) PROVE Feeding'
  <2> SUFFICES ASSUME NEW u \in Uploads PROVE Fed(u)'
    BY <1>b
  <2>1. Fed(u) /\ (Begun(u) => Begun(u)') /\ Begun(v)'
    BY <1>12, <1>a DEF Write, Feeds, Begun, Fed, main
  <2> QED BY <1>12, <1>a, <2>1 DEF Write, Feeds, Fed, TypeOK, Session, main
<1>13. ASSUME NEW v \in Uploads, WriteFails(v) PROVE Feeding'
  <2> SUFFICES ASSUME NEW u \in Uploads PROVE Fed(u)'
    BY <1>b
  <2>1. Fed(u) /\ (Begun(u) => Begun(u)') /\ Begun(v)'
    BY <1>13, <1>a DEF WriteFails, Feeds, Begun, Fed, main
  <2> QED BY <1>13, <1>a, <2>1 DEF WriteFails, Feeds, Fed, TypeOK, Session, main
<1>14. ASSUME NEW v \in Uploads, Close(v) PROVE Feeding'
  <2> SUFFICES ASSUME NEW u \in Uploads PROVE Fed(u)'
    BY <1>b
  <2>1. Fed(u) /\ (Begun(u) => Begun(u)') /\ Begun(v)'
    BY <1>14, <1>a DEF Close, Feeds, Begun, Fed, main
  <2> QED BY <1>14, <1>a, <2>1 DEF Close, Feeds, Fed, TypeOK, Session, main
<1>15. ASSUME NEW v \in Uploads, CloseEmpty(v) PROVE Feeding'
  <2> SUFFICES ASSUME NEW u \in Uploads PROVE Fed(u)'
    BY <1>b
  <2>1. Fed(u) /\ (Begun(u) => Begun(u)') /\ Begun(v)'
    BY <1>15, <1>a DEF CloseEmpty, Begun, Fed, main, NewSession
  <2> QED BY <1>15, <1>a, <2>1 DEF CloseEmpty, Fed, TypeOK, Session, main
<1>16. ASSUME NEW v \in Uploads, MkdirHere(v) \/ WriteFile(v) \/ HereFails(v) PROVE Feeding'
  BY <1>16, ReturnFeeds DEF MkdirHere, WriteFile, HereFails, At
<1>17. ASSUME NEW v \in Uploads, OpenFile(v) PROVE Feeding'
  BY <1>17 DEF OpenFile, At, Continue, Feeding, Begun
<1>18. CASE StartRun
  <2>1. CASE Return(TRUE)
    BY <1>18, <2>1, ReturnFeeds DEF StartRun, At
  <2>2. CASE Continue("wait")
    BY <1>18, <2>2 DEF StartRun, At, Continue, Feeding, Begun
  <2> QED BY <1>18, <2>1, <2>2 DEF StartRun
<1>19. CASE CallFails
  BY <1>19, ReturnFeeds DEF CallFails
<1>20. CASE LinkFails
  BY <1>20 DEF LinkFails, Feeding, Begun, main
<1>21. CASE End \/ BvzEnds \/ BvzFails \/ Kill \/ (\E v \in Uploads : Panic(v))
            \/ UNCHANGED vars
  BY <1>1, <1>21 DEF End, BvzEnds, BvzFails, Kill, Panic, vars, main, machine
<1> QED
  BY <1>2, <1>3, <1>4, <1>5, <1>6, <1>7, <1>8, <1>9, <1>10, <1>11, <1>12, <1>13,
     <1>14, <1>15, <1>16, <1>17, <1>18, <1>19, <1>20, <1>21
     DEF Next, Caller, Goroutine, Failure
-----------------------------------------------------------------------------
(* What Put and Mkdir claim *)

NotOvertaken == \A u \in Uploads : ~session[u].copier

Claimed(u) == pc \in After[u] \/ (pc = u /\ phase = "check")

\* Nobody takes back that a goroutine was overtaken.
LEMMA OvertakenStays == TypeOK /\ Feeding /\ [Next]_vars /\ NotOvertaken' => NotOvertaken
<1> SUFFICES ASSUME TypeOK, Feeding, [Next]_vars, NotOvertaken' PROVE NotOvertaken
  OBVIOUS
<1>1. ASSUME NEW v \in Uploads, SetStdin(v) PROVE NotOvertaken
  BY <1>1 DEF SetStdin, At, Feeding, NotOvertaken, TypeOK, Session
<1>2. ASSUME NEW v \in Uploads,
             \/ Start(v) \/ CloseEmpty(v) \/ GetPipe(v) \/ Write(v)
             \/ WriteFails(v) \/ Close(v)
      PROVE  NotOvertaken
  BY <1>2 DEF Start, CloseEmpty, GetPipe, Write, WriteFails, Close, NotOvertaken,
              TypeOK, Session
<1>3. CASE UNCHANGED session
  BY <1>3 DEF NotOvertaken
<1> QED
  BY <1>1, <1>2, <1>3
     DEF Next, Caller, Goroutine, Failure, Execute, CommandRefused, SetupDone,
         OpenSession, ScpEnds, CheckStdinErr, MkdirHere, OpenFile, WriteFile,
         OpenRun, StartRun, EndRun, End, CallFails, AskForPipe, Panic, CommandFails,
         ScpFails, HereFails, BvzEnds, BvzFails, Kill, LinkFails, vars

\* A caller that has got past an upload was told so, and stays past it until it
\* cleans up; one that gets an error is past nothing any more.
LEMMA ClaimReturn ==
    ASSUME TypeOK, pc # "end", NEW e \in BOOLEAN, Return(e), NEW u \in Uploads,
           Claimed(u)'
    PROVE  ~e /\ (pc = u \/ pc \in After[u])
<1>1. pc \in Pcs \ {"end"}
  BY PlacesAre DEF TypeOK, Pcs
<1>2. ~e
  <2> SUFFICES ASSUME e PROVE FALSE
    OBVIOUS
  <2>1. pc' = OnError[pc] /\ phase' = "open"
    BY ReturnType
  <2>2. pc' \in Final
    BY <1>1, <2>1 DEF OnError, Pcs
  <2> QED BY <2>1, <2>2 DEF Claimed, After
<1>3. pc' = OnSuccess[pc] /\ phase' = "open"
  BY <1>2, ReturnType
<1>4. pc' \in After[u]
  BY <1>3 DEF Claimed
<1>5. \A p \in Pcs \ {"end"} : OnSuccess[p] \in After[u] => p = u \/ p \in After[u]
  <2>1. CASE u = "tmpdir"
    BY <2>1 DEF OnSuccess, Pcs, After
  <2>2. CASE u = "logs"
    BY <2>2 DEF OnSuccess, Pcs, After
  <2>3. CASE u = "template"
    BY <2>3 DEF OnSuccess, Pcs, After
  <2>4. CASE u = "script"
    BY <2>4 DEF OnSuccess, Pcs, After
  <2> QED BY <2>1, <2>2, <2>3, <2>4
<1> QED BY <1>1, <1>2, <1>3, <1>4, <1>5

\* What scp writes does no harm to what was there.
LEMMA WrittenKeeps ==
    ASSUME TypeOK, NotOvertaken, Claims, NEW v \in Uploads, pc = v,
           NEW u \in Uploads, pc \in After[u]
    PROVE  Written(v)[u] = "whole"
<1>1. disk[u] = "whole" /\ u # v
  BY DEF Claims, NotOvertaken, After
<1> QED BY <1>1 DEF Written, TypeOK

\* And if scp ends well, its own part is there as well.
LEMMA WrittenIsWhole ==
    ASSUME TypeOK, NotOvertaken, Feeding, Claims, NEW v \in Uploads, pc = v,
           session[v].eof, link # "lost"
    PROVE  Written(v)[v] = "whole"
<1>1. session[v].got = "whole"
  BY DEF Feeding, NotOvertaken
<1>2. v = "logs" => disk["tmpdir"] = "whole"
  BY DEF Claims, NotOvertaken, After
<1> QED BY <1>1, <1>2 DEF Written, TypeOK

\* Nor does a command that is carried out before the caller cleans up.
LEMMA EffectKeeps ==
    ASSUME TypeOK, NotOvertaken, Claims, NEW c \in Commands, pc = c,
           NEW u \in Uploads, pc \in After[u]
    PROVE  Effect(c)[u] = "whole"
<1>1. disk[u] = "whole" /\ c = "clone"
  BY DEF Claims, NotOvertaken, After
<1> QED BY <1>1 DEF Effect, TypeOK

LEMMA ClaimsStep == TypeOK /\ Feeding /\ Claims /\ [Next]_vars => Claims'
<1> SUFFICES ASSUME TypeOK, Feeding, Claims, [Next]_vars, NotOvertaken',
                    NEW u \in Uploads, Claimed(u)'
             PROVE  disk'[u] = "whole"
  BY DEF Claims, NotOvertaken, Claimed
<1>a. NotOvertaken
  BY OvertakenStays
<1>b. Claimed(u) => disk[u] = "whole"
  BY <1>a DEF Claims, NotOvertaken, Claimed
<1>1. CASE UNCHANGED <<pc, phase, disk>>
  BY <1>1, <1>b DEF Claimed
<1>2. ASSUME Return(TRUE), pc # "end" PROVE FALSE
  BY <1>2, ClaimReturn
<1>3. ASSUME NEW c \in Commands, Execute(c) PROVE disk'[u] = "whole"
  <2>1. pc = c /\ disk' = Effect(c) /\ Return(FALSE)
    BY <1>3 DEF Execute, At
  <2>2. pc \in After[u]
    BY <2>1, ClaimReturn
  <2> QED BY <2>1, <2>2, <1>a, EffectKeeps
<1>4. ASSUME \/ \E c \in Commands : CommandFails(c)
             \/ \E v \in Uploads : ScpFails(v) \/ HereFails(v)
             \/ CommandRefused \/ CallFails
      PROVE  FALSE
  BY <1>2, <1>4 DEF CommandFails, ScpFails, HereFails, CommandRefused, CallFails, At
<1>5. CASE SetupDone
  BY <1>5 DEF SetupDone, At, Claimed, After
<1>6. ASSUME NEW v \in Uploads, OpenSession(v) \/ Start(v) \/ SetStdin(v)
      PROVE  disk'[u] = "whole"
  BY <1>6, <1>b DEF OpenSession, Start, SetStdin, Continue, machine, Claimed
<1>7. ASSUME NEW v \in Uploads, ScpEnds(v) PROVE disk'[u] = "whole"
  <2>1. pc = v /\ disk' = Written(v) /\ session[v].eof /\ link # "lost" /\ Continue("check")
    BY <1>2, <1>7 DEF ScpEnds, At, Remote
  <2>2. pc = u \/ pc \in After[u]
    BY <2>1 DEF Claimed, Continue
  <2> QED BY <2>1, <2>2, <1>a, WrittenKeeps, WrittenIsWhole
<1>8. ASSUME NEW v \in Uploads, CheckStdinErr(v) PROVE disk'[u] = "whole"
  <2>1. /\ pc = v /\ phase = "check" /\ Return(session[v].failed) /\ disk' = disk
        /\ session[v].failed \in BOOLEAN
    BY <1>8 DEF CheckStdinErr, At, machine, TypeOK, Session
  <2>2. pc = u \/ pc \in After[u]
    BY <2>1, ClaimReturn
  <2> QED BY <2>1, <2>2, <1>b DEF Claimed
<1>9. ASSUME NEW v \in Uploads, MkdirHere(v) \/ WriteFile(v) PROVE disk'[u] = "whole"
  <2>1. pc = v /\ Return(FALSE) /\ disk' = [disk EXCEPT ![v] = "whole"]
    BY <1>9 DEF MkdirHere, WriteFile, At
  <2>2. pc = u \/ pc \in After[u]
    BY <2>1, ClaimReturn
  <2> QED BY <2>1, <2>2, <1>b DEF Claimed, TypeOK
<1>10. ASSUME NEW v \in Uploads, OpenFile(v) PROVE disk'[u] = "whole"
  <2>1. pc = v /\ disk' = [disk EXCEPT ![v] = "part"] /\ pc' = pc /\ phase' = "copy"
    BY <1>10 DEF OpenFile, At, Continue
  <2>2. pc \in After[u] /\ u # v
    BY <2>1 DEF Claimed, After
  <2> QED BY <2>1, <2>2, <1>b DEF Claimed, TypeOK
<1>11. CASE OpenRun \/ EndRun
  <2>1. /\ pc \in {"session", "run"} /\ disk' = disk
        /\ \E e \in BOOLEAN : Return(e)
    BY <1>11, Zenon DEF OpenRun, EndRun, At, machine
  <2>2. pc \in After[u]
    BY <2>1, ClaimReturn
  <2> QED BY <2>1, <2>2, <1>b DEF Claimed
<1>12. CASE StartRun
  BY <1>2, <1>12, <1>b DEF StartRun, At, Continue, Claimed
<1>13. CASE LinkFails
  <2>1. UNCHANGED <<pc, phase>>
    BY <1>13 DEF LinkFails, main
  <2>2. CASE phase = "check"
    BY <1>b, <1>13, <2>1, <2>2 DEF LinkFails, At, Claimed
  <2>3. CASE phase # "check"
    <3>1. pc \in After[u] /\ disk[u] = "whole"
      BY <1>b, <2>1, <2>3 DEF Claimed
    <3> QED BY <1>a, <1>13, <3>1, EffectKeeps, WrittenKeeps DEF LinkFails, At
  <2> QED BY <2>2, <2>3
<1>14. CASE End \/ BvzEnds \/ BvzFails \/ Kill \/ (\E v \in Uploads : Goroutine(v))
            \/ UNCHANGED vars
  BY <1>1, <1>14
     DEF End, BvzEnds, BvzFails, Kill, Goroutine, AskForPipe, Panic, GetPipe, Write,
         WriteFails, Close, CloseEmpty, vars, main, machine
<1> QED
  BY <1>3, <1>4, <1>5, <1>6, <1>7, <1>8, <1>9, <1>10, <1>11, <1>12, <1>13, <1>14
     DEF Next, Caller, Failure
-----------------------------------------------------------------------------
(* What is left on the disk *)

\* The parts of Tidy.
Clean ==
    ~lapse =>
        /\ pc \in {"setup", "end"} => Empty
        /\ pc = "tmpdir" =>
             \/ Empty
             \/ phase = "check" /\ session["tmpdir"].eof
                               /\ session["tmpdir"].got # "none"

Unscripted ==
    executor = "local" /\ faults = MaxFaults =>
        \/ disk["script"] = "none"
        \/ pc \in {"run", "unscript"}
        \/ pc = "script" /\ phase = "copy"

Causes == (link # "up" => lapse) /\ (phase = "copy" => pc \in Files)

LEMMA TidyIs == Tidy <=> Causes /\ Clean /\ Unscripted
BY DEF Tidy, Causes, Clean, Unscripted

\* Nothing but its own clean-up takes a build that has made its directory to
\* the end.
LEMMA LateReturn ==
    ASSUME TypeOK, pc \in Pcs \ {"setup", "tmpdir", "untmp", "end"},
           NEW e \in BOOLEAN, Return(e)
    PROVE  pc' \notin {"setup", "tmpdir", "end"} /\ phase' = "open"
<1>1. phase' = "open" /\ pc' = IF e THEN OnError[pc] ELSE OnSuccess[pc]
  BY ReturnType, PlacesAre DEF Pcs
<1>2. OnError[pc] \notin {"setup", "tmpdir", "end"}
  BY DEF OnError, Pcs
<1>3. OnSuccess[pc] \notin {"setup", "tmpdir", "end"}
  BY DEF OnSuccess, Pcs
<1> QED BY <1>1, <1>2, <1>3

LEMMA CausesStep == TypeOK /\ Causes /\ [Next]_vars => Causes'
<1> SUFFICES ASSUME TypeOK, Causes, [Next]_vars PROVE Causes'
  OBVIOUS
<1>1. CASE UNCHANGED <<pc, phase, link, lapse>>
  BY <1>1 DEF Causes
<1>2. ASSUME \E e \in BOOLEAN : Return(e), link' = link, lapse => lapse' PROVE Causes'
  BY <1>2 DEF Causes, Return
<1>3. ASSUME NEW c \in Commands, Execute(c) \/ CommandFails(c) PROVE Causes'
  BY <1>2, <1>3 DEF Execute, CommandFails
<1>4. CASE CommandRefused \/ OpenRun \/ EndRun \/ CallFails
  BY <1>2, <1>4, Zenon DEF CommandRefused, OpenRun, EndRun, CallFails
<1>5. CASE SetupDone
  BY <1>5 DEF SetupDone, At, Causes
<1>6. ASSUME NEW v \in Uploads,
             OpenSession(v) \/ Start(v) \/ SetStdin(v) \/ OpenFile(v)
      PROVE  Causes'
  BY <1>6 DEF OpenSession, Start, SetStdin, OpenFile, Continue, Causes, At
<1>7. ASSUME NEW v \in Uploads, ScpEnds(v) \/ ScpFails(v) PROVE Causes'
  BY <1>2, <1>7 DEF ScpEnds, ScpFails, Continue, Causes
<1>8. ASSUME NEW v \in Uploads, CheckStdinErr(v) PROVE Causes'
  <2>1. Return(session[v].failed) /\ session[v].failed \in BOOLEAN
    BY <1>8 DEF CheckStdinErr, TypeOK, Session
  <2> QED BY <1>2, <1>8, <2>1 DEF CheckStdinErr
<1>9. ASSUME NEW v \in Uploads, MkdirHere(v) \/ WriteFile(v) \/ HereFails(v) PROVE Causes'
  BY <1>2, <1>9 DEF MkdirHere, WriteFile, HereFails
<1>10. CASE StartRun
  BY <1>2, <1>10 DEF StartRun, Continue, Causes
<1>11. CASE LinkFails
  BY <1>11 DEF LinkFails, main, Causes
<1>12. CASE End \/ BvzEnds \/ BvzFails \/ Kill \/ (\E v \in Uploads : Goroutine(v))
            \/ UNCHANGED vars
  BY <1>1, <1>12
     DEF End, BvzEnds, BvzFails, Kill, Goroutine, AskForPipe, Panic, GetPipe, Write,
         WriteFails, Close, CloseEmpty, vars, main
<1> QED
  BY <1>3, <1>4, <1>5, <1>6, <1>7, <1>8, <1>9, <1>10, <1>11, <1>12
     DEF Next, Caller, Failure

LEMMA CleanStep == TypeOK /\ Feeding /\ Causes /\ Clean /\ [Next]_vars => Clean'
<1> SUFFICES ASSUME TypeOK, Feeding, Causes, Clean, [Next]_vars, ~lapse' PROVE Clean'
  BY DEF Clean
<1>a. \/ pc' \notin {"setup", "tmpdir", "end"}
      \/ Empty' /\ pc' \in {"setup", "tmpdir", "end"}
      => Clean'
  BY DEF Clean
<1>0. pc \in Pcs
  BY PlacesAre DEF TypeOK, Pcs
<1>1. CASE UNCHANGED <<pc, phase, session, disk, lapse>>
  BY <1>1 DEF Clean, Empty
<1>2. ASSUME pc \notin {"setup", "tmpdir", "untmp", "end"},
             \E e \in BOOLEAN : Return(e)
      PROVE  Clean'
  BY <1>0, <1>2, <1>a, LateReturn
<1>3. ASSUME NEW c \in Commands, Execute(c) PROVE Clean'
  <2>1. CASE c = "setup"
    BY <1>3, <2>1 DEF Execute, At, Return, OnSuccess, Effect, Clean, Empty
  <2>2. CASE c = "untmp"
    BY <1>3, <2>2 DEF Execute, At, Return, OnSuccess, Effect, Clean, Empty
  <2>3. CASE c \notin {"setup", "untmp"}
    BY <1>2, <1>3, <2>3 DEF Execute, At
  <2> QED BY <2>1, <2>2, <2>3
<1>4. ASSUME NEW c \in Commands, CommandFails(c) PROVE Clean'
  <2>1. CASE c = "setup"
    BY <1>4, <2>1 DEF CommandFails, At, Return, OnError, Clean, Empty
  <2>2. c # "untmp"
    BY <1>4 DEF CommandFails
  <2>3. CASE c \notin {"setup", "untmp"}
    BY <1>2, <1>4, <2>3 DEF CommandFails, At
  <2> QED BY <2>1, <2>2, <2>3
<1>5. CASE CommandRefused \/ OpenRun \/ EndRun
  <2>1. pc \in {"unscript", "session", "run"} /\ \E e \in BOOLEAN : Return(e)
    BY <1>5, Zenon DEF CommandRefused, OpenRun, EndRun, At
  <2> QED BY <1>2, <2>1
<1>6. CASE SetupDone
  BY <1>6 DEF SetupDone, At, Clean, machine, Empty
<1>7. ASSUME NEW v \in Uploads, OpenSession(v) \/ Start(v) \/ SetStdin(v)
      PROVE  Clean'
  BY <1>7 DEF OpenSession, Start, SetStdin, At, Continue, Clean, machine, Empty
<1>8. ASSUME NEW v \in Uploads, ScpEnds(v) PROVE Clean'
  <2>1. CASE v # "tmpdir"
    <3>1. CASE Return(TRUE)
      BY <1>2, <1>8, <2>1, <3>1 DEF ScpEnds, At
    <3>2. CASE Continue("check")
      BY <1>8, <2>1, <3>2 DEF ScpEnds, At, Continue, Clean
    <3> QED BY <1>8, <3>1, <3>2 DEF ScpEnds
  <2>2. CASE v = "tmpdir"
    <3>1. Continue("check") /\ session[v].eof /\ Clean /\ pc = v /\ phase = "wait"
      BY <1>8, <2>2 DEF ScpEnds, At, Feeding
    <3>2. CASE session[v].got = "none"
      BY <1>8, <2>2, <3>1, <3>2 DEF ScpEnds, Written, Continue, Clean, Empty
    <3>3. CASE session[v].got # "none"
      BY <1>8, <2>2, <3>1, <3>3 DEF ScpEnds, Continue, Clean
    <3> QED BY <3>2, <3>3
  <2> QED BY <2>1, <2>2
<1>9. ASSUME NEW v \in Uploads, ScpFails(v) PROVE Clean'
  BY <1>2, <1>9 DEF ScpFails, At
<1>10. ASSUME NEW v \in Uploads, CheckStdinErr(v) PROVE Clean'
  <2>1. Return(session[v].failed) /\ session[v].failed \in BOOLEAN /\ pc = v
    BY <1>10 DEF CheckStdinErr, TypeOK, Session, At
  <2>2. CASE v # "tmpdir"
    BY <1>2, <2>1, <2>2
  <2>3. CASE v = "tmpdir" /\ session[v].failed
    <3>1. Empty /\ disk' = disk
      BY <1>10, <2>1, <2>3 DEF CheckStdinErr, Clean, Feeding, machine
    <3> QED BY <3>1 DEF Clean, Empty
  <2>4. CASE v = "tmpdir" /\ ~session[v].failed
    <3>1. pc' = "logs"
      BY <2>1, <2>4 DEF Return, OnSuccess
    <3> QED BY <3>1 DEF Clean
  <2> QED BY <2>1, <2>2, <2>3, <2>4
<1>11. ASSUME NEW v \in Uploads, MkdirHere(v) \/ WriteFile(v) PROVE Clean'
  <2>1. pc = v /\ Return(FALSE)
    BY <1>11 DEF MkdirHere, WriteFile, At
  <2>2. CASE v = "tmpdir"
    <3>1. pc' = "logs"
      BY <2>1, <2>2 DEF Return, OnSuccess
    <3> QED BY <3>1 DEF Clean
  <2> QED BY <1>2, <2>1, <2>2
<1>12. ASSUME NEW v \in Uploads, OpenFile(v) PROVE Clean'
  BY <1>12 DEF OpenFile, At, Continue, Clean
<1>13. ASSUME NEW v \in Uploads, HereFails(v) PROVE Clean'
  <2>1. pc = v /\ Return(TRUE)
    BY <1>13 DEF HereFails, At
  <2>2. CASE v = "tmpdir"
    <3>1. phase = "open" /\ disk' = disk
      BY <1>13, <2>2 DEF HereFails, At, Causes
    <3> QED BY <1>13, <2>1, <2>2, <3>1 DEF HereFails, Clean, Empty
  <2> QED BY <1>2, <2>1, <2>2
<1>14. CASE StartRun
  <2>1. CASE Return(TRUE)
    BY <1>2, <1>14, <2>1 DEF StartRun, At
  <2>2. CASE Continue("wait")
    BY <1>14, <2>2 DEF StartRun, At, Continue, Clean
  <2> QED BY <1>14, <2>1, <2>2 DEF StartRun
<1>15. ~CallFails /\ ~LinkFails
  BY DEF CallFails, LinkFails, Causes
<1>16. ASSUME NEW v \in Uploads, Goroutine(v) PROVE Clean'
  <2>1. UNCHANGED <<pc, phase, disk, lapse>>
    BY <1>16 DEF Goroutine, AskForPipe, Panic, GetPipe, Write, WriteFails, Close,
                 CloseEmpty, main, machine
  <2>2. session["tmpdir"].eof /\ session["tmpdir"].got # "none" =>
            session'["tmpdir"].eof /\ session'["tmpdir"].got # "none"
    BY <1>16 DEF Goroutine, AskForPipe, Panic, GetPipe, Write, WriteFails, Close,
                 CloseEmpty, TypeOK, Session
  <2> QED BY <2>1, <2>2 DEF Clean, Empty
<1>17. CASE End \/ BvzEnds \/ BvzFails \/ Kill \/ UNCHANGED vars
  BY <1>1, <1>17 DEF End, BvzEnds, BvzFails, Kill, vars, main, machine
<1> QED
  BY <1>3, <1>4, <1>5, <1>6, <1>7, <1>8, <1>9, <1>10, <1>11, <1>12, <1>13, <1>14,
     <1>15, <1>16, <1>17
     DEF Next, Caller, Failure

LEMMA UnscriptedStep == TypeOK /\ Causes /\ Unscripted /\ [Next]_vars => Unscripted'
<1> SUFFICES ASSUME TypeOK, Causes, Unscripted, [Next]_vars,
                    executor' = "local", faults' = MaxFaults
             PROVE  Unscripted'
  BY DEF Unscripted
<1>a. executor = "local" /\ ~Fault
  <2>1. executor' = executor
    BY DEF Next, Caller, Goroutine, Failure, Execute, CommandRefused, SetupDone,
           OpenSession, Start, SetStdin, ScpEnds, CheckStdinErr, MkdirHere, OpenFile,
           WriteFile, OpenRun, StartRun, EndRun, End, CallFails, AskForPipe, Panic,
           GetPipe, Write, WriteFails, Close, CloseEmpty, CommandFails, ScpFails,
           HereFails, BvzEnds, BvzFails, Kill, LinkFails, vars
  <2>2. ~Fault
    BY CountAssumption DEF Fault, TypeOK
  <2> QED BY <2>1, <2>2
<1>b. faults = MaxFaults
  BY <1>a DEF Next, Caller, Goroutine, Failure, Execute, CommandRefused, SetupDone,
           OpenSession, Start, SetStdin, ScpEnds, CheckStdinErr, MkdirHere, OpenFile,
           WriteFile, OpenRun, StartRun, EndRun, End, CallFails, AskForPipe, Panic,
           GetPipe, Write, WriteFails, Close, CloseEmpty, CommandFails, ScpFails,
           HereFails, BvzEnds, BvzFails, Kill, LinkFails, vars
<1>c. \/ disk["script"] = "none"
      \/ pc \in {"run", "unscript"}
      \/ pc = "script" /\ phase = "copy"
  BY <1>a, <1>b DEF Unscripted
<1>1. CASE UNCHANGED <<pc, phase, disk>>
  BY <1>1, <1>c DEF Unscripted
<1>2. ASSUME pc # "end", \E e \in BOOLEAN : Return(e), disk' = disk, pc # "unscript",
             pc = "script" => phase # "copy"
      PROVE  Unscripted'
  <2>1. pc = "run" => pc' = "unscript"
    BY <1>2 DEF Return, OnSuccess, OnError
  <2> QED BY <1>2, <1>c, <2>1 DEF Unscripted
<1>3. ASSUME NEW c \in Commands, Execute(c) PROVE Unscripted'
  <2>1. pc = c /\ disk' = Effect(c)
    BY <1>3 DEF Execute, At
  <2> QED BY <1>c, <2>1 DEF Effect, Unscripted, TypeOK
<1>4. CASE SetupDone
  BY <1>4, <1>c DEF SetupDone, At, Unscripted, machine
<1>5. ASSUME NEW v \in Uploads, SetStdin(v) PROVE Unscripted'
  BY <1>5, <1>c DEF SetStdin, At, Continue, Unscripted, machine
<1>6. ASSUME NEW v \in Uploads, CheckStdinErr(v) PROVE Unscripted'
  <2>1. /\ Return(session[v].failed) /\ session[v].failed \in BOOLEAN
        /\ pc = v /\ disk' = disk /\ phase = "check"
    BY <1>6 DEF CheckStdinErr, TypeOK, Session, At, machine
  <2> QED BY <1>2, <2>1
<1>7. ASSUME NEW v \in Uploads, MkdirHere(v) PROVE Unscripted'
  BY <1>7, <1>c DEF MkdirHere, At, Unscripted, TypeOK
<1>8. ASSUME NEW v \in Uploads, OpenFile(v) PROVE Unscripted'
  BY <1>8, <1>c DEF OpenFile, At, Continue, Unscripted, TypeOK
<1>9. ASSUME NEW v \in Uploads, WriteFile(v) PROVE Unscripted'
  <2>1. pc = v /\ Return(FALSE) /\ disk' = [disk EXCEPT ![v] = "whole"] /\ v \in Files
    BY <1>9 DEF WriteFile, At, Causes
  <2>2. v = "script" => pc' = "run"
    BY <2>1 DEF Return, OnSuccess
  <2> QED BY <1>c, <2>1, <2>2 DEF Unscripted, TypeOK
<1>10. CASE OpenRun \/ EndRun
  <2>1. pc \in {"session", "run"} /\ disk' = disk /\ \E e \in BOOLEAN : Return(e)
    BY <1>10, Zenon DEF OpenRun, EndRun, At, machine
  <2> QED BY <1>2, <2>1
<1>11. CASE StartRun
  <2>1. CASE Return(TRUE)
    BY <1>2, <1>11, <2>1 DEF StartRun, At
  <2>2. CASE Continue("wait")
    BY <1>11, <2>2 DEF StartRun, At, Continue, Unscripted
  <2> QED BY <1>11, <2>1, <2>2 DEF StartRun
<1>12. ~CommandRefused /\ ~CallFails /\ ~Failure
       /\ \A v \in Uploads : ~OpenSession(v) /\ ~Start(v) /\ ~ScpEnds(v)
  BY <1>a DEF CommandRefused, Refused, CallFails, Failure, CommandFails, ScpFails,
              HereFails, BvzFails, Kill, LinkFails, OpenSession, Start, ScpEnds
<1>13. CASE End \/ BvzEnds \/ (\E v \in Uploads : Goroutine(v)) \/ UNCHANGED vars
  BY <1>1, <1>13
     DEF End, BvzEnds, Goroutine, AskForPipe, Panic, GetPipe, Write, WriteFails, Close,
         CloseEmpty, vars, main, machine
<1> QED
  BY <1>3, <1>4, <1>5, <1>6, <1>7, <1>8, <1>9, <1>10, <1>11, <1>12, <1>13
     DEF Next, Caller
-----------------------------------------------------------------------------
(* Together *)

LEMMA InductiveStep == TypeOK /\ Inductive /\ [Next]_vars => Inductive'
<1> SUFFICES ASSUME TypeOK, Inductive, [Next]_vars PROVE Inductive'
  OBVIOUS
<1>1. Progress' /\ Feeding' /\ Claims'
  BY ProgressStep, FeedingStep, ClaimsStep DEF Inductive
<1>2. (Causes /\ Clean /\ Unscripted)'
  BY CausesStep, CleanStep, UnscriptedStep, TidyIs DEF Inductive
<1>3. Tidy'
  BY <1>2 DEF Tidy, Causes, Clean, Unscripted
<1> QED BY <1>1, <1>3 DEF Inductive

LEMMA InductiveInit == Init => Inductive
<1> SUFFICES ASSUME Init PROVE Inductive
  OBVIOUS
<1>1. Progress
  BY InitHolds
<1>2. Feeding
  BY DEF Init, Feeding, NewSession
<1>3. Claims
  BY DEF Init, Claims, After
<1>4. Tidy
  BY DEF Init, Tidy, Empty
<1> QED BY <1>1, <1>2, <1>3, <1>4 DEF Inductive

\* What is known of a build at each place, of its goroutines and of the disk
\* stays true.
THEOREM InductiveHolds == Spec => []Inductive
<1> QED BY InductiveInit, InductiveStep, TypeCorrect, PTL DEF Spec

-----------------------------------------------------------------------------
(* A build in which nothing fails *)

\* What Flawless says of such a build.
Well ==
    /\ ~err /\ link = "up" /\ bvz # "failed" /\ process # "failed"
    /\ \A u \in Uploads : ~session[u].failed
    /\ pc \in {"template", "session", "script", "run"} => disk["clone"] = "whole"

LEMMA FaultsFall ==
    TypeOK /\ [Next]_vars /\ faults' = MaxFaults => faults = MaxFaults /\ ~Failure
<1> SUFFICES ASSUME TypeOK, [Next]_vars, faults' = MaxFaults
             PROVE  faults = MaxFaults /\ ~Failure
  OBVIOUS
<1>1. ~Fault
  BY CountAssumption DEF Fault, TypeOK
<1>2. ~Failure
  BY <1>1 DEF Failure, CommandFails, ScpFails, HereFails, BvzFails, Kill, LinkFails
<1>3. UNCHANGED faults
  BY <1>2 DEF Next, Caller, Goroutine, Execute, CommandRefused, SetupDone, OpenSession,
              Start, SetStdin, ScpEnds, CheckStdinErr, MkdirHere, OpenFile, WriteFile,
              OpenRun, StartRun, EndRun, End, CallFails, AskForPipe, Panic, GetPipe,
              Write, WriteFails, Close, CloseEmpty, BvzEnds, vars
<1> QED BY <1>2, <1>3

\* A call that returns without an error leaves all well.
LEMMA WellReturn ==
    ASSUME TypeOK, Well, pc # "end", Return(FALSE),
           UNCHANGED <<link, bvz, session>>,
           pc = "clone" \/ disk["clone"] = "whole" => disk'["clone"] = "whole"
    PROVE  Well'
<1>1. pc \in Pcs \ {"end"} /\ pc' = OnSuccess[pc] /\ err' = err /\ process' = process
  BY PlacesAre DEF TypeOK, Pcs, Return
<1>2. pc' \in {"template", "session", "script", "run"} =>
          pc \in {"clone", "template", "session", "script"}
  BY <1>1 DEF OnSuccess, Pcs
<1> QED BY <1>1, <1>2 DEF Well

LEMMA FlawlessStep ==
    TypeOK /\ Progress /\ Feeding /\ Claims /\ Flawless /\ [Next]_vars => Flawless'
<1> SUFFICES ASSUME TypeOK, Progress, Feeding, Claims, Flawless, [Next]_vars,
                    faults' = MaxFaults, NotOvertaken'
             PROVE  Well'
  BY DEF Flawless, Well, NotOvertaken
<1>a. NotOvertaken /\ faults = MaxFaults /\ ~Failure
  BY OvertakenStays, FaultsFall
<1>b. Well
  BY <1>a DEF Flawless, Well, NotOvertaken
<1>1. ASSUME UNCHANGED <<pc, err, link, bvz, process, disk>>,
             \A u \in Uploads : session'[u].failed = session[u].failed
      PROVE  Well'
  BY <1>1, <1>b DEF Well
<1>2. ASSUME NEW c \in Commands, Execute(c) PROVE Well'
  <2>1. /\ pc = c /\ Return(FALSE) /\ disk' = Effect(c)
        /\ UNCHANGED <<link, bvz, session>>
    BY <1>2 DEF Execute, At
  <2>2. CASE c \in {"setup", "clone"}
    <3>1. pc = "clone" \/ disk["clone"] = "whole" => disk'["clone"] = "whole"
      BY <2>1, <2>2 DEF Effect, TypeOK
    <3>2. pc # "end"
      BY <2>1, <2>2
    <3> QED BY <1>b, <2>1, <3>1, <3>2, WellReturn
  <2>3. CASE c \in Deferred
    <3>1. pc' \in {"untmp", "end"} /\ err' = err /\ process' = process
      BY <2>1, <2>3 DEF Return, OnSuccess, TypeOK
    <3> QED BY <1>b, <2>1, <3>1 DEF Well
  <2> QED BY <2>2, <2>3
<1>3. CASE CommandRefused
  BY <1>3, <1>b DEF CommandRefused, At, Return, OnError, Well, machine
<1>4. CASE SetupDone
  BY <1>4, <1>b DEF SetupDone, Well, machine
<1>5. ASSUME NEW u \in Uploads, OpenSession(u) PROVE Well'
  BY <1>5, <1>1 DEF OpenSession, Continue, machine
<1>6. ASSUME NEW u \in Uploads, Start(u) \/ SetStdin(u) PROVE Well'
  BY <1>6, <1>1 DEF Start, SetStdin, Continue, machine, TypeOK, Session
<1>7. ASSUME NEW u \in Uploads, ScpEnds(u) PROVE Well'
  <2>1. session[u].got = "whole"
    BY <1>7, <1>a, <1>b DEF ScpEnds, At, Feeding, NotOvertaken, Well
  <2>2. Continue("check") /\ disk' = Written(u) /\ UNCHANGED <<link, session, bvz>>
    BY <1>7, <2>1 DEF ScpEnds
  <2>3. disk'["clone"] = disk["clone"]
    BY <2>2 DEF Written, TypeOK
  <2> QED BY <1>b, <2>2, <2>3 DEF Continue, Well
<1>8. ASSUME NEW u \in Uploads, CheckStdinErr(u) PROVE Well'
  <2>1. ~session[u].failed /\ session[u].failed \in BOOLEAN
    BY <1>b DEF Well, TypeOK, Session
  <2>2. Return(FALSE) /\ pc = u /\ UNCHANGED <<link, session, bvz, disk>>
    BY <1>8, <2>1 DEF CheckStdinErr, At, machine
  <2> QED BY <1>b, <2>2, WellReturn
<1>9. ASSUME NEW u \in Uploads, MkdirHere(u) \/ WriteFile(u) PROVE Well'
  BY <1>9, <1>b, WellReturn DEF MkdirHere, WriteFile, At, TypeOK
<1>10. ASSUME NEW u \in Uploads, OpenFile(u) PROVE Well'
  BY <1>10, <1>b DEF OpenFile, Continue, Well, TypeOK
<1>11. CASE OpenRun
  BY <1>11, <1>b, WellReturn DEF OpenRun, At, machine
<1>12. CASE StartRun
  <2>1. disk["script"] = "whole"
    BY <1>12, <1>a DEF StartRun, At, Claims, NotOvertaken, After
  <2> QED BY <1>12, <1>b, <2>1 DEF StartRun, Continue, Well
<1>13. CASE EndRun
  BY <1>13, <1>b, WellReturn DEF EndRun, At, machine, Well
<1>14. CASE End
  BY <1>14, <1>b DEF End, Well, machine
<1>15. CASE CallFails
  BY <1>15, <1>b DEF CallFails, Well
<1>16. CASE BvzEnds
  <2>1. pc = "run"
    BY <1>16, <1>b DEF BvzEnds, Progress, Well
  <2>2. disk["clone"] = "whole" /\ disk["template"] = "whole"
    BY <1>a, <1>b, <2>1 DEF Well, Claims, NotOvertaken, After
  <2> QED BY <1>16, <1>b, <2>2 DEF BvzEnds, Provided, Well, main
<1>17. ASSUME NEW u \in Uploads, Goroutine(u) PROVE Well'
  <2>1. ~WriteFails(u)
    BY <1>a, <1>b DEF WriteFails, Feeds, Feeding, NotOvertaken, Well
  <2>2. CASE Panic(u)
    BY <1>b, <2>2 DEF Panic, Well, machine
  <2>3. CASE AskForPipe(u)
    BY <1>1, <2>3 DEF AskForPipe, main, machine
  <2>4. CASE GetPipe(u) \/ Write(u) \/ Close(u) \/ CloseEmpty(u)
    BY <1>1, <2>4 DEF GetPipe, Write, Close, CloseEmpty, main, machine, TypeOK, Session
  <2> QED BY <1>17, <2>1, <2>2, <2>3, <2>4 DEF Goroutine
<1>18. CASE UNCHANGED vars
  BY <1>1, <1>18 DEF vars, main, machine
<1> QED
  BY <1>a, <1>2, <1>3, <1>4, <1>5, <1>6, <1>7, <1>8, <1>9, <1>10, <1>11, <1>12,
     <1>13, <1>14, <1>15, <1>16, <1>17, <1>18
     DEF Next, Caller

\* Without a failure and without an overtaken goroutine, every call succeeds.
LEMMA FlawlessHolds == Spec => []Flawless
<1>1. Init => Flawless
  BY DEF Init, Flawless, NewSession
<1>2. TypeOK /\ Inductive /\ Flawless /\ [Next]_vars => Flawless'
  BY FlawlessStep DEF Inductive
<1> QED BY <1>1, <1>2, TypeCorrect, InductiveHolds, PTL DEF Spec

\* An upload that is reported but not there was overtaken, and a build that
\* returns an error though no call has failed had such an upload.
THEOREM OvertakingIsTheOnlyWay == Spec => []OvertakenOnly
<1>1. Inductive /\ Flawless => OvertakenOnly
  BY DEF Inductive, Claims, Flawless, OvertakenOnly
<1> QED BY <1>1, InductiveHolds, FlawlessHolds, PTL

\* Once BuildImage has returned its directory is gone, unless a call that makes
\* or removes it has failed or the connection has.
THEOREM DirectoryGoes == Spec => []CleansUp
<1>1. Inductive => CleansUp
  BY DEF Inductive, Progress, Tidy, Empty, CleansUp
<1> QED BY <1>1, InductiveHolds, PTL
-----------------------------------------------------------------------------
(* No build goes on for ever *)

Ranked == /\ CallerRank \in Nat /\ ProcessRank \in Nat /\ MachineRank \in Nat
          /\ \A u \in Uploads : UploadRank(u) \in Nat

LEMMA RankTypes == TypeOK => Ranked
<1> SUFFICES ASSUME TypeOK PROVE Ranked
  OBVIOUS
<1>1. PlaceRank[pc] \in Nat /\ PhaseRank[phase] \in Nat
  <2>1. pc \in Pcs
    BY PlacesAre DEF TypeOK, Pcs
  <2>2. \A p \in Pcs : PlaceRank[p] \in Nat
    BY DEF PlaceRank, Pcs
  <2>3. PhaseRank[phase] \in Nat
    BY DEF PhaseRank, TypeOK
  <2> QED BY <2>1, <2>2, <2>3
<1>2. SetupCommands - setup \in Nat
  BY CountAssumption DEF TypeOK
<1>3. CallerRank \in Nat
  BY <1>1, <1>2 DEF CallerRank
<1>4. ProcessRank \in Nat /\ MachineRank \in Nat
  BY DEF ProcessRank, MachineRank
<1>5. \A u \in Uploads : UploadRank(u) \in Nat
  BY DEF UploadRank
<1> QED BY <1>3, <1>4, <1>5 DEF Ranked

\* If a part gets smaller and none gets larger, so does the sum.
LEMMA SumFalls ==
    ASSUME TypeOK, TypeOK',
           CallerRank' = CallerRank \/ CallerRank' < CallerRank,
           ProcessRank' = ProcessRank \/ ProcessRank' < ProcessRank,
           MachineRank' = MachineRank \/ MachineRank' < MachineRank,
           \A u \in Uploads :
             UploadRank(u)' = UploadRank(u) \/ UploadRank(u)' < UploadRank(u),
           \/ CallerRank' < CallerRank \/ ProcessRank' < ProcessRank
           \/ MachineRank' < MachineRank
           \/ \E u \in Uploads : UploadRank(u)' < UploadRank(u)
    PROVE  Remaining' < Remaining
<1>1. Ranked /\ Ranked'
  <2>1. TypeOK' => Ranked'
    BY RankTypes, PTL
  <2> QED BY <2>1, RankTypes
<1> QED BY <1>1 DEF Remaining, Ranked

LEMMA PlaceRanks ==
    /\ \A p \in Pcs : PlaceRank[p] \in Nat
    /\ \A p \in Pcs \ {"end"} : PlaceRank[OnError[p]] < PlaceRank[p]
    /\ \A p \in Pcs \ {"setup", "end"} : PlaceRank[OnSuccess[p]] < PlaceRank[p]
    /\ \A p \in {"open", "exec", "stdin", "wait", "check", "copy"} :
         PhaseRank[p] \in 1 .. 5
BY DEF PlaceRank, PhaseRank, OnError, OnSuccess, Pcs

\* Every call that returns takes the caller to a place of a lower rank.
LEMMA ReturnFalls ==
    ASSUME TypeOK, pc # "end", NEW e \in BOOLEAN, Return(e), setup' = setup,
           pc = "setup" => e
    PROVE  CallerRank' < CallerRank /\ ProcessRank' = ProcessRank
<1>1. pc \in Pcs \ {"end"} /\ phase \in {"open", "exec", "stdin", "wait", "check", "copy"}
  BY PlacesAre DEF TypeOK, Pcs
<1>2. /\ pc' = IF e THEN OnError[pc] ELSE OnSuccess[pc]
      /\ phase' = "open" /\ process' = process
  BY ReturnType
<1>3. pc' \in Pcs /\ PlaceRank[pc'] < PlaceRank[pc]
  BY <1>1, <1>2, PlaceRanks, PlacesAre
<1>4. PlaceRank[pc] \in Nat /\ PlaceRank[pc'] \in Nat
  BY <1>1, <1>3, PlaceRanks
<1>5. PhaseRank[phase] >= 1 /\ PhaseRank[phase] \in Nat /\ PhaseRank[phase'] = 5
  BY <1>1, <1>2, PlaceRanks DEF PhaseRank
<1>6. SetupCommands - setup \in Nat /\ setup' = setup
  BY CountAssumption DEF TypeOK
<1>7. CallerRank' < CallerRank
  BY <1>3, <1>4, <1>5, <1>6 DEF CallerRank
<1>8. ProcessRank' = ProcessRank
  BY <1>2 DEF ProcessRank
<1> QED BY <1>7, <1>8

\* So does a call that gets further.
LEMMA ContinueFalls ==
    ASSUME TypeOK, NEW ph, Continue(ph), setup' = setup,
           \/ phase = "open" /\ ph \in {"exec", "copy", "wait"}
           \/ phase = "exec" /\ ph = "stdin"
           \/ phase = "stdin" /\ ph = "wait"
           \/ phase = "wait" /\ ph = "check"
    PROVE  CallerRank' < CallerRank /\ ProcessRank' = ProcessRank
<1>1. pc \in Pcs /\ PlaceRank[pc] \in Nat
  BY PlaceRanks, PlacesAre DEF TypeOK, Pcs
<1>2. SetupCommands - setup \in Nat
  BY CountAssumption DEF TypeOK
<1> QED BY <1>1, <1>2 DEF Continue, CallerRank, ProcessRank, PhaseRank

\* A goroutine's step, and the client's.
LEMMA GoroutineFalls ==
    ASSUME TypeOK, NEW u \in Uploads, Goroutine(u), ~Panic(u)
    PROVE  /\ UploadRank(u)' < UploadRank(u)
           /\ \A v \in Uploads : v # u => UploadRank(v)' = UploadRank(v)
           /\ CallerRank' = CallerRank /\ ProcessRank' = ProcessRank
           /\ MachineRank' = MachineRank
<1>1. UNCHANGED <<main, machine, link>>
  BY DEF Goroutine, AskForPipe, GetPipe, Write, WriteFails, Close, CloseEmpty
<1>2. \A v \in Uploads : v # u => feeder'[v] = feeder[v] /\ session'[v] = session[v]
  BY DEF Goroutine, AskForPipe, GetPipe, Write, WriteFails, Close, CloseEmpty, TypeOK
<1>3. session[u] \in Session /\ feeder \in [Uploads -> {"none", "ready", "pipe", "write",
                                                        "close", "done"}]
  BY DEF TypeOK
<1>4. UploadRank(u)' < UploadRank(u)
  <2>1. CASE AskForPipe(u)
    BY <1>3, <2>1 DEF AskForPipe, Feeds, UploadRank
  <2>2. CASE GetPipe(u)
    BY <1>3, <2>2 DEF GetPipe, Feeds, UploadRank, TypeOK, Session
  <2>3. CASE Write(u)
    BY <1>3, <2>3 DEF Write, Feeds, UploadRank, TypeOK, Session
  <2>4. CASE WriteFails(u)
    BY <1>3, <2>4 DEF WriteFails, Feeds, UploadRank, TypeOK, Session
  <2>5. CASE Close(u)
    BY <1>3, <2>5 DEF Close, Feeds, UploadRank, TypeOK, Session
  <2>6. CASE CloseEmpty(u)
    BY <1>3, <2>6 DEF CloseEmpty, UploadRank, TypeOK, Session
  <2> QED BY <2>1, <2>2, <2>3, <2>4, <2>5, <2>6 DEF Goroutine
<1> QED
  BY <1>1, <1>2, <1>4 DEF UploadRank, CallerRank, ProcessRank, MachineRank, main, machine

\* Every step of a build leaves fewer steps to it.
LEMMA StepFalls == TypeOK /\ TypeOK' /\ Progress /\ Feeding /\ Next => Remaining' < Remaining
<1> SUFFICES ASSUME TypeOK, TypeOK', Progress, Feeding, Next PROVE Remaining' < Remaining
  OBVIOUS
<1>a. ASSUME CallerRank' < CallerRank, ProcessRank' = ProcessRank,
             UNCHANGED <<link, bvz, feeder, session>>
      PROVE  Remaining' < Remaining
  <2>1. MachineRank' = MachineRank /\ \A u \in Uploads : UploadRank(u)' = UploadRank(u)
    BY <1>a DEF MachineRank, UploadRank
  <2> QED BY <1>a, <2>1, SumFalls
<1>b. ASSUME pc # "end", pc = "setup" => FALSE, NEW e \in BOOLEAN, Return(e),
             UNCHANGED <<setup, link, bvz, feeder, session>>
      PROVE  Remaining' < Remaining
  BY <1>a, <1>b, ReturnFalls
<1>c. ASSUME pc # "end", Return(TRUE), UNCHANGED <<setup, link, bvz, feeder, session>>
      PROVE  Remaining' < Remaining
  BY <1>a, <1>c, ReturnFalls
<1>d. ASSUME MachineRank' < MachineRank, UNCHANGED <<main, feeder, session>>
      PROVE  Remaining' < Remaining
  <2>1. /\ CallerRank' = CallerRank /\ ProcessRank' = ProcessRank
        /\ \A u \in Uploads : UploadRank(u)' = UploadRank(u)
    BY <1>d DEF CallerRank, ProcessRank, UploadRank, main
  <2> QED BY <1>d, <2>1, SumFalls
<1>e. ASSUME ProcessRank' < ProcessRank,
             UNCHANGED <<pc, phase, setup, link, bvz, feeder, session>>
      PROVE  Remaining' < Remaining
  <2>1. /\ CallerRank' = CallerRank /\ MachineRank' = MachineRank
        /\ \A u \in Uploads : UploadRank(u)' = UploadRank(u)
    BY <1>e DEF CallerRank, MachineRank, UploadRank
  <2> QED BY <1>e, <2>1, SumFalls
<1>1. ASSUME NEW c \in Commands, Execute(c) PROVE Remaining' < Remaining
  <2>1. CASE c = "setup"
    <3>1. /\ pc' = pc /\ phase' = phase /\ setup' = setup + 1 /\ process' = process
          /\ UNCHANGED <<link, bvz, feeder, session>>
      BY <1>1, <2>1 DEF Execute, At, Return, OnSuccess
    <3>2. PlaceRank[pc] \in Nat /\ PhaseRank[phase] \in Nat /\ setup \in Nat /\ setup' \in Nat
          /\ SetupCommands \in Nat
      BY PlaceRanks, PlacesAre, CountAssumption DEF TypeOK, Pcs
    <3>3. CallerRank' < CallerRank /\ ProcessRank' = ProcessRank
      BY <3>1, <3>2 DEF CallerRank, ProcessRank
    <3> QED BY <1>a, <3>1, <3>3
  <2>2. CASE c # "setup"
    BY <1>1, <1>b, <2>2 DEF Execute, At
  <2> QED BY <2>1, <2>2
<1>2. ASSUME NEW c \in Commands, CommandFails(c) PROVE Remaining' < Remaining
  BY <1>2, <1>c DEF CommandFails, At
<1>3. CASE CommandRefused
  BY <1>3, <1>c DEF CommandRefused, At, machine
<1>4. CASE SetupDone
  <2>1. /\ pc = "setup" /\ pc' = "tmpdir" /\ process' = process
        /\ UNCHANGED <<phase, setup, link, bvz, feeder, session>>
    BY <1>4 DEF SetupDone, At, machine
  <2>2. PhaseRank[phase] \in Nat /\ setup \in Nat /\ SetupCommands \in Nat
    BY PlaceRanks, CountAssumption DEF TypeOK
  <2>3. CallerRank' < CallerRank /\ ProcessRank' = ProcessRank
    BY <2>1, <2>2 DEF CallerRank, ProcessRank, PlaceRank
  <2> QED BY <1>a, <2>1, <2>3
<1>5. ASSUME NEW u \in Uploads, OpenSession(u) PROVE Remaining' < Remaining
  <2>1. /\ CallerRank' < CallerRank /\ ProcessRank' = ProcessRank
        /\ UNCHANGED <<link, bvz, session>>
    BY <1>5, ContinueFalls DEF OpenSession, At, machine
  <2>2. feeder[u] = "none"
    BY <1>5 DEF OpenSession, At, Feeding, Begun, After
  <2>3. UploadRank(u)' < UploadRank(u)
    BY <1>5, <2>1, <2>2 DEF OpenSession, UploadRank, TypeOK
  <2>4. \A v \in Uploads : v # u => UploadRank(v)' = UploadRank(v)
    BY <1>5, <2>1 DEF OpenSession, UploadRank, TypeOK
  <2>5. MachineRank' = MachineRank
    BY <2>1 DEF MachineRank
  <2> QED BY <2>1, <2>3, <2>4, <2>5, SumFalls
<1>6. ASSUME NEW u \in Uploads, Start(u) \/ SetStdin(u) PROVE Remaining' < Remaining
  <2>1. /\ CallerRank' < CallerRank /\ ProcessRank' = ProcessRank
        /\ UNCHANGED <<link, bvz, feeder>>
    BY <1>6, ContinueFalls DEF Start, SetStdin, At, machine
  <2>2. \A v \in Uploads : session'[v].got = session[v].got /\ session'[v].eof = session[v].eof
    BY <1>6 DEF Start, SetStdin, TypeOK, Session
  <2>3. MachineRank' = MachineRank /\ \A v \in Uploads : UploadRank(v)' = UploadRank(v)
    BY <2>1, <2>2 DEF MachineRank, UploadRank
  <2> QED BY <2>1, <2>3, SumFalls
<1>7. ASSUME NEW u \in Uploads, ScpEnds(u) PROVE Remaining' < Remaining
  <2>1. CASE Return(TRUE)
    BY <1>7, <1>c, <2>1 DEF ScpEnds, At
  <2>2. CASE Continue("check")
    BY <1>7, <1>a, <2>2, ContinueFalls DEF ScpEnds, At
  <2> QED BY <1>7, <2>1, <2>2 DEF ScpEnds
<1>8. ASSUME NEW u \in Uploads, ScpFails(u) \/ HereFails(u) PROVE Remaining' < Remaining
  BY <1>8, <1>c DEF ScpFails, HereFails, At
<1>9. ASSUME NEW u \in Uploads, CheckStdinErr(u) PROVE Remaining' < Remaining
  <2>1. session[u].failed \in BOOLEAN
    BY DEF TypeOK, Session
  <2> QED BY <1>9, <1>b, <2>1 DEF CheckStdinErr, At, machine
<1>10. ASSUME NEW u \in Uploads, MkdirHere(u) \/ WriteFile(u) PROVE Remaining' < Remaining
  BY <1>10, <1>b DEF MkdirHere, WriteFile, At
<1>11. ASSUME NEW u \in Uploads, OpenFile(u) PROVE Remaining' < Remaining
  BY <1>11, <1>a, ContinueFalls DEF OpenFile, At
<1>12. CASE OpenRun
  BY <1>12, <1>b DEF OpenRun, At, machine
<1>13. CASE StartRun
  <2>1. CASE Return(TRUE) /\ UNCHANGED bvz
    BY <1>13, <1>c, <2>1 DEF StartRun, At
  <2>2. CASE Continue("wait") /\ bvz' = "running"
    <3>1. /\ CallerRank' < CallerRank /\ ProcessRank' = ProcessRank
          /\ UNCHANGED <<link, feeder, session>>
      BY <1>13, <2>2, ContinueFalls DEF StartRun, At
    <3>2. \A u \in Uploads : UploadRank(u)' = UploadRank(u)
      BY <3>1 DEF UploadRank
    <3>3. MachineRank' < MachineRank
      BY <1>13, <2>2, <3>1 DEF StartRun, At, Progress, MachineRank
    <3> QED BY <3>1, <3>2, <3>3, SumFalls
  <2> QED BY <1>13, <2>1, <2>2 DEF StartRun
<1>14. CASE EndRun
  BY <1>14, <1>b DEF EndRun, At, machine
<1>15. CASE End
  <2>1. ProcessRank' < ProcessRank
    BY <1>15 DEF End, At, ProcessRank
  <2> QED BY <1>15, <1>e, <2>1 DEF End, machine
<1>16. CASE CallFails
  BY <1>16, <1>c DEF CallFails, machine
<1>17. ASSUME NEW u \in Uploads, Goroutine(u) PROVE Remaining' < Remaining
  <2>1. CASE Panic(u)
    <3>1. ProcessRank' < ProcessRank
      BY <2>1 DEF Panic, Feeds, ProcessRank
    <3> QED BY <1>e, <2>1, <3>1 DEF Panic, machine
  <2>2. CASE ~Panic(u)
    <3>1. /\ UploadRank(u)' < UploadRank(u)
          /\ \A v \in Uploads : v # u => UploadRank(v)' = UploadRank(v)
          /\ CallerRank' = CallerRank /\ ProcessRank' = ProcessRank
          /\ MachineRank' = MachineRank
      BY <1>17, <2>2, GoroutineFalls
    <3> QED BY <3>1, SumFalls
  <2> QED BY <2>1, <2>2
<1>18. CASE BvzEnds \/ BvzFails
  <2>1. bvz = "running" /\ bvz' \in {"done", "failed"} /\ link' = link
    BY <1>18 DEF BvzEnds, BvzFails
  <2>2. MachineRank' < MachineRank
    BY <2>1 DEF MachineRank
  <2> QED BY <1>18, <1>d, <2>2 DEF BvzEnds, BvzFails
<1>19. CASE Kill
  <2>1. ProcessRank' < ProcessRank
    BY <1>19 DEF Kill, ProcessRank
  <2> QED BY <1>19, <1>e, <2>1 DEF Kill, machine
<1>20. CASE LinkFails
  <2>1. MachineRank' < MachineRank
    BY <1>20 DEF LinkFails, MachineRank
  <2> QED BY <1>20, <1>d, <2>1 DEF LinkFails
<1> QED
  BY <1>1, <1>2, <1>3, <1>4, <1>5, <1>6, <1>7, <1>8, <1>9, <1>10, <1>11, <1>12, <1>13,
     <1>14, <1>15, <1>16, <1>17, <1>18, <1>19, <1>20
     DEF Next, Caller, Failure

\* A build never takes more steps than it had left in the beginning, whatever
\* fails and however its goroutines are scheduled: the safety half of BuildEnds.
THEOREM BuildsAreBounded == Spec => BuildIsBounded
<1>1. TypeOK /\ TypeOK' /\ Progress /\ Feeding /\ [Next]_vars => [Remaining' < Remaining]_vars
  BY StepFalls
<1>2. Spec => []Progress /\ []Feeding
  BY InductiveHolds, PTL DEF Inductive
<1> QED BY <1>1, <1>2, TypeCorrect, PTL DEF Spec, BuildIsBounded
-----------------------------------------------------------------------------
\* What main() may conclude from how a build ended, inherited from
\* BuildSession: the image is there if it ended well, and none is or will be if
\* it failed before bootstrap-vz was started.
THEOREM EndsAreHonest == Spec => []Build!Honest
<1>1. Build!Init => Build!Honest
  BY DEF Build!Init, Build!Honest
<1>2. Build!Honest /\ [Build!Next]_(Build!vars) => Build!Honest'
  BY DEF Build!Honest, Build!Next, Build!vars, Build!Begin, Build!Register, Build!Finish,
         Build!GiveUp
<1> QED BY <1>1, <1>2, ImplementsSession, PTL DEF SessionSpec, Build!Spec
=============================================================================
