----------------------------- MODULE RemoteExec -----------------------------
(***************************************************************************)
(* The part of an imagebuilder run that works on the machine:              *)
(* RunSetupCommands and BuildImage of Builder, over the SSHExecutor or the *)
(* LocalhostExecutor that DialSSH returned.                                *)
(*                                                                         *)
(* Over SSH each Run, Put and Mkdir has a session, which runs one command. *)
(* Put and Mkdir feed the command, scp, from a goroutine of their own: it  *)
(* asks the session for a pipe, while the caller starts the command.  If it *)
(* asks too late the command has got an empty input instead, and the        *)
(* goroutine has no pipe to close, which ends the whole program.           *)
(*                                                                         *)
(* One build is modelled: directories and scripts have random names, so    *)
(* that builds on one machine do not meet.                                 *)
(***************************************************************************)
EXTENDS Naturals

CONSTANTS
    Executors,      \* the executors there are: "ssh", "local"
    SetupCommands,  \* how many setup commands are configured
    MaxFaults       \* bound: what goes wrong in a behaviour

ASSUME ExecutorAssumption == Executors \subseteq {"ssh", "local"}
ASSUME CountAssumption == SetupCommands \in Nat /\ MaxFaults \in Nat

Dirs    == {"tmpdir", "logs"}       \* made by Mkdir
Files   == {"template", "script"}   \* written by Put
Uploads == Dirs \cup Files
Paths   == Uploads \cup {"clone"}
Tmp     == Paths \ {"script"}       \* tmpdir and what is in it

\* Where BuildImage goes from a place, after a call without an error ...
OnSuccess ==
    [setup |-> "setup", tmpdir |-> "logs", logs |-> "clone",
     clone |-> "template", template |-> "session", session |-> "script",
     script |-> "run", run |-> "unscript", unscript |-> "untmp",
     untmp |-> "end"]

\* Mutant of OnError: removing the directory is not deferred.
OnErrorAtOnce ==
    [setup |-> "end", tmpdir |-> "end", logs |-> "end", clone |-> "end",
     template |-> "end", session |-> "end", script |-> "end",
     run |-> "unscript", unscript |-> "untmp", untmp |-> "end"]

\* ... and after one with an error: to what was deferred until then.
OnError ==
    [setup |-> "end", tmpdir |-> "end", logs |-> "untmp", clone |-> "untmp",
     template |-> "untmp", session |-> "untmp", script |-> "untmp",
     run |-> "unscript", unscript |-> "untmp", untmp |-> "end"]

Deferred == {"unscript", "untmp"}

\* Where a command is run that needs nothing but a session.
Commands == {"setup", "clone", "unscript", "untmp"}

VARIABLES
    executor,  \* what DialSSH returned
    link,      \* the connection: "up", "lost", or "silent"
    \* The program:
    process,   \* "building", "ok" after BuildImage, "failed", "panic", "killed"
    pc,        \* where it is
    phase,     \* and how far in a call
    err,       \* is there an error to return?
    setup,     \* setup commands run
    feeder,    \* the goroutine of an upload
    session,   \* the session of an upload
    \* The machine:
    disk,      \* path -> what is there
    bvz,       \* bootstrap-vz: "no", "running", "done", "failed"
    image,     \* has it registered the image?
    \* The bound, and a history read by properties only:
    faults,
    lapse      \* has a call failed that makes or removes tmpdir?

main    == <<process, pc, phase, err, setup>>
machine == <<disk, bvz, image>>
vars    == <<executor, link, main, feeder, session, machine, faults, lapse>>

\* A session: `started' and `piped' are the flags of the client, `copier' says
\* that the client feeds an empty input, `eof' that the input was closed, `got'
\* is what scp has received.  `failed' is stdinErr.
Session == [started : BOOLEAN, piped : BOOLEAN, copier : BOOLEAN,
            eof : BOOLEAN, got : {"none", "part", "whole"}, failed : BOOLEAN]

NewSession == [started |-> FALSE, piped |-> FALSE, copier |-> FALSE,
               eof |-> FALSE, got |-> "none", failed |-> FALSE]
-----------------------------------------------------------------------------
Init ==
    /\ executor \in Executors
    /\ link = "up"
    /\ process = "building" /\ pc = "setup" /\ phase = "open"
    /\ err = FALSE /\ setup = 0
    /\ feeder = [u \in Uploads |-> "none"]
    /\ session = [u \in Uploads |-> NewSession]
    /\ disk = [p \in Paths |-> "none"]
    /\ bvz = "no" /\ image = FALSE
    /\ faults = MaxFaults /\ lapse = FALSE

At(place, ph) == process = "building" /\ pc = place /\ phase = ph

\* Does the machine answer?
Remote == executor = "local" \/ link = "up"

Fault == faults > 0 /\ faults' = faults - 1

\* The call at pc returns, with an error or without.  What a deferred call
\* returns is not looked at.
Return(e) ==
    /\ pc' = (IF e THEN OnError ELSE OnSuccess)[pc]
    /\ err' = (err \/ (e /\ pc \notin Deferred))
    /\ phase' = "open"
    /\ UNCHANGED process

Continue(ph) == phase' = ph /\ UNCHANGED <<process, pc, err>>
-----------------------------------------------------------------------------
(* Commands *)

\* What a command leaves behind on the machine.
Effect(c) ==
    CASE c = "clone"    -> [disk EXCEPT !["tmpdir"] = "whole", !["clone"] = "whole"]
      [] c = "unscript" -> [disk EXCEPT !["script"] = "none"]
      [] c = "untmp"    -> [p \in Paths |-> IF p \in Tmp THEN "none" ELSE disk[p]]
      [] OTHER          -> disk

\* The session that has run the script is asked to run rm as well.
Refused(c) == c = "unscript" /\ executor = "ssh"

\* Mutant of Execute: the loop over the setup commands runs once too often.
ExecuteOneMore(c) ==
    /\ At(c, "open") /\ Remote /\ ~Refused(c)
    /\ setup' = IF c = "setup" THEN setup + 1 ELSE setup
    /\ disk' = Effect(c)
    /\ Return(FALSE)
    /\ UNCHANGED <<executor, link, feeder, session, bvz, image, faults, lapse>>

\* Exec: a command that ends well.
Execute(c) ==
    /\ At(c, "open") /\ Remote /\ ~Refused(c)
    /\ c = "setup" => setup < SetupCommands
    /\ setup' = IF c = "setup" THEN setup + 1 ELSE setup
    /\ disk' = Effect(c)
    /\ Return(FALSE)
    /\ UNCHANGED <<executor, link, feeder, session, bvz, image, faults, lapse>>

\* One that does not, and may have done part of its work.
CommandFails(c) ==
    /\ At(c, "open") /\ Remote /\ ~Refused(c)
    /\ c = "setup" => setup < SetupCommands
    /\ Fault
    /\ disk' \in
         CASE c = "clone" -> {disk, [disk EXCEPT !["tmpdir"] = "whole", !["clone"] = "part"]}
           [] c = "untmp" -> {disk, [disk EXCEPT !["template"] = "none"]}
           [] OTHER       -> {disk}
    /\ lapse' = (lapse \/ c = "untmp")
    /\ Return(TRUE)
    /\ UNCHANGED <<executor, link, setup, feeder, session, bvz, image>>

CommandRefused ==
    /\ At("unscript", "open") /\ Refused("unscript")
    /\ Return(TRUE)
    /\ UNCHANGED <<executor, link, setup, feeder, session, machine, faults,
                   lapse>>

SetupDone ==
    /\ At("setup", "open") /\ setup = SetupCommands
    /\ pc' = "tmpdir"
    /\ UNCHANGED <<executor, link, process, phase, err, setup, feeder, session,
                   machine, faults, lapse>>
-----------------------------------------------------------------------------
(* Put and Mkdir over SSH: the caller *)

\* NewSession, and the goroutine is started.
OpenSession(u) ==
    /\ At(u, "open") /\ executor = "ssh" /\ Remote
    /\ feeder' = [feeder EXCEPT ![u] = "ready"]
    /\ Continue("exec")
    /\ UNCHANGED <<executor, link, setup, session, machine, faults, lapse>>

\* CombinedOutput asks the machine to run scp, and notes that it does.
Start(u) ==
    /\ At(u, "exec") /\ executor = "ssh" /\ Remote
    /\ session' = [session EXCEPT ![u].started = TRUE]
    /\ Continue("stdin")
    /\ UNCHANGED <<executor, link, setup, feeder, machine, faults, lapse>>

\* Unless somebody has asked for a pipe, the client closes the input at once.
SetStdin(u) ==
    /\ At(u, "stdin")
    /\ session' = [session EXCEPT ![u].copier = ~session[u].piped]
    /\ Continue("wait")
    /\ UNCHANGED <<executor, link, setup, feeder, machine, faults, lapse>>

CloseEmpty(u) ==
    /\ session[u].copier /\ ~session[u].eof
    /\ process \in {"building", "ok"}
    /\ session' = [session EXCEPT ![u].eof = TRUE]
    /\ UNCHANGED <<executor, link, main, feeder, machine, faults, lapse>>

\* What scp makes of its input: nothing at all is no error to it, half a file
\* is.  A directory that is to hold another and is not there gets its place.
Written(u) ==
    LET place == IF u = "logs" /\ disk["tmpdir"] = "none" THEN "tmpdir" ELSE u
    IN  IF session[u].got = "none" THEN disk
        ELSE [disk EXCEPT ![place] = session[u].got]

ScpEnds(u) ==
    /\ At(u, "wait") /\ executor = "ssh" /\ Remote /\ session[u].eof
    /\ disk' = Written(u)
    /\ IF session[u].got = "part" THEN Return(TRUE) ELSE Continue("check")
    /\ UNCHANGED <<executor, link, setup, feeder, session, bvz, image, faults,
                   lapse>>

\* Mutant of ScpFails: the exit status of scp is not looked at.
ScpFailsUnseen(u) ==
    /\ At(u, "wait") /\ executor = "ssh" /\ Remote
    /\ Fault
    /\ disk' \in {disk, Written(u)}
    /\ lapse' = (lapse \/ u = "tmpdir")
    /\ Continue("check")
    /\ UNCHANGED <<executor, link, setup, feeder, session, bvz, image>>

\* scp may be unable to write.
ScpFails(u) ==
    /\ At(u, "wait") /\ executor = "ssh" /\ Remote
    /\ Fault
    /\ disk' \in {disk, Written(u)}
    /\ lapse' = (lapse \/ u = "tmpdir")
    /\ Return(TRUE)
    /\ UNCHANGED <<executor, link, setup, feeder, session, bvz, image>>

CheckStdinErr(u) ==
    /\ At(u, "check")
    /\ Return(session[u].failed)
    /\ UNCHANGED <<executor, link, setup, feeder, session, machine, faults,
                   lapse>>
-----------------------------------------------------------------------------
(* Put and Mkdir over SSH: the goroutine *)

Feeds(u, place) == feeder[u] = place /\ process \in {"building", "ok"}

\* StdinPipe looks whether the command has been started ...
AskForPipe(u) ==
    /\ Feeds(u, "ready") /\ ~session[u].started
    /\ feeder' = [feeder EXCEPT ![u] = "pipe"]
    /\ UNCHANGED <<executor, link, main, session, machine, faults, lapse>>

\* ... in which case there is no pipe, and w.Close has nothing to close.
Panic(u) ==
    /\ Feeds(u, "ready") /\ session[u].started
    /\ process' = "panic"
    /\ UNCHANGED <<executor, link, pc, phase, err, setup, feeder, session,
                   machine, faults, lapse>>

GetPipe(u) ==
    /\ Feeds(u, "pipe")
    /\ session' = [session EXCEPT ![u].piped = TRUE]
    /\ feeder' = [feeder EXCEPT ![u] = "write"]
    /\ UNCHANGED <<executor, link, main, machine, faults, lapse>>

\* The line that announces a directory or a file, and then the file.
Write(u) ==
    /\ Feeds(u, "write") /\ ~session[u].eof /\ link # "lost"
    /\ LET got == IF u \in Files /\ session[u].got = "none" THEN "part" ELSE "whole"
       IN  /\ session' = [session EXCEPT ![u].got = got]
           /\ feeder' = [feeder EXCEPT ![u] =
                            IF got = "whole" THEN "close" ELSE "write"]
    /\ UNCHANGED <<executor, link, main, machine, faults, lapse>>

WriteFails(u) ==
    /\ Feeds(u, "write") /\ (session[u].eof \/ link = "lost")
    /\ session' = [session EXCEPT ![u].failed = TRUE]
    /\ feeder' = [feeder EXCEPT ![u] = "close"]
    /\ UNCHANGED <<executor, link, main, machine, faults, lapse>>

\* Mutant of Close: the pipe is left open.
CloseNot(u) ==
    /\ Feeds(u, "close")
    /\ feeder' = [feeder EXCEPT ![u] = "done"]
    /\ UNCHANGED <<executor, link, main, session, machine, faults, lapse>>

Close(u) ==
    /\ Feeds(u, "close")
    /\ session' = [session EXCEPT ![u].eof = TRUE]
    /\ feeder' = [feeder EXCEPT ![u] = "done"]
    /\ UNCHANGED <<executor, link, main, machine, faults, lapse>>
-----------------------------------------------------------------------------
(* Put and Mkdir on the machine itself *)

MkdirHere(u) ==
    /\ u \in Dirs /\ At(u, "open") /\ executor = "local"
    /\ disk' = [disk EXCEPT ![u] = "whole"]
    /\ Return(FALSE)
    /\ UNCHANGED <<executor, link, setup, feeder, session, bvz, image, faults,
                   lapse>>

\* The file is opened, which empties it, and then written.
OpenFile(u) ==
    /\ u \in Files /\ At(u, "open") /\ executor = "local"
    /\ disk' = [disk EXCEPT ![u] = "part"]
    /\ Continue("copy")
    /\ UNCHANGED <<executor, link, setup, feeder, session, bvz, image, faults,
                   lapse>>

WriteFile(u) ==
    /\ At(u, "copy")
    /\ disk' = [disk EXCEPT ![u] = "whole"]
    /\ Return(FALSE)
    /\ UNCHANGED <<executor, link, setup, feeder, session, bvz, image, faults,
                   lapse>>

\* Nothing is made; or the file is written in part, or cannot be closed.
HereFails(u) ==
    /\ At(u, "open") \/ At(u, "copy")
    /\ executor = "local"
    /\ Fault
    /\ disk' \in {disk} \cup (IF phase = "copy" THEN {[disk EXCEPT ![u] = "whole"]} ELSE {})
    /\ Return(TRUE)
    /\ UNCHANGED <<executor, link, setup, feeder, session, bvz, image, lapse>>
-----------------------------------------------------------------------------
(* Run: bootstrap-vz, by way of a script *)

\* Over SSH, Run opens the session of the command before runCommand writes
\* the script.
OpenRun ==
    /\ At("session", "open") /\ Remote
    /\ Return(FALSE)
    /\ UNCHANGED <<executor, link, setup, feeder, session, machine, faults,
                   lapse>>

StartRun ==
    /\ At("run", "open") /\ Remote
    /\ IF disk["script"] = "whole"
       THEN bvz' = "running" /\ Continue("wait")
       ELSE Return(TRUE) /\ UNCHANGED bvz
    /\ UNCHANGED <<executor, link, setup, feeder, session, disk, image, faults,
                   lapse>>

\* bootstrap-vz needs its own code and the template to register an image.
Provided == disk["clone"] = "whole" /\ disk["template"] = "whole"

BvzEnds ==
    /\ bvz = "running"
    /\ bvz' = IF Provided THEN "done" ELSE "failed"
    /\ image' = Provided
    /\ UNCHANGED <<executor, link, main, feeder, session, disk, faults, lapse>>

\* It may fail before it has registered the image, or after.
BvzFails ==
    /\ bvz = "running"
    /\ Fault
    /\ bvz' = "failed"
    /\ image' \in {FALSE, Provided}
    /\ UNCHANGED <<executor, link, main, feeder, session, disk, lapse>>

\* Mutant of EndRun: the command is started and not waited for.
EndRunAtOnce ==
    /\ At("run", "wait") /\ Remote
    /\ Return(bvz = "failed")
    /\ UNCHANGED <<executor, link, setup, feeder, session, machine, faults,
                   lapse>>

\* Mutant of EndRun: the exit status of bootstrap-vz is not looked at.
EndRunUnseen ==
    /\ At("run", "wait") /\ Remote /\ bvz # "running"
    /\ Return(FALSE)
    /\ UNCHANGED <<executor, link, setup, feeder, session, machine, faults,
                   lapse>>

EndRun ==
    /\ At("run", "wait") /\ Remote /\ bvz # "running"
    /\ Return(bvz = "failed")
    /\ UNCHANGED <<executor, link, setup, feeder, session, machine, faults,
                   lapse>>
-----------------------------------------------------------------------------
(* The end of BuildImage, and of the program *)

\* Mutant of End: BuildImage forgets what it is to return.
EndWell ==
    /\ At("end", "open")
    /\ process' = "ok"
    /\ UNCHANGED <<executor, link, pc, phase, err, setup, feeder, session,
                   machine, faults, lapse>>

\* main() goes on, or gives up, which ends the program.
End ==
    /\ At("end", "open")
    /\ process' = IF err THEN "failed" ELSE "ok"
    /\ UNCHANGED <<executor, link, pc, phase, err, setup, feeder, session,
                   machine, faults, lapse>>

Kill ==
    /\ process \in {"building", "ok"}
    /\ Fault
    /\ process' = "killed"
    /\ UNCHANGED <<executor, link, pc, phase, err, setup, feeder, session,
                   machine, lapse>>

\* The connection is reset, or nothing comes over it any more.  A command that
\* was asked for may have been carried out, and scp have written what it got.
LinkFails ==
    /\ executor = "ssh" /\ link = "up"
    /\ Fault
    /\ link' \in {"lost", "silent"}
    /\ disk' \in {disk} \cup {Effect(c) : c \in {d \in Commands : At(d, "open") /\ ~Refused(d)}}
                     \cup {Written(u) : u \in {v \in Uploads : At(v, "wait")}}
    /\ lapse' = TRUE
    /\ UNCHANGED <<executor, main, feeder, session, bvz, image>>

\* Calls waiting for the machine return an error once the connection is reset.
CallFails ==
    /\ process = "building" /\ executor = "ssh" /\ link = "lost"
    /\ pc \notin {"end", "unscript"} /\ phase \in {"open", "exec", "wait"}
    /\ pc = "setup" => setup < SetupCommands
    /\ Return(TRUE)
    /\ UNCHANGED <<executor, link, setup, feeder, session, machine, faults,
                   lapse>>
-----------------------------------------------------------------------------
Caller ==
    \/ \E c \in Commands : Execute(c)
    \/ CommandRefused \/ SetupDone
    \/ \E u \in Uploads :
         \/ OpenSession(u) \/ Start(u) \/ SetStdin(u) \/ ScpEnds(u)
         \/ CheckStdinErr(u) \/ MkdirHere(u) \/ OpenFile(u) \/ WriteFile(u)
    \/ OpenRun \/ StartRun \/ EndRun \/ End \/ CallFails

Goroutine(u) ==
    \/ AskForPipe(u) \/ Panic(u) \/ GetPipe(u) \/ Write(u) \/ WriteFails(u)
    \/ Close(u) \/ CloseEmpty(u)

Failure ==
    \/ \E c \in Commands : CommandFails(c)
    \/ \E u \in Uploads : ScpFails(u) \/ HereFails(u)
    \/ BvzFails \/ Kill \/ LinkFails

Next == Caller \/ (\E u \in Uploads : Goroutine(u)) \/ BvzEnds \/ Failure

\* The program and its goroutines are scheduled, a machine that can be reached
\* answers, and bootstrap-vz comes to an end.
Fairness ==
    /\ WF_vars(Caller) /\ WF_vars(BvzEnds)
    /\ \A u \in Uploads : WF_vars(Goroutine(u))

Spec == Init /\ [][Next]_vars /\ Fairness
-----------------------------------------------------------------------------
TypeOK ==
    /\ executor \in {"ssh", "local"} /\ link \in {"up", "lost", "silent"}
    /\ process \in {"building", "ok", "failed", "panic", "killed"}
    /\ pc \in DOMAIN OnSuccess \cup {"end"}
    /\ phase \in {"open", "exec", "stdin", "wait", "check", "copy"}
    /\ err \in BOOLEAN /\ setup \in 0 .. SetupCommands
    /\ feeder \in [Uploads -> {"none", "ready", "pipe", "write", "close", "done"}]
    /\ session \in [Uploads -> Session]
    /\ disk \in [Paths -> {"none", "part", "whole"}]
    /\ bvz \in {"no", "running", "done", "failed"} /\ image \in BOOLEAN
    /\ faults \in 0 .. MaxFaults /\ lapse \in BOOLEAN

\* Where the caller goes on in the belief that an upload has been made.
After ==
    [tmpdir |-> {"logs", "clone", "template", "session", "script", "run"},
     logs   |-> {"clone", "template", "session", "script", "run"},
     template |-> {"session", "script", "run"},
     script |-> {"run"}]

\* The only way for Put or Mkdir to report something as written that is not
\* there is a goroutine that was overtaken: one that came to ask for its pipe
\* after the session had settled what the input is.  Nor does anything else
\* make a build return an error in which no call fails.
OvertakenOnly ==
    (\A u \in Uploads : ~session[u].copier) =>
        /\ \A u \in Uploads : pc \in After[u] => disk[u] = "whole"
        /\ faults = MaxFaults => process # "failed"

\* Nothing on the machine is taken away from, or changed under, a bootstrap-vz
\* that runs, be it one that outlives its connection or its program.
LeftInPeace == [][bvz = "running" => UNCHANGED disk]_vars

\* Whatever Put and Mkdir have claimed: BuildImage returns without an error only
\* if every setup command was run and bootstrap-vz has registered an image.
SuccessMeansBuilt ==
    process = "ok" => setup = SetupCommands /\ bvz = "done" /\ image

\* builder.go:39: the directory of the build goes when BuildImage returns, with
\* an error or without, unless the connection fails, or a call that makes or
\* removes it.  Of the script that is true on the machine itself, if nothing
\* fails.
CleansUp ==
    process \in {"ok", "failed"} =>
        /\ ~lapse => \A p \in Tmp : disk[p] = "none"
        /\ executor = "local" /\ faults = MaxFaults => disk["script"] = "none"

\* A build comes to an end, however its goroutines are scheduled, unless the
\* machine falls silent: no call has a timeout.
BuildEnds == process = "building" ~> process # "building" \/ link = "silent"

\* The parts of Inductive.  What is known where the caller is:
Final == {"unscript", "untmp", "end"}

Progress ==
    /\ pc # "setup" /\ ~err => setup = SetupCommands
    /\ pc \in Final /\ ~err => bvz = "done"
    /\ process \in {"ok", "failed"} => pc = "end"
    /\ process = "ok" => ~err
    /\ bvz = "done" => image
    /\ image => bvz \in {"done", "failed"}
    /\ bvz # "no" => pc \in {"run"} \cup Final
    /\ pc = "run" => (bvz # "no") = (phase = "wait")
    /\ bvz = "running" /\ pc # "run" => executor = "ssh" /\ link = "lost"

\* How far a session and its goroutine are.
Begun(u) == pc \in After[u] \cup Final \/ (pc = u /\ phase # "open")

Feeding ==
    \A u \in Uploads :
        /\ feeder[u] # "none" \/ session[u] # NewSession => Begun(u)
        /\ pc = u /\ phase \in {"exec", "stdin"} => ~session[u].copier
        /\ feeder[u] \in {"none", "ready", "pipe"} => session[u].got = "none"
        /\ session[u].failed => feeder[u] \in {"close", "done"}
        /\ u \in Dirs =>
             /\ session[u].got # "part"
             /\ feeder[u] = "write" \/ session[u].failed => session[u].got = "none"
        /\ ~session[u].copier =>
             /\ session[u].eof => feeder[u] = "done"
             /\ feeder[u] \in {"close", "done"} =>
                    session[u].got = "whole" \/ link = "lost"

\* An upload that was not overtaken is there once scp has ended.
Claims ==
    (\A u \in Uploads : ~session[u].copier) =>
        \A u \in Uploads :
            pc \in After[u] \/ (pc = u /\ phase = "check") => disk[u] = "whole"

\* What is on the disk, unless something failed on the way.
Empty == \A p \in Tmp : disk[p] = "none"

Tidy ==
    /\ link # "up" => lapse
    /\ phase = "copy" => pc \in Files
    /\ ~lapse =>
         /\ pc \in {"setup", "end"} => Empty
         /\ pc = "tmpdir" =>
              \/ Empty
              \/ phase = "check" /\ session["tmpdir"].eof
                                /\ session["tmpdir"].got # "none"
    /\ executor = "local" /\ faults = MaxFaults =>
         \/ disk["script"] = "none"
         \/ pc \in {"run", "unscript"}
         \/ pc = "script" /\ phase = "copy"

Inductive == Progress /\ Feeding /\ Claims /\ Tidy

\* A build in which nothing has failed and no goroutine was overtaken.
Flawless ==
    faults = MaxFaults /\ (\A u \in Uploads : ~session[u].copier) =>
        /\ ~err /\ link = "up" /\ bvz # "failed" /\ process # "failed"
        /\ \A u \in Uploads : ~session[u].failed
        /\ pc \in {"template", "session", "script", "run"} => disk["clone"] = "whole"
-----------------------------------------------------------------------------
(* Why a build comes to its end (BuildEnds): every step uses up one of a    *)
(* number of steps that only the number of setup commands makes larger.     *)

PlaceRank ==
    [setup |-> 11, tmpdir |-> 10, logs |-> 9, clone |-> 8, template |-> 7,
     session |-> 6, script |-> 5, run |-> 4, unscript |-> 3, untmp |-> 2,
     end |-> 1]

PhaseRank ==
    [open |-> 5, exec |-> 4, stdin |-> 3, wait |-> 2, check |-> 1, copy |-> 1]

CallerRank == 6 * PlaceRank[pc] + PhaseRank[phase] + (SetupCommands - setup)

ProcessRank == CASE process = "building" -> 2 [] process = "ok" -> 1 [] OTHER -> 0

MachineRank ==
    (CASE bvz = "no" -> 2 [] bvz = "running" -> 1 [] OTHER -> 0)
    + (IF link = "up" THEN 1 ELSE 0)

UploadRank(u) ==
    (CASE feeder[u] = "none"  -> 6 [] feeder[u] = "ready" -> 5
       [] feeder[u] = "pipe"  -> 4
       [] feeder[u] = "write" -> IF session[u].got = "none" THEN 3 ELSE 2
       [] feeder[u] = "close" -> 1 [] OTHER -> 0)
    + (IF session[u].eof THEN 0 ELSE 1)

Remaining ==
    CallerRank + ProcessRank + MachineRank
    + UploadRank("tmpdir") + UploadRank("logs")
    + UploadRank("template") + UploadRank("script")

\* No step is ever repeated: whatever fails, and however the goroutines are
\* scheduled, a build takes at most the steps it had left before.
BuildIsBounded == [][Remaining' < Remaining]_vars

\* The build implements BuildSession.
Build == INSTANCE BuildSession WITH
    stage <- IF process = "building"
             THEN IF bvz = "no" THEN "setup" ELSE "build"
             ELSE IF process = "ok" THEN "built"
             ELSE IF bvz = "no" THEN "failed" ELSE "left"

SessionSpec == Build!Spec
=============================================================================
