----------------------------- MODULE LiveDeploy -----------------------------
(***************************************************************************)
(* tools/fw2_deploy_live_fix.py with tools/serial_put.py: the maintainer's *)
(* deployment of the runtime modules to a running CM0, one shell command   *)
(* after the other over a routed serial line.  A command that is refused   *)
(* or whose marker does not come back raises; in the second case it may    *)
(* have been executed.  The line may go down altogether, the CM0 may lose  *)
(* power.  A file's content is the number of the deployment it came with,  *)
(* 0 for what was there before the first.                                  *)
(***************************************************************************)
EXTENDS Naturals

CONSTANTS Last,        \* MODULES are 1 .. Last, in the order of the tuple
          Attempts,    \* attempts of shell_readonly
          Modes,       \* what is run, of "deploy", "stage_only", "verify_only"
          MaxRuns,     \* bound: deployments
          MaxFaults,   \* bound: commands that fail or are not answered
          MaxOutages   \* bound: lost lines and power cycles

ASSUME DeployAssumption ==
    /\ Last \in Nat \ {0} /\ Attempts \in Nat \ {0}
    /\ {MaxRuns, MaxFaults, MaxOutages} \subseteq Nat
    /\ Modes \subseteq {"deploy", "stage_only", "verify_only"}

Modules == 1 .. Last
Service == Last + 1               \* the unit file
Files == Modules \cup {Service}
Absent == MaxRuns + 1             \* no such file
Partial == MaxRuns + 2            \* a file cut short

VARIABLES dest,      \* installed files
          prev,      \* their .waverider-prev, of whichever deployment
          staging,   \* the .b64 of a put_file
          candidate, \* the .new of a put_file
          running,   \* the service is started
          inhibit,   \* MAINTENANCE_INHIBIT exists
          link,      \* the serial line carries commands
          pc, at,    \* the script's step, and the file or attempt it is at
          mode,      \* of the run
          version,   \* the run's number: what it installs
          before,    \* history: dest when the run began
          outcome,   \* history: how the last run ended
          clean,     \* history: the line failed no rollback command, no outage
          faults, outages

device == <<dest, prev, staging, candidate, running, inhibit>>
script == <<pc, at, mode, version, before>>
vars == <<device, link, script, outcome, clean, faults, outages>>

-----------------------------------------------------------------------------
(* command: write a line, wait for the marker with the exit status *)

Go(step, index) == pc' = step /\ at' = index

Acked == link /\ UNCHANGED <<faults, link, outages>>

\* Refused or not executed; with the line down every command fails.
NotDone ==
    /\ \/ ~link /\ UNCHANGED faults
       \/ link /\ faults < MaxFaults /\ faults' = faults + 1
    /\ UNCHANGED <<device, link, outages>>

\* Executed, but the marker is lost: TimeoutError.
Unanswered == link /\ faults < MaxFaults /\ faults' = faults + 1
              /\ UNCHANGED <<link, outages>>

\* An exception leads to the rollback, to "finally" (from the outer try), or,
\* from before that, out of the script.
Raises(handler) ==
    /\ Go(handler, 1)
    /\ outcome' = IF handler = "rollback" THEN "rolling back" ELSE "failed"
    /\ UNCHANGED <<mode, version, before, clean>>

\* A command with an effect: acknowledged the script goes on, else it raises.
Command(effect, step, index, handler) ==
    \/ /\ Acked /\ effect
       /\ Go(step, index)
       /\ UNCHANGED <<mode, version, before, outcome, clean>>
    \/ Unanswered /\ effect /\ Raises(handler)
    \/ NotDone /\ Raises(handler)

\* A rollback command: "except Exception: pass".
Quietly(effect, step, index) ==
    /\ \/ Acked /\ effect /\ clean' = clean
       \/ Unanswered /\ effect /\ clean' = FALSE
       \/ NotDone /\ clean' = FALSE
    /\ Go(step, index)
    /\ UNCHANGED <<mode, version, before, outcome>>

Nothing == UNCHANGED device
Copy(to, from) == to' = [to EXCEPT ![at] = from[at]]

-----------------------------------------------------------------------------
(* main, to the end of the installation *)

\* open_shell and stty -echo; the maintainer tries again with a sound line,
\* and later than the two seconds after which the last run's inhibit goes.
Begin ==
    /\ pc = "idle" /\ version < MaxRuns
    /\ mode' \in Modes
    /\ version' = version + 1
    /\ link' = TRUE
    /\ before' = dest
    /\ clean' = TRUE
    /\ outcome' = "begun"
    /\ Go("inhibit", 1)
    /\ UNCHANGED <<device, faults, outages>>

Inhibit ==
    /\ pc = "inhibit"
    /\ Command(inhibit' = TRUE /\ UNCHANGED <<dest, prev, staging, candidate, running>>,
               IF mode = "verify_only" THEN "check" ELSE "stop", 1, "idle")

\* Mutant: a failing stop is passed over.
StopQuietly ==
    /\ pc = "stop"
    /\ Quietly(running' = FALSE /\ UNCHANGED <<dest, prev, staging, candidate, inhibit>>,
               "backup", 1)

Stop ==
    /\ pc = "stop"
    /\ Command(running' = FALSE /\ UNCHANGED <<dest, prev, staging, candidate, inhibit>>,
               "backup", 1, "finally")

\* cp -f of the file, or rm -f of an old backup when there is no file; the
\* unit file is copied plainly, which fails when there is none.
Backup ==
    /\ pc = "backup"
    /\ IF at = Service /\ dest[at] = Absent
       THEN Nothing /\ UNCHANGED <<link, faults, outages>> /\ Raises("rollback")
       ELSE Command(Copy(prev, dest) /\ UNCHANGED <<dest, staging, candidate, running, inhibit>>,
                    IF at < Service THEN "backup" ELSE "send",
                    IF at < Service THEN at + 1 ELSE 1, "rollback")

\* put_file: rm of .b64 and .new, then the chunks.  A chunk that is dropped
\* on the way leaves the staging file short although its command succeeds.
Send ==
    /\ pc = "send"
    /\ \E content \in {version, Partial} :
         Command(/\ staging' = [staging EXCEPT ![at] = content]
                 /\ candidate' = [candidate EXCEPT ![at] = Absent]
                 /\ UNCHANGED <<dest, prev, running, inhibit>>,
                 "decode", at, "rollback")

\* Mutant: the digest is not compared.
DecodeUnchecked ==
    /\ pc = "decode"
    /\ Command(/\ Copy(candidate, staging)
               /\ staging' = [staging EXCEPT ![at] = Absent]
               /\ UNCHANGED <<dest, prev, running, inhibit>>,
               "move", at, "rollback")

\* base64 -d, rm of .b64, sha256sum: another digest raises.
Decode ==
    /\ pc = "decode"
    /\ LET decoded == /\ Copy(candidate, staging)
                      /\ staging' = [staging EXCEPT ![at] = Absent]
                      /\ UNCHANGED <<dest, prev, running, inhibit>>
       IN IF staging[at] = version
          THEN Command(decoded, "move", at, "rollback")
          ELSE /\ \/ (Acked \/ Unanswered) /\ decoded
                  \/ NotDone
               /\ Raises("rollback")

\* mv -f; the unit file by way of /tmp and install, then daemon-reload.
Move ==
    /\ pc = "move"
    /\ Command(/\ Copy(dest, candidate)
               /\ candidate' = [candidate EXCEPT ![at] = Absent]
               /\ UNCHANGED <<prev, staging, running, inhibit>>,
               IF at < Service THEN "send" ELSE "compile",
               IF at < Service THEN at + 1 ELSE 1, "rollback")

\* compileall writes no module.
Compile ==
    /\ pc = "compile"
    /\ Command(Nothing, IF mode = "stage_only" THEN "staged" ELSE "start", 1,
               "rollback")

-----------------------------------------------------------------------------
(* The rollback *)

\* Mutant: the unit file is not restored.
RollbackModules ==
    /\ pc = "rollback"
    /\ Quietly(Copy(dest, prev) /\ UNCHANGED <<prev, staging, candidate, running, inhibit>>,
               IF at < Last THEN "rollback" ELSE "restart",
               IF at < Last THEN at + 1 ELSE 1)

\* Each module from its backup, or removed when there is none; the unit file.
Rollback ==
    /\ pc = "rollback"
    /\ IF at = Service /\ prev[at] = Absent
       THEN /\ Nothing /\ Go("restart", 1)
            /\ UNCHANGED <<link, faults, outages, mode, version, before, outcome, clean>>
       ELSE Quietly(Copy(dest, prev) /\ UNCHANGED <<prev, staging, candidate, running, inhibit>>,
                    IF at < Service THEN "rollback" ELSE "restart",
                    IF at < Service THEN at + 1 ELSE 1)

Started == running' = TRUE
           /\ UNCHANGED <<dest, prev, staging, candidate, inhibit>>

\* The end of the rollback: the original exception goes on to "finally".
Restart ==
    /\ pc = "restart"
    /\ \/ Acked /\ Started /\ clean' = clean
       \/ Unanswered /\ Started /\ clean' = FALSE
       \/ NotDone /\ clean' = FALSE
    /\ outcome' = "rolled back"
    /\ Go("finally", 1)
    /\ UNCHANGED <<mode, version, before>>

-----------------------------------------------------------------------------
(* Start, validation and the end of the session *)

\* stage_only returns here, through "finally", with the service stopped.
Staged ==
    /\ pc = "staged"
    /\ outcome' = "staged"
    /\ Go("finally", 1)
    /\ UNCHANGED <<device, link, mode, version, before, clean, faults, outages>>

Start ==
    /\ pc = "start"
    /\ Command(Started, "check", 1, "finally")

\* is-active, the status in slices, the journal: queries that change nothing,
\* each tried again when its answer is lost but not when it is refused.
Check ==
    /\ pc = "check"
    /\ \/ Acked /\ Nothing /\ Go("finally", 1) /\ outcome' = "checked"
          /\ UNCHANGED <<mode, version, before, clean>>
       \/ NotDone /\ at < Attempts /\ Go("check", at + 1)
          /\ UNCHANGED <<mode, version, before, clean, outcome>>
       \/ NotDone /\ Raises("finally")

\* stty echo, the delayed rm of the inhibit, exit; failures are passed over.
Finally ==
    /\ pc = "finally"
    /\ \/ Acked /\ inhibit' = FALSE
       \/ Unanswered /\ inhibit' = FALSE
       \/ NotDone /\ inhibit' = inhibit
    /\ UNCHANGED <<dest, prev, staging, candidate, running>>
    /\ Go(IF outcome = "checked" THEN "judge" ELSE "idle", 1)
    /\ UNCHANGED <<mode, version, before, outcome, clean>>

\* require_live_runtime and the journal: what was read may not be live.
Judge ==
    /\ pc = "judge"
    /\ outcome' \in {"live", "not live"}
    /\ Go("idle", 1)
    /\ UNCHANGED <<device, link, mode, version, before, clean, faults, outages>>

-----------------------------------------------------------------------------
(* The line and the power *)

LineLost ==
    /\ link /\ pc # "idle" /\ outages < MaxOutages
    /\ link' = FALSE
    /\ clean' = FALSE
    /\ outages' = outages + 1
    /\ UNCHANGED <<device, script, outcome, faults>>

\* /run is empty after a boot, the service is enabled, the shell is gone.
PowerCycle ==
    /\ outages < MaxOutages
    /\ running' = TRUE /\ inhibit' = FALSE
    /\ link' = FALSE
    /\ clean' = FALSE
    /\ outages' = outages + 1
    /\ UNCHANGED <<dest, prev, staging, candidate, script, outcome, faults>>

Init ==
    /\ dest = [f \in Files |-> 0]
    /\ prev = [f \in Files |-> Absent]
    /\ staging = [f \in Files |-> Absent] /\ candidate = staging
    /\ running = TRUE /\ inhibit = FALSE
    /\ link = TRUE
    /\ pc = "idle" /\ at = 1 /\ mode \in Modes /\ version = 0
    /\ before = dest /\ outcome = "none" /\ clean = TRUE
    /\ faults = 0 /\ outages = 0

Next ==
    \/ Begin \/ Inhibit \/ Stop \/ Backup \/ Send \/ Decode \/ Move \/ Compile
    \/ Rollback \/ Restart \/ Staged \/ Start \/ Check \/ Finally \/ Judge
    \/ LineLost \/ PowerCycle

Spec == Init /\ [][Next]_vars

-----------------------------------------------------------------------------
(* Properties *)

\* No installed module is ever cut short, whatever chunk, acknowledgement or
\* line was lost (serial_put.py put_file).
NeverHalfWritten == \A f \in Files : dest[f] # Partial

\* A deployment that ends by itself leaves one set of files: the new one,
\* started unless it was only staged; or the old one, started, after a rollback
\* from complete backups whose commands all succeeded.  (Of incomplete backups
\* it says nothing: see RestoresTheOld.)
OneVersion ==
    pc = "idle" =>
    /\ outcome \in {"live", "not live"} /\ mode = "deploy" =>
          running /\ \A f \in Files : dest[f] = version
    /\ outcome = "staged" => \A f \in Files : dest[f] = version
    /\ outcome = "rolled back" /\ clean /\ prev = before => dest = before /\ running

\* Files change only while the service is stopped: it never starts on a
\* mixture while the tool works (main stops it first, and raises otherwise).
ChangesWhileStopped == [][dest' # dest => ~running]_vars

\* docs/DEPLOYMENT.md: "It restores the backups and restarts the old service if
\* installation fails", with every rollback command acknowledged.
RestoresTheOld ==
    pc = "idle" /\ outcome = "rolled back" /\ clean => dest = before

=============================================================================
