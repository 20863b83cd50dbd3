-------------------------- MODULE LiveDeployProofs --------------------------
(***************************************************************************)
(* For every number of modules, deployments, faults and outages: no        *)
(* installed module is ever cut short, files change only while the service *)
(* is stopped, and a deployment that ends leaves one set of files.         *)
(***************************************************************************)
EXTENDS LiveDeploy, TLAPS

Content == 0 .. MaxRuns + 2
AtAFile == {"backup", "send", "decode", "move", "rollback"}
ServiceStopped == AtAFile \cup {"compile"}

TypeInv ==
    /\ dest \in [Files -> Content]
    /\ prev \in [Files -> Content]
    /\ staging \in [Files -> Content]
    /\ candidate \in [Files -> Content]
    /\ running \in BOOLEAN
    /\ link \in BOOLEAN
    /\ version \in 0 .. MaxRuns
    /\ pc \in AtAFile => at \in Files

\* What makes NeverHalfWritten inductive: backups are whole too, and a
\* candidate about to be moved has the digest of the source.
WholeInv ==
    /\ \A f \in Files : dest[f] # Partial /\ prev[f] # Partial
    /\ pc = "move" => candidate[at] = version

\* What makes ChangesWhileStopped inductive: between the acknowledged stop and
\* the start only a power cycle starts the service, and it ends the session.
StoppedInv == pc \in ServiceStopped /\ link => ~running

IInv == TypeInv /\ WholeInv /\ StoppedInv

-----------------------------------------------------------------------------

\* The invariant holds initially: no run has begun.
LEMMA InitInv == Init => IInv
BY DeployAssumption
   DEF Init, IInv, TypeInv, WholeInv, StoppedInv, Content, AtAFile,
       ServiceStopped, Files, Modules, Service, Absent, Partial

\* The steps that touch no file keep the invariant.
LEMMA QuietSteps ==
    ASSUME IInv, Begin \/ Inhibit \/ Compile \/ Restart \/ Staged
                 \/ Start \/ Check \/ Finally \/ Judge \/ LineLost \/ PowerCycle
    PROVE  IInv' /\ dest' = dest
<1> USE DeployAssumption
        DEF IInv, TypeInv, WholeInv, StoppedInv, Content, AtAFile, ServiceStopped,
            Files, Modules, Service, Absent, Partial, device, script, Go, Raises,
            Command, Acked, NotDone, Unanswered
<1>1. CASE Begin BY <1>1 DEF Begin
<1>2. CASE Inhibit BY <1>2 DEF Inhibit
<1>3. CASE Compile
  <2>1. /\ pc = "compile" /\ UNCHANGED <<device, link, version>>
        /\ pc' \in {"staged", "start", "rollback"} /\ at' = 1
        BY <1>3 DEF Compile, Nothing
  <2> QED BY <2>1
<1>4. CASE Restart BY <1>4 DEF Restart, Started
<1>5. CASE Staged BY <1>5 DEF Staged
<1>6. CASE Start BY <1>6 DEF Start, Started
<1>7. CASE Check BY <1>7 DEF Check, Nothing
<1>8. CASE Finally BY <1>8 DEF Finally
<1>9. CASE Judge BY <1>9 DEF Judge
<1>10. CASE LineLost BY <1>10 DEF LineLost
<1>11. CASE PowerCycle BY <1>11 DEF PowerCycle
<1> QED BY <1>1, <1>2, <1>3, <1>4, <1>5, <1>6, <1>7, <1>8, <1>9, <1>10, <1>11

\* So do the steps on files, which are taken with the service stopped.
LEMMA FileSteps ==
    ASSUME IInv, Stop \/ Backup \/ Send \/ Decode \/ Move \/ Rollback
    PROVE  IInv' /\ (dest' # dest => ~running)
<1> USE DeployAssumption DEF Files, Modules, Service, Absent, Partial, Content
<1>1. CASE Stop
  <2>1. /\ link' = link /\ version' = version
        /\ UNCHANGED <<dest, prev, staging, candidate>>
        /\ \/ pc' = "backup" /\ at' = 1 /\ running' = FALSE
           \/ pc' = "finally" /\ running' \in {running, FALSE}
        BY <1>1 DEF Stop, Command, Acked, Unanswered, NotDone, Raises, Go, device
  <2>2. TypeInv'
    <3>1. pc' \in AtAFile => at' \in Files
      <4>1. 1 \in Files OBVIOUS
      <4>2. at' = 1 \/ pc' = "finally" BY <2>1
      <4>3. "finally" \notin AtAFile BY DEF AtAFile
      <4> QED BY <4>1, <4>2, <4>3
    <3>2. running' \in BOOLEAN BY <2>1 DEF IInv, TypeInv
    <3> QED BY <2>1, <3>1, <3>2 DEF IInv, TypeInv
  <2>3. WholeInv' BY <2>1 DEF IInv, WholeInv
  <2>4. StoppedInv' BY <2>1 DEF StoppedInv, AtAFile, ServiceStopped
  <2> QED BY <2>1, <2>2, <2>3, <2>4 DEF IInv
<1>2. CASE Backup
  <2>1. /\ pc = "backup"
        /\ link' = link /\ version' = version
        /\ UNCHANGED <<dest, staging, candidate, running>>
        /\ prev' \in {prev, [prev EXCEPT ![at] = dest[at]]}
        BY <1>2 DEF Backup, Command, Acked, Unanswered, NotDone, Raises, Go,
                    device, Copy, Nothing
  <2>2. \/ pc' = "backup" /\ at < Service /\ at' = at + 1
        \/ pc' \in {"send", "rollback"} /\ at' = 1
        BY <1>2 DEF Backup, Command, Raises, Go
  <2>3. at \in Files BY <2>1 DEF IInv, TypeInv, AtAFile
  <2> QED BY <2>1, <2>2, <2>3
          DEF IInv, TypeInv, WholeInv, StoppedInv, AtAFile, ServiceStopped
<1>3. CASE Send
  <2>1. PICK content \in {version, Partial} :
           Command(/\ staging' = [staging EXCEPT ![at] = content]
                   /\ candidate' = [candidate EXCEPT ![at] = Absent]
                   /\ UNCHANGED <<dest, prev, running, inhibit>>,
                   "decode", at, "rollback")
        BY <1>3 DEF Send
  <2>2. /\ link' = link /\ version' = version
        /\ UNCHANGED <<dest, prev, running>>
        /\ staging' \in {staging, [staging EXCEPT ![at] = content]}
        /\ candidate' \in {candidate, [candidate EXCEPT ![at] = Absent]}
        BY <2>1 DEF Command, Acked, Unanswered, NotDone, Raises, device
  <2>5. \/ pc' = "decode" /\ at' = at
        \/ pc' = "rollback" /\ at' = 1
        BY <2>1 DEF Command, Raises, Go
  <2>3. pc = "send" BY <1>3 DEF Send
  <2>4. at \in Files /\ content \in Content
        BY <2>3 DEF IInv, TypeInv, AtAFile
  <2> QED BY <2>2, <2>3, <2>4, <2>5
          DEF IInv, TypeInv, WholeInv, StoppedInv, AtAFile, ServiceStopped
<1>4. CASE Decode
  <2>1. /\ pc = "decode"
        /\ link' = link /\ version' = version
        /\ UNCHANGED <<dest, prev, running>>
        /\ staging' \in {staging, [staging EXCEPT ![at] = Absent]}
        /\ candidate' \in {candidate, [candidate EXCEPT ![at] = staging[at]]}
        BY <1>4 DEF Decode, Command, Acked, Unanswered, NotDone, Raises, Go,
                    device, Copy
  <2>2. \/ /\ pc' = "move" /\ at' = at /\ staging[at] = version
           /\ candidate' = [candidate EXCEPT ![at] = staging[at]]
        \/ pc' = "rollback" /\ at' = 1
        BY <1>4 DEF Decode, Command, Raises, Go, Copy
  <2>3. at \in Files BY <2>1 DEF IInv, TypeInv, AtAFile
  <2> QED BY <2>1, <2>2, <2>3
          DEF IInv, TypeInv, WholeInv, StoppedInv, AtAFile, ServiceStopped
<1>5. CASE Move
  <2>1. /\ pc = "move"
        /\ link' = link /\ version' = version
        /\ UNCHANGED <<prev, staging, running>>
        /\ \/ link /\ dest' = [dest EXCEPT ![at] = candidate[at]]
           \/ dest' = dest
        /\ candidate' \in {candidate, [candidate EXCEPT ![at] = Absent]}
        BY <1>5 DEF Move, Command, Acked, Unanswered, NotDone, Raises, Go,
                    device, Copy
  <2>2. \/ pc' = "send" /\ at < Service /\ at' = at + 1
        \/ pc' = "compile"
        \/ pc' = "rollback" /\ at' = 1
        BY <1>5 DEF Move, Command, Raises, Go
  <2>3. at \in Files BY <2>1 DEF IInv, TypeInv, AtAFile
  <2> QED BY <2>1, <2>2, <2>3
          DEF IInv, TypeInv, WholeInv, StoppedInv, AtAFile, ServiceStopped
<1>6. CASE Rollback
  <2>1. /\ pc = "rollback"
        /\ link' = link /\ version' = version
        /\ UNCHANGED <<prev, staging, candidate, running>>
        /\ \/ link /\ dest' = [dest EXCEPT ![at] = prev[at]]
           \/ dest' = dest
        BY <1>6 DEF Rollback, Quietly, Acked, Unanswered, NotDone, Go, device,
                    Copy, Nothing
  <2>2. \/ pc' = "rollback" /\ at < Service /\ at' = at + 1
        \/ pc' = "restart"
        BY <1>6 DEF Rollback, Quietly, Go
  <2>3. at \in Files BY <2>1 DEF IInv, TypeInv, AtAFile
  <2> QED BY <2>1, <2>2, <2>3
          DEF IInv, TypeInv, WholeInv, StoppedInv, AtAFile, ServiceStopped
<1> QED BY <1>1, <1>2, <1>3, <1>4, <1>5, <1>6

\* Every step keeps the invariant, and changes a file only while the service
\* is stopped.
LEMMA StepInv == IInv /\ [Next]_vars => IInv' /\ (dest' # dest => ~running)
<1> SUFFICES ASSUME IInv, [Next]_vars
             PROVE  IInv' /\ (dest' # dest => ~running)
    OBVIOUS
<1>1. CASE Next BY <1>1, QuietSteps, FileSteps DEF Next
<1>2. CASE UNCHANGED vars
      BY <1>2 DEF vars, device, script, IInv, TypeInv, WholeInv, StoppedInv
<1> QED BY <1>1, <1>2

\* No installed module is ever cut short (serial_put.py put_file).
THEOREM NeverHalf == Spec => []NeverHalfWritten
<1>1. IInv => NeverHalfWritten
      BY DEF IInv, WholeInv, NeverHalfWritten
<1> QED BY InitInv, StepInv, <1>1, PTL DEF Spec

\* Files change only while the service is stopped (main of the deployment).
THEOREM StoppedChanges == Spec => ChangesWhileStopped
<1>1. IInv /\ [Next]_vars => [dest' # dest => ~running]_vars
      BY StepInv
<1> QED BY InitInv, StepInv, <1>1, PTL DEF Spec, ChangesWhileStopped

-----------------------------------------------------------------------------
(* One version *)

AllNew == \A f \in Files : dest[f] = version
Untouched == {"inhibit", "stop", "backup"}
Installing == {"send", "decode", "move"}

\* How far the installation is: the files before "at" are the new ones, all of
\* them from the compilation on.  A run that only verifies promises nothing.
VersionInv ==
    /\ pc \in Untouched \cup Installing \cup {"compile", "staged", "start", "check"} =>
          outcome = "begun"
    /\ pc \in {"rollback", "restart"} => outcome = "rolling back"
    /\ pc \in Untouched => dest = before
    /\ pc \in Installing => \A f \in Files : f < at => dest[f] = version
    /\ pc \in {"compile", "staged", "start"} => AllNew
    /\ pc = "check" \/ outcome \in {"checked", "live", "not live"} =>
          mode = "verify_only" \/ (AllNew /\ running)
    /\ outcome = "staged" => AllNew
    /\ pc = "judge" => outcome = "checked"

\* How far the rollback is.  The unit file is passed over when it has no
\* backup: then it was not there before either, since the backup of a missing
\* unit file raises before anything is installed.
RestoreInv ==
    /\ before \in [Files -> Content]
    /\ pc \in Installing \cup {"compile"} => before[Service] # Absent
    /\ pc = "rollback" /\ before[Service] = Absent => dest[Service] = Absent
    /\ pc = "rollback" /\ clean /\ prev = before =>
          \A f \in Files : f < at => dest[f] = before[f]
    /\ (pc = "restart" \/ outcome = "rolled back") /\ clean /\ prev = before =>
          dest = before
    /\ outcome = "rolled back" /\ clean => running

Installed == IInv /\ VersionInv /\ RestoreInv

\* The positions of the files.
LEMMA FirstFile ==
    /\ Files \subseteq Nat
    /\ \A f \in Files : ~(f < 1)
    /\ \A f \in Files : f < Service \/ f = Service
    /\ Service \in Files /\ ~(Service < Service)
    /\ \A f, g \in Files : f < g + 1 => f < g \/ f = g
BY DeployAssumption DEF Files, Modules, Service

\* The steps that touch no file keep track of it.
LEMMA QuietVersions ==
    ASSUME Installed, Begin \/ Inhibit \/ Stop \/ Compile \/ Restart \/ Staged
                 \/ Start \/ Check \/ Finally \/ Judge \/ LineLost \/ PowerCycle
    PROVE  VersionInv' /\ RestoreInv'
<1> USE DEF Installed, VersionInv, RestoreInv, AllNew, Untouched, Installing,
            device, script, Go, Raises, Command, Acked, NotDone, Unanswered
<1>1. CASE Begin BY <1>1 DEF Begin, IInv, TypeInv
<1>2. CASE Inhibit BY <1>2 DEF Inhibit
<1>3. CASE Compile
  <2>1. /\ pc = "compile" /\ UNCHANGED <<device, link, version, before, clean, mode>>
        /\ \/ pc' \in {"staged", "start"} /\ outcome' = outcome
           \/ pc' = "rollback" /\ at' = 1 /\ outcome' = "rolling back"
        BY <1>3 DEF Compile, Nothing
  <2> QED BY <2>1, FirstFile
<1>4. CASE Restart
  <2>1. /\ pc = "restart" /\ pc' = "finally" /\ outcome' = "rolled back"
        /\ UNCHANGED <<dest, prev, version, before, mode>>
        BY <1>4 DEF Restart, Started
  <2>2. clean' => clean /\ running' BY <1>4, Zenon DEF Restart, Started
  <2>3. VersionInv' BY <2>1
  <2> QED BY <2>1, <2>2, <2>3
<1>5. CASE Staged BY <1>5 DEF Staged
<1>6. CASE Start BY <1>6 DEF Start, Started
<1>7. CASE Check BY <1>7 DEF Check, Nothing
<1>8. CASE Finally BY <1>8 DEF Finally
<1>9. CASE Judge BY <1>9 DEF Judge
<1>10. CASE LineLost BY <1>10 DEF LineLost
<1>11. CASE PowerCycle BY <1>11 DEF PowerCycle
<1>12. CASE Stop BY <1>12 DEF Stop
<1> QED BY <1>1, <1>2, <1>3, <1>4, <1>5, <1>6, <1>7, <1>8, <1>9, <1>10, <1>11, <1>12

\* So do the backups, the transfers, the installation and the rollback.
LEMMA FileVersions ==
    ASSUME Installed, Backup \/ Send \/ Decode \/ Move \/ Rollback
    PROVE  VersionInv' /\ RestoreInv'
<1> USE FirstFile
        DEF Installed, VersionInv, RestoreInv, AllNew, Untouched, Installing
<1>0. /\ dest \in [Files -> Content] /\ prev \in [Files -> Content]
      /\ pc \in AtAFile => at \in Files
      BY DEF IInv, TypeInv
<1>1. CASE Backup
  <2>1. /\ pc = "backup" /\ at \in Files
        /\ UNCHANGED <<dest, version, before, clean, mode>>
        BY <1>0, <1>1 DEF Backup, Command, Acked, Unanswered, NotDone, Raises, Go,
                    device, Copy, Nothing, AtAFile
  <2>2. \/ pc' = "backup" /\ at < Service /\ outcome' = outcome
        \/ pc' = "send" /\ at = Service /\ at' = 1 /\ outcome' = outcome
           /\ dest[Service] # Absent
        \/ pc' = "rollback" /\ at' = 1 /\ outcome' = "rolling back"
        BY <1>1, <2>1 DEF Backup, Command, Raises, Go
  <2> QED BY <2>1, <2>2
<1>2. CASE Send
  <2>1. PICK content \in {version, Partial} :
           Command(/\ staging' = [staging EXCEPT ![at] = content]
                   /\ candidate' = [candidate EXCEPT ![at] = Absent]
                   /\ UNCHANGED <<dest, prev, running, inhibit>>,
                   "decode", at, "rollback")
        BY <1>2 DEF Send
  <2>2. UNCHANGED <<dest, prev, version, before, clean, mode>>
        BY <2>1 DEF Command, Acked, Unanswered, NotDone, Raises, device
  <2>3. \/ pc' = "decode" /\ at' = at /\ outcome' = outcome
        \/ pc' = "rollback" /\ at' = 1 /\ outcome' = "rolling back"
        BY <2>1 DEF Command, Raises, Go
  <2>4. pc = "send" BY <1>2 DEF Send
  <2> QED BY <2>2, <2>3, <2>4
<1>3. CASE Decode
  <2>1. pc = "decode" /\ UNCHANGED <<dest, prev, version, before, clean, mode>>
        BY <1>3 DEF Decode, Command, Acked, Unanswered, NotDone, Raises, Go,
                    device, Copy
  <2>2. \/ pc' = "move" /\ at' = at /\ outcome' = outcome
        \/ pc' = "rollback" /\ at' = 1 /\ outcome' = "rolling back"
        BY <1>3 DEF Decode, Command, Raises, Go, Copy
  <2> QED BY <2>1, <2>2
<1>4. CASE Move
  <2>1. /\ pc = "move" /\ candidate[at] = version /\ at \in Files
        /\ UNCHANGED <<prev, version, before, clean, mode>>
        /\ \/ dest' = [dest EXCEPT ![at] = version]
           \/ dest' = dest /\ pc' = "rollback"
        BY <1>0, <1>4 DEF Move, Command, Acked, Unanswered, NotDone, Raises, Go,
                    device, Copy, IInv, WholeInv, AtAFile
  <2>2. \/ pc' = "send" /\ at < Service /\ at' = at + 1 /\ outcome' = outcome
        \/ pc' = "compile" /\ at = Service /\ outcome' = outcome
        \/ pc' = "rollback" /\ at' = 1 /\ outcome' = "rolling back"
        BY <1>4, <2>1 DEF Move, Command, Raises, Go
  <2>3. \A f \in Files : f < at \/ f = at => dest'[f] = version \/ pc' = "rollback"
        BY <1>0, <2>1
  <2>4. VersionInv' BY <2>1, <2>2, <2>3
  <2>5. RestoreInv' BY <2>1, <2>2
  <2> QED BY <2>4, <2>5
<1>5. CASE Rollback
  <2>1. /\ pc = "rollback" /\ at \in Files /\ outcome = "rolling back"
        /\ UNCHANGED <<prev, version, before, mode, outcome>>
        /\ \/ dest' = [dest EXCEPT ![at] = prev[at]]
           \/ dest' = dest /\ clean' = FALSE
           \/ dest' = dest /\ at = Service /\ prev[at] = Absent
        BY <1>0, <1>5 DEF Rollback, Quietly, Acked, Unanswered, NotDone, Go, device,
                    Copy, Nothing, AtAFile
  <2>2. \/ pc' = "rollback" /\ at < Service /\ at' = at + 1
        \/ pc' = "restart" /\ at = Service
        BY <1>5, <2>1 DEF Rollback, Quietly, Go
  <2>3. clean' => clean
        BY <1>5, Zenon DEF Rollback, Quietly
  <2>4. VersionInv' BY <2>1, <2>2
  <2>5. clean' /\ prev = before => \A f \in Files : f < at \/ f = at => dest'[f] = before[f]
        BY <1>0, <2>1, <2>3
  <2>6. CASE pc' = "rollback"
    <3>1. before[Service] = Absent => dest'[Service] = Absent
          BY <1>0, <2>1, <2>2, <2>6
    <3>2. clean' /\ prev = before => \A f \in Files : f < at' => dest'[f] = before[f]
          BY <2>1, <2>2, <2>5, <2>6
    <3> QED BY <2>1, <2>6, <3>1, <3>2
  <2>7. CASE pc' = "restart"
    <3>1. dest' \in [Files -> Content] BY <1>0, <2>1
    <3>2. clean' /\ prev = before => dest' = before
      <4>1. clean' /\ prev = before => \A f \in Files : dest'[f] = before[f]
            BY <2>2, <2>5, <2>7
      <4>2. before \in [Files -> Content] OBVIOUS
      <4>3. (\A f \in Files : dest'[f] = before[f]) => dest' = before BY ONLY <3>1, <4>2
      <4> QED BY ONLY <4>1, <4>3
    <3> QED BY <2>1, <2>7, <3>2
  <2> QED BY <2>2, <2>4, <2>6, <2>7
<1> QED BY <1>1, <1>2, <1>3, <1>4, <1>5

\* Every step keeps track of the installation.
LEMMA InstalledStep == Installed /\ [Next]_vars => Installed'
<1> SUFFICES ASSUME Installed, [Next]_vars PROVE VersionInv' /\ RestoreInv'
    BY StepInv DEF Installed
<1>1. CASE Next BY <1>1, QuietVersions, FileVersions DEF Next
<1>2. CASE UNCHANGED vars
      BY <1>2 DEF vars, device, script, Installed, VersionInv, RestoreInv, AllNew
<1> QED BY <1>1, <1>2

\* A deployment that ends by itself leaves one set of files, the new one or,
\* after a rollback whose commands all succeeded, the old one (main).
THEOREM EndsOnOneVersion == Spec => []OneVersion
<1>1. Init => Installed
      BY InitInv, DeployAssumption
         DEF Init, Installed, IInv, TypeInv, VersionInv, RestoreInv, AllNew,
             Untouched, Installing
<1>2. Installed => OneVersion
      BY DEF Installed, VersionInv, RestoreInv, AllNew, OneVersion
<1> QED BY <1>1, InstalledStep, <1>2, PTL DEF Spec

=============================================================================
