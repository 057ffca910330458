---------------------------- MODULE InstallProofs ----------------------------
(***************************************************************************)
(* Every property of Install but RerunUpgrades, which the code violates,   *)
(* holds of any sequence of runs, failures, crashes and reboots, on either *)
(* platform or both.                                                       *)
(***************************************************************************)
EXTENDS Install, TLAPS

Copied == tool \in {"mihomo", "ping", "unit", "perms", "load"}

(* A helper runs only for a job, a job has its unit file, and the file of  *)
(* the helper that runs is the installed one, unless the last uninstall    *)
(* was botched.                                                            *)
ServiceInv ==
  /\ daemon # NoDaemon => job
  /\ ~botched /\ job => unit
  /\ ~botched /\ daemon # NoDaemon => daemon.linked /\ socket = "live"

(* What an installer run has done so far.                                  *)
InstallInv ==
  /\ Copied => file["helper"] = "new"
  /\ tool \in {"perms", "load"} => unit
  /\ (Copied \/ tool = "helper") /\ ~faulty /\ ~botched => ~job
  /\ Copied /\ platform = "linux" /\ ~botched /\ daemon # NoDaemon
       => daemon.version = "new"

(* What an uninstaller run has done so far.                                *)
UninstallInv ==
  /\ tool \in {"rmunit", "rmdir", "rmsock"} /\ (~faulty \/ ~botched) => ~job
  /\ tool \in {"rmunit", "rmdir", "rmsock"} /\ ~faulty => ~enabled
  /\ tool \in {"rmdir", "rmsock"} /\ ~faulty => ~unit
  /\ tool = "rmsock" /\ ~faulty => \A f \in Binary : file[f] = "none"

RunInv == tool # "none" => exit = "none"

Inv == TypeOK /\ ServiceInv /\ InstallInv /\ UninstallInv /\ RunInv

-----------------------------------------------------------------------------
LEMMA InitInv == Init => Inv
<1> SUFFICES ASSUME Init PROVE Inv
  OBVIOUS
<1> USE DEF Init, NoDaemon, Binary
<1>1. TypeOK
  BY InstallAssumption DEF TypeOK, Versions, InstallSteps, UninstallSteps
<1>2. ServiceInv /\ InstallInv /\ UninstallInv /\ RunInv
  BY DEF ServiceInv, InstallInv, UninstallInv, RunInv, Copied
<1> QED
  BY <1>1, <1>2 DEF Inv

LEMMA NoDaemonType == NoDaemon \in [version : Versions, linked : BOOLEAN]
BY DEF NoDaemon, Versions

LEMMA StartedType ==
  ASSUME TypeOK, DaemonStarts
  PROVE  daemon' \in [version : Versions, linked : BOOLEAN]
<1>1. file["helper"] \in Versions
  BY DEF TypeOK, Binary
<1>2. [version |-> file["helper"], linked |-> TRUE]
        \in [version : Versions, linked : BOOLEAN]
  BY <1>1
<1> QED
  BY <1>2 DEF DaemonStarts

LEMMA Preserved == Inv /\ [Next]_vars => Inv'
<1> SUFFICES ASSUME Inv, [Next]_vars PROVE Inv'
  OBVIOUS
<1> USE DEF Inv, disk, run, jobs
<1>1. ASSUME NEW first \in {"check", "bootout"}, Begin(first) PROVE Inv'
  <2>1. TypeOK'
    BY <1>1 DEF Begin, TypeOK, InstallSteps, UninstallSteps
  <2>2. ServiceInv' /\ InstallInv'
    BY <1>1 DEF Begin, ServiceInv, InstallInv, Copied
  <2>3. UninstallInv' /\ RunInv'
    BY <1>1 DEF Begin, UninstallInv, RunInv
  <2> QED
    BY <2>1, <2>2, <2>3
<1>2. CASE Fail
  <2> USE <1>2 DEF Fail, Ends
  <2>1. TypeOK'
    <3>1. file' \in [Binary -> Versions] /\ unit' \in BOOLEAN
      BY DEF TypeOK, Versions
    <3> QED
      BY <3>1 DEF TypeOK
  <2>2. ServiceInv'
    <3>1. job' => job \/ unit'
      <4>1. CASE UNCHANGED jobs
        BY <4>1
      <4>2. CASE tool = "load"
        BY <4>2 DEF InstallInv, Binary
      <4> QED
        BY <4>1, <4>2
    <3>2. unit => unit'
      BY DEF TypeOK
    <3>3. ~botched /\ job' => unit'
      BY <3>1, <3>2 DEF ServiceInv
    <3>4. job => job'
      <4>1. job' = job \/ job' = TRUE
        OBVIOUS
      <4> QED
        BY <4>1, Zenon
    <3>5. daemon' # NoDaemon => job'
      BY <3>4 DEF ServiceInv
    <3> QED
      BY <3>3, <3>5 DEF ServiceInv
  <2>3. InstallInv'
    BY DEF TypeOK, ServiceInv, InstallInv, Copied, NoDaemon, Binary
  <2>4. UninstallInv'
    BY DEF TypeOK, ServiceInv, UninstallInv, NoDaemon, Binary
  <2>5. RunInv'
    BY DEF RunInv, InstallSteps
  <2> QED
    BY <2>1, <2>2, <2>3, <2>4, <2>5
<1>3. CASE Check
  BY <1>3 DEF Check, Goes, TypeOK, ServiceInv, InstallInv, UninstallInv,
     RunInv, Copied, NoDaemon, Binary, Versions, InstallSteps, UninstallSteps
<1>4. CASE InstallStop
  <2> USE <1>4 DEF InstallStop, Goes, StopService, DaemonStops
  <2>1. TypeOK'
    <3>1. daemon' \in [version : Versions, linked : BOOLEAN]
      BY NoDaemonType DEF TypeOK
    <3>2. job' \in BOOLEAN /\ enabled' \in BOOLEAN /\ socket' \in {"absent", "stale", "live"}
      BY DEF TypeOK
    <3>3. faulty' \in BOOLEAN /\ botched' \in BOOLEAN
      BY DEF TypeOK
    <3> QED
      BY <3>1, <3>2, <3>3 DEF TypeOK, InstallSteps, UninstallSteps
  <2>2. ServiceInv'
    BY DEF TypeOK, ServiceInv, InstallInv, UninstallInv, Copied, NoDaemon, Binary
  <2>3. InstallInv'
    BY DEF TypeOK, ServiceInv, InstallInv, Copied, NoDaemon, Binary
  <2>4. UninstallInv'
    BY DEF TypeOK, ServiceInv, UninstallInv, NoDaemon, Binary
  <2>5. RunInv'
    BY DEF RunInv, InstallSteps
  <2> QED
    BY <2>1, <2>2, <2>3, <2>4, <2>5
<1>5. CASE CopyHelper
  <2> USE <1>5 DEF CopyHelper, Goes, TextBusy
  <2>1. TypeOK'
    BY DEF TypeOK, Binary, Versions, NoDaemon, InstallSteps, UninstallSteps
  <2>2. ServiceInv'
    BY DEF TypeOK, ServiceInv, InstallInv, UninstallInv, Copied, NoDaemon, Binary
  <2>3. InstallInv'
    BY DEF TypeOK, ServiceInv, InstallInv, Copied, NoDaemon, Binary
  <2>4. UninstallInv'
    BY DEF TypeOK, ServiceInv, UninstallInv, NoDaemon, Binary
  <2>5. RunInv'
    BY DEF RunInv, InstallSteps
  <2> QED
    BY <2>1, <2>2, <2>3, <2>4, <2>5
<1>6. CASE CopyHelperBusy
  BY <1>6 DEF CopyHelperBusy, Ends, TypeOK, ServiceInv, InstallInv, UninstallInv,
     RunInv, Copied, NoDaemon, Binary, Versions, InstallSteps, UninstallSteps
<1>7. CASE CopyOptional
  <2> USE <1>7 DEF CopyOptional, Goes
  <2>1. TypeOK'
    BY DEF TypeOK, Binary, Versions, NoDaemon, InstallSteps, UninstallSteps
  <2>2. ServiceInv'
    BY DEF TypeOK, ServiceInv, InstallInv, UninstallInv, Copied, NoDaemon, Binary
  <2>3. InstallInv'
    BY DEF TypeOK, ServiceInv, InstallInv, Copied, NoDaemon, Binary
  <2>4. UninstallInv'
    BY DEF TypeOK, ServiceInv, UninstallInv, NoDaemon, Binary
  <2>5. RunInv'
    BY DEF RunInv, InstallSteps
  <2> QED
    BY <2>1, <2>2, <2>3, <2>4, <2>5
<1>8. CASE WriteUnit
  BY <1>8 DEF WriteUnit, Goes, TypeOK, ServiceInv, InstallInv, UninstallInv,
     RunInv, Copied, NoDaemon, Binary, Versions, InstallSteps, UninstallSteps
<1>9. CASE SetPerms
  BY <1>9 DEF SetPerms, Goes, TypeOK, ServiceInv, InstallInv, UninstallInv,
     RunInv, Copied, NoDaemon, Binary, Versions, InstallSteps, UninstallSteps
<1>10. CASE Bootstrap
  <2> USE <1>10 DEF Bootstrap, Ends, DaemonStarts
  <2>1. TypeOK'
    <3>1. daemon' \in [version : Versions, linked : BOOLEAN]
      BY StartedType DEF TypeOK
    <3>2. socket' \in {"absent", "stale", "live"}
      BY DEF TypeOK
    <3> QED
      BY <3>1, <3>2 DEF TypeOK
  <2>2. ServiceInv'
    BY DEF TypeOK, ServiceInv, InstallInv, UninstallInv, Copied, NoDaemon, Binary
  <2>3. InstallInv'
    BY DEF TypeOK, ServiceInv, InstallInv, Copied, NoDaemon, Binary
  <2>4. UninstallInv'
    BY DEF TypeOK, ServiceInv, UninstallInv, NoDaemon, Binary
  <2>5. RunInv'
    BY DEF RunInv, InstallSteps
  <2> QED
    BY <2>1, <2>2, <2>3, <2>4, <2>5
<1>11. CASE Enable
  <2> USE <1>11 DEF Enable, Ends, DaemonStarts
  <2>1. TypeOK'
    <3>1. daemon' \in [version : Versions, linked : BOOLEAN]
      BY StartedType DEF TypeOK
    <3>2. socket' \in {"absent", "stale", "live"}
      BY DEF TypeOK
    <3> QED
      BY <3>1, <3>2 DEF TypeOK
  <2>2. ServiceInv'
    BY DEF TypeOK, ServiceInv, InstallInv, UninstallInv, Copied, NoDaemon, Binary
  <2>3. InstallInv'
    BY DEF TypeOK, ServiceInv, InstallInv, Copied, NoDaemon, Binary
  <2>4. UninstallInv'
    BY DEF TypeOK, ServiceInv, UninstallInv, NoDaemon, Binary
  <2>5. RunInv'
    BY DEF RunInv, InstallSteps
  <2> QED
    BY <2>1, <2>2, <2>3, <2>4, <2>5
<1>12. CASE Bootout
  <2> USE <1>12 DEF Bootout, Goes, StopService, DaemonStops
  <2>1. TypeOK'
    <3>1. daemon' \in [version : Versions, linked : BOOLEAN]
      BY NoDaemonType DEF TypeOK
    <3>2. job' \in BOOLEAN /\ enabled' \in BOOLEAN /\ socket' \in {"absent", "stale", "live"}
      BY DEF TypeOK
    <3>3. faulty' \in BOOLEAN /\ botched' \in BOOLEAN
      BY DEF TypeOK
    <3> QED
      BY <3>1, <3>2, <3>3 DEF TypeOK, InstallSteps, UninstallSteps
  <2>2. ServiceInv'
    BY DEF TypeOK, ServiceInv, InstallInv, UninstallInv, Copied, NoDaemon, Binary
  <2>3. InstallInv'
    BY DEF TypeOK, ServiceInv, InstallInv, Copied, NoDaemon, Binary
  <2>4. UninstallInv'
    BY DEF TypeOK, ServiceInv, UninstallInv, NoDaemon, Binary
  <2>5. RunInv'
    BY DEF RunInv, InstallSteps
  <2> QED
    BY <2>1, <2>2, <2>3, <2>4, <2>5
<1>13. CASE RemoveUnit
  <2> USE <1>13 DEF RemoveUnit, Goes
  <2>1. TypeOK'
    BY DEF TypeOK, Binary, Versions, NoDaemon, InstallSteps, UninstallSteps
  <2>2. ServiceInv'
    BY DEF TypeOK, ServiceInv, InstallInv, UninstallInv, Copied, NoDaemon, Binary
  <2>3. InstallInv'
    BY DEF TypeOK, ServiceInv, InstallInv, Copied, NoDaemon, Binary
  <2>4. UninstallInv'
    BY DEF TypeOK, ServiceInv, UninstallInv, NoDaemon, Binary
  <2>5. RunInv'
    BY DEF RunInv, InstallSteps
  <2> QED
    BY <2>1, <2>2, <2>3, <2>4, <2>5
<1>14. CASE RemoveDir
  <2> USE <1>14 DEF RemoveDir, Goes
  <2>1. TypeOK'
    BY DEF TypeOK, Binary, Versions, NoDaemon, InstallSteps, UninstallSteps
  <2>2. ServiceInv'
    <3>1. daemon # NoDaemon => botched /\ job
      BY DEF ServiceInv, UninstallInv
    <3>2. CASE daemon = NoDaemon
      BY <3>2 DEF ServiceInv, NoDaemon
    <3>3. CASE daemon # NoDaemon
      BY <3>1, <3>3 DEF ServiceInv
    <3> QED
      BY <3>2, <3>3
  <2>3. InstallInv'
    BY DEF TypeOK, ServiceInv, InstallInv, Copied, NoDaemon, Binary
  <2>4. UninstallInv'
    BY DEF TypeOK, ServiceInv, UninstallInv, NoDaemon, Binary
  <2>5. RunInv'
    BY DEF RunInv, InstallSteps
  <2> QED
    BY <2>1, <2>2, <2>3, <2>4, <2>5
<1>15. CASE RemoveSocket
  BY <1>15 DEF RemoveSocket, Ends, TypeOK, ServiceInv, InstallInv, UninstallInv,
     RunInv, Copied, NoDaemon, Binary, Versions, InstallSteps, UninstallSteps
<1>16. CASE DaemonDies
  BY <1>16 DEF DaemonDies, DaemonStops, TypeOK, ServiceInv, InstallInv, UninstallInv,
     RunInv, Copied, NoDaemon, Binary, Versions, InstallSteps, UninstallSteps
<1>17. CASE DaemonRestarts
  BY <1>17 DEF DaemonRestarts, DaemonStarts, TypeOK, ServiceInv, InstallInv, UninstallInv,
     RunInv, Copied, NoDaemon, Binary, Versions, InstallSteps, UninstallSteps
<1>18. CASE Reboot
  BY <1>18 DEF Reboot, TypeOK, ServiceInv, InstallInv, UninstallInv,
     RunInv, Copied, NoDaemon, Binary, Versions, InstallSteps, UninstallSteps
<1>19. CASE UNCHANGED vars
  BY <1>19 DEF vars, TypeOK, ServiceInv, InstallInv, UninstallInv,
     RunInv, Copied, NoDaemon, Binary, Versions, InstallSteps, UninstallSteps
<1> QED
  BY <1>1, <1>2, <1>3, <1>4, <1>5, <1>6, <1>7, <1>8, <1>9, <1>10, <1>11, <1>12, <1>13, <1>14, <1>15, <1>16, <1>17, <1>18, <1>19 DEF Next

LEMMA InvHolds == Spec => []Inv
BY InitInv, Preserved, PTL DEF Spec

-----------------------------------------------------------------------------
(* The state stays well-typed; in particular every uninstall exits 0.      *)
THEOREM TypeCorrect == Spec => []TypeOK
<1>1. Inv => TypeOK
  BY DEF Inv
<1> QED
  BY <1>1, InvHolds, PTL

(* A helper that could be stopped never loses its socket while it runs.    *)
THEOREM SocketKept == Spec => []SocketServed
<1>1. Inv => SocketServed
  BY DEF Inv, ServiceInv, SocketServed
<1> QED
  BY <1>1, InvHolds, PTL

(* Both actions that end an installer run with exit status 0.              *)
LEMMA LastStep ==
  ASSUME Inv, [Next]_vars, Installed, ~botched,
         ~faulty' \/ platform = "linux"
  PROVE  Upgraded
<1> USE DEF Inv, TypeOK, ServiceInv, InstallInv, Copied, Installed, Upgraded,
            disk, run, jobs, InstallSteps, UninstallSteps, Binary
<1>1. CASE Bootstrap
  <2>1. platform = "macos" /\ ~faulty' /\ unit' /\ file'["helper"] = "new"
    BY <1>1 DEF Bootstrap
  <2>2. job' /\ daemon' = [version |-> file["helper"], linked |-> TRUE]
    BY <1>1, <2>1 DEF Bootstrap, DaemonStarts
  <2> QED
    BY <2>1, <2>2
<1>2. CASE Enable
  BY <1>2 DEF Enable, Ends, DaemonStarts
<1>3. ~Fail /\ ~Reboot
  BY DEF Fail, Ends, Reboot
<1>4. ~DaemonDies /\ ~DaemonRestarts /\ ~UNCHANGED vars
  BY DEF RunInv, DaemonDies, DaemonRestarts, vars
<1> QED
  BY <1>1, <1>2, <1>3, <1>4 DEF Next, Begin, Check, InstallStop, CopyHelper,
     CopyHelperBusy, CopyOptional, WriteUnit, SetPerms, Bootout, RemoveUnit,
     RemoveDir, RemoveSocket, Goes

(* A run of the installer in which no command fails has the new helper     *)
(* running when it exits 0, unless the last uninstall since the boot went  *)
(* on after it failed to stop the service.                                 *)
THEOREM InstallUpgrades == Spec => FaultFreeInstallUpgrades
<1>1. Inv /\ [Next]_vars => (Installed /\ ~faulty' /\ ~botched => Upgraded)
  BY LastStep
<1> QED
  BY <1>1, InvHolds, PTL DEF Spec, FaultFreeInstallUpgrades

(* On Linux every run of the installer that exits 0 has, under the same    *)
(* proviso.                                                                *)
THEOREM LinuxUpgrades == Spec => LinuxSuccessUpgrades
<1>1. Inv /\ [Next]_vars
        => (Installed /\ platform = "linux" /\ ~botched => Upgraded)
  BY LastStep
<1> QED
  BY <1>1, InvHolds, PTL DEF Spec, LinuxSuccessUpgrades

(* An uninstall in which no command fails leaves nothing behind.           *)
THEOREM UninstallCleans == Spec => FaultFreeUninstallCleans
<1> DEFINE Clean ==
      tool = "rmsock" /\ exit' = "uninstalled" /\ ~faulty' =>
        /\ ~job' /\ ~enabled' /\ ~unit'
        /\ daemon' = NoDaemon /\ socket' = "absent"
        /\ \A f \in Binary : file'[f] = "none"
<1>1. ASSUME Inv, [Next]_vars PROVE Clean
  <2> SUFFICES ASSUME tool = "rmsock", exit' = "uninstalled", ~faulty'
               PROVE  /\ ~job' /\ ~enabled' /\ ~unit'
                      /\ daemon' = NoDaemon /\ socket' = "absent"
                      /\ \A f \in Binary : file'[f] = "none"
    OBVIOUS
  <2>1. exit # "uninstalled"
    BY <1>1 DEF Inv, RunInv
  <2>2. RemoveSocket
    BY <1>1, <2>1 DEF Next, vars, run, Begin, Fail, Ends, Check, InstallStop,
       CopyHelper, CopyHelperBusy, CopyOptional, WriteUnit, SetPerms, Bootstrap,
       Enable, Bootout, RemoveUnit, RemoveDir, DaemonDies, DaemonRestarts,
       Reboot, Goes, InstallSteps, Binary
  <2>3. ~faulty /\ socket' = "absent" /\ UNCHANGED <<disk, jobs, daemon>>
    BY <1>1, <2>2 DEF RemoveSocket, Inv, TypeOK, disk, jobs
  <2> QED
    BY <1>1, <2>3 DEF Inv, ServiceInv, UninstallInv, disk, jobs
<1> QED
  BY <1>1, InvHolds, PTL DEF Spec, FaultFreeUninstallCleans
=============================================================================
