------------------------------ MODULE Install ------------------------------
(***************************************************************************)
(* sc-helper-install and sc-helper-uninstall (src/src/bin/), run by an     *)
(* administrator, one at a time and any number of times, against the       *)
(* service manager (launchd or systemd) and a helper that may be running.  *)
(* The service manager may fail any command; a run may fail at any step    *)
(* and leave what it has done; the machine may be rebooted.                *)
(***************************************************************************)
CONSTANT Platforms  \* the targets that are considered

ASSUME InstallAssumption == Platforms \subseteq {"macos", "linux"}

VARIABLES
  platform,  \* the build target
  file,      \* file[f]: the version of binary f in the install directory
  unit,      \* the plist or the unit file exists
  socket,    \* the socket file, and whether a helper listens there
  job,       \* the service manager keeps the service: it restarts a helper
             \* that has died
  enabled,   \* systemd is to start the service at boot (Linux)
  daemon,    \* the helper that runs: its version, and whether its file is
             \* the one in the install directory
  tool,      \* the run under way: its next step
  exit,      \* how the last run ended
  faulty,    \* a command of this run has failed (history)
  botched    \* the last uninstall went on after it could not stop the
             \* service (history)

disk == <<file, unit>>
jobs == <<job, enabled>>
run  == <<tool, exit, faulty>>
vars == <<platform, disk, socket, jobs, daemon, run, botched>>

\* "part" is a file whose copy has failed half way
Binary   == {"helper", "mihomo", "ping"}
Versions == {"none", "old", "new", "part"}
NoDaemon == [version |-> "none", linked |-> FALSE]

InstallSteps   ==
  {"check", "stop", "helper", "mihomo", "ping", "unit", "perms", "load"}
UninstallSteps == {"bootout", "rmunit", "rmdir", "rmsock"}

TypeOK ==
  /\ platform \in Platforms
  /\ file \in [Binary -> Versions] /\ unit \in BOOLEAN
  /\ socket \in {"absent", "stale", "live"}
  /\ job \in BOOLEAN /\ enabled \in BOOLEAN
  /\ daemon \in [version : Versions, linked : BOOLEAN]
  /\ tool \in InstallSteps \cup UninstallSteps \cup {"none"}
  /\ exit \in {"none", "installed", "uninstalled", "failed"}
  /\ faulty \in BOOLEAN /\ botched \in BOOLEAN

(* Nothing is installed, or an old version is and runs.                    *)
Init ==
  /\ platform \in Platforms
  /\ unit \in BOOLEAN /\ job = unit
  /\ enabled = (unit /\ platform = "linux")
  /\ file = [f \in Binary |-> IF unit THEN "old" ELSE "none"]
  /\ daemon = IF unit THEN [version |-> "old", linked |-> TRUE] ELSE NoDaemon
  /\ socket = IF unit THEN "live" ELSE "absent"
  /\ tool = "none" /\ exit = "none"
  /\ faulty = FALSE /\ botched = FALSE

-----------------------------------------------------------------------------
(* The service manager and the helper.                                     *)

(* The helper binds its socket, over a stale one if need be.               *)
DaemonStarts ==
  /\ daemon' = [version |-> file["helper"], linked |-> TRUE]
  /\ socket' = "live"

(* A helper that is told to stop removes its socket; one that is killed or *)
(* crashes does not.                                                       *)
DaemonStops ==
  /\ daemon' = NoDaemon
  /\ \/ socket' = (IF socket = "live" THEN "absent" ELSE socket)
     \/ socket' = (IF socket = "live" THEN "stale" ELSE socket)

StopServiceDisableOnly ==
  /\ enabled' = FALSE
  /\ UNCHANGED <<job, daemon, socket, faulty>>

(* `launchctl bootout` or `systemctl disable --now`.  Where it fails, the  *)
(* service goes on; systemd may have disabled it without stopping it.      *)
StopService ==
  \/ /\ job' = FALSE /\ enabled' = FALSE
     /\ DaemonStops
     /\ UNCHANGED faulty
  \/ /\ UNCHANGED enabled \/ (platform = "linux" /\ enabled' = FALSE)
     /\ faulty' = TRUE
     /\ UNCHANGED <<job, daemon, socket>>

DaemonDies ==
  /\ daemon # NoDaemon
  /\ DaemonStops
  /\ UNCHANGED <<platform, disk, jobs, run, botched>>

DaemonRestarts ==
  /\ job /\ daemon = NoDaemon
  /\ file["helper"] \in {"old", "new"}
  /\ DaemonStarts
  /\ UNCHANGED <<platform, disk, jobs, run, botched>>

(* At boot launchd loads every plist and systemd what is enabled; a run is *)
(* cut short and /run is empty.                                            *)
Reboot ==
  /\ job' = (unit /\ (enabled \/ platform = "macos"))
  /\ daemon' = NoDaemon /\ socket' = "absent"
  /\ tool' = "none" /\ exit' = IF tool = "none" THEN exit ELSE "failed"
  /\ botched' = FALSE
  /\ UNCHANGED <<platform, disk, enabled, faulty>>

-----------------------------------------------------------------------------
Goes(from, to) == tool = from /\ tool' = to /\ UNCHANGED exit
Ends(how) == tool' = "none" /\ exit' = how

Begin(first) ==
  /\ tool = "none" /\ tool' = first
  /\ exit' = "none" /\ faulty' = FALSE
  /\ UNCHANGED <<platform, disk, socket, jobs, daemon, botched>>

(* Linux does not write to a file that is being executed (ETXTBSY).        *)
TextBusy == platform = "linux" /\ daemon.linked

(* A step of the installer that returns its error; a file it was writing   *)
(* is left incomplete, or as it was; `enable --now` may have enabled the   *)
(* service and may even have started it.                                   *)
Fail ==
  /\ tool \in InstallSteps \ {"stop"}
  /\ Ends("failed")
  /\ \/ UNCHANGED disk
     \/ /\ tool \in Binary /\ ~(tool = "helper" /\ TextBusy)
        /\ file' = [file EXCEPT ![tool] = "part"] /\ UNCHANGED unit
     \/ tool = "unit" /\ unit' = TRUE /\ UNCHANGED file
  /\ \/ UNCHANGED jobs
     \/ /\ tool = "load" /\ platform = "linux"
        /\ enabled' = TRUE /\ job' \in {job, TRUE}
  /\ faulty' = TRUE
  /\ UNCHANGED <<platform, socket, daemon, botched>>

(* The payload is looked at and the directory made.                        *)
Check ==
  /\ Goes("check", "stop")
  /\ UNCHANGED <<platform, disk, socket, jobs, daemon, faulty, botched>>

InstallNoStop ==
  /\ Goes("stop", "helper")
  /\ UNCHANGED <<platform, disk, socket, jobs, daemon, faulty, botched>>

(* Only when the unit file exists; the outcome is ignored.                 *)
InstallStop ==
  /\ Goes("stop", "helper")
  /\ \/ ~unit /\ UNCHANGED <<socket, jobs, daemon, faulty>>
     \/ unit /\ StopService
  /\ UNCHANGED <<platform, disk, botched>>

CopyHelperByRename ==
  /\ Goes("helper", "mihomo")
  /\ file' = [file EXCEPT !["helper"] = "new"]
  /\ daemon' = [daemon EXCEPT !.linked = FALSE]
  /\ UNCHANGED <<platform, unit, socket, jobs, faulty, botched>>

CopyHelper ==
  /\ Goes("helper", "mihomo")
  /\ ~TextBusy
  /\ file' = [file EXCEPT !["helper"] = "new"]
  /\ UNCHANGED <<platform, unit, socket, jobs, daemon, faulty, botched>>

CopyHelperBusy ==
  /\ tool = "helper" /\ TextBusy
  /\ Ends("failed")
  /\ UNCHANGED <<platform, disk, socket, jobs, daemon, faulty, botched>>

(* sc-mihomo and sc-helper-ping are copied when they are bundled.          *)
CopyOptional ==
  /\ \/ /\ Goes("mihomo", "ping")
        /\ file' \in {file, [file EXCEPT !["mihomo"] = "new"]}
     \/ /\ Goes("ping", "unit")
        /\ file' \in {file, [file EXCEPT !["ping"] = "new"]}
  /\ UNCHANGED <<platform, unit, socket, jobs, daemon, faulty, botched>>

WriteUnit ==
  /\ Goes("unit", "perms")
  /\ unit' = TRUE
  /\ UNCHANGED <<platform, file, socket, jobs, daemon, faulty, botched>>

SetPerms ==
  /\ Goes("perms", "load")
  /\ UNCHANGED <<platform, disk, socket, jobs, daemon, faulty, botched>>

(* `launchctl bootstrap` fails when the job is loaded, and may fail        *)
(* otherwise; its exit status is only a warning.                           *)
Bootstrap ==
  /\ tool = "load" /\ platform = "macos"
  /\ \/ ~job /\ job' = TRUE /\ DaemonStarts /\ UNCHANGED faulty
     \/ faulty' = (faulty \/ ~job) /\ UNCHANGED <<socket, job, daemon>>
  /\ Ends("installed")
  /\ UNCHANGED <<platform, disk, enabled, botched>>

(* `systemctl enable --now` does not restart a service that runs.          *)
Enable ==
  /\ tool = "load" /\ platform = "linux"
  /\ job' = TRUE /\ enabled' = TRUE
  /\ IF daemon = NoDaemon THEN DaemonStarts ELSE UNCHANGED <<daemon, socket>>
  /\ Ends("installed")
  /\ UNCHANGED <<platform, disk, faulty, botched>>

-----------------------------------------------------------------------------
(* sc-helper-uninstall: every step is best-effort.                         *)

BootoutIfUnit ==
  /\ Goes("bootout", "rmunit")
  /\ \/ ~unit /\ UNCHANGED <<socket, jobs, daemon, faulty, botched>>
     \/ unit /\ StopService /\ botched' = (job' /\ faulty')
  /\ UNCHANGED <<platform, disk>>

Bootout ==
  /\ Goes("bootout", "rmunit")
  /\ StopService
  /\ botched' = (job' /\ faulty')
  /\ UNCHANGED <<platform, disk>>

RemoveUnit ==
  /\ Goes("rmunit", "rmdir")
  /\ unit' \in {unit, FALSE}
  /\ faulty' = (faulty \/ unit')
  /\ UNCHANGED <<platform, file, socket, jobs, daemon, botched>>

(* Some of the files are removed before an error.                          *)
RemoveDir ==
  /\ Goes("rmdir", "rmsock")
  /\ \E kept \in SUBSET Binary :
       file' = [f \in Binary |-> IF f \in kept THEN file[f] ELSE "none"]
  /\ faulty' = (faulty \/ \E f \in Binary : file'[f] # "none")
  /\ daemon' = [daemon EXCEPT !.linked = @ /\ file'["helper"] # "none"]
  /\ UNCHANGED <<platform, unit, socket, jobs, botched>>

RemoveSocketReports ==
  /\ tool = "rmsock"
  /\ socket' \in {socket, "absent"}
  /\ faulty' = (faulty \/ socket' # "absent")
  /\ Ends(IF faulty' THEN "warnings" ELSE "uninstalled")
  /\ UNCHANGED <<platform, disk, jobs, daemon, botched>>

(* The exit status is 0 whatever has failed.                               *)
RemoveSocket ==
  /\ tool = "rmsock"
  /\ socket' \in {socket, "absent"}
  /\ faulty' = (faulty \/ socket' # "absent")
  /\ Ends("uninstalled")
  /\ UNCHANGED <<platform, disk, jobs, daemon, botched>>

Next ==
  \/ Begin("check") \/ Begin("bootout") \/ Fail
  \/ Check \/ InstallStop \/ CopyHelper \/ CopyHelperBusy \/ CopyOptional
  \/ WriteUnit \/ SetPerms \/ Bootstrap \/ Enable
  \/ Bootout \/ RemoveUnit \/ RemoveDir \/ RemoveSocket
  \/ DaemonDies \/ DaemonRestarts \/ Reboot

Spec == Init /\ [][Next]_vars

-----------------------------------------------------------------------------
(* Properties                                                              *)

(* The uninstaller removes the socket of no helper that goes on running,   *)
(* unless it has tried to stop it and failed.                              *)
SocketServed == daemon # NoDaemon /\ ~botched => socket = "live"

Installed == tool = "load" /\ exit' = "installed"

Upgraded ==
  job' /\ unit' /\ file'["helper"] = "new" /\ daemon'.version = "new"

(* An installer run in which no command fails puts the new helper in place *)
(* and has it running, whatever half-done runs, crashes and reboots came   *)
(* before it, provided the last uninstall since the boot, if any, did not  *)
(* go on after it failed to stop the service (install.rs:13 "Exit 0.       *)
(* Helper is now running.").                                               *)
FaultFreeInstallUpgrades ==
  [][Installed /\ ~faulty' /\ ~botched => Upgraded]_vars

(* On Linux, under the same proviso, the same holds of every run that      *)
(* exits 0: a `disable --now` that has failed, or has disabled and not     *)
(* stopped, is ignored, but the copy over a running helper then fails.     *)
LinuxSuccessUpgrades ==
  [][Installed /\ platform = "linux" /\ ~botched => Upgraded]_vars

(* An uninstall in which no command fails leaves nothing of any earlier    *)
(* run, complete or not: no file, no job now or at the next boot, no       *)
(* helper, no socket.                                                      *)
FaultFreeUninstallCleans ==
  [][tool = "rmsock" /\ exit' = "uninstalled" /\ ~faulty' =>
       /\ ~job' /\ ~enabled' /\ ~unit'
       /\ daemon' = NoDaemon /\ socket' = "absent"
       /\ \A f \in Binary : file'[f] = "none"]_vars

(* install.rs:15: "Idempotent: re-running upgrades (bootout, replace       *)
(* files, bootstrap again)."  When an earlier uninstall has removed the    *)
(* plist but could not unload the job, the installer sees no plist, does   *)
(* no bootout, takes the failed bootstrap for a warning and exits 0 over   *)
(* the old helper.                                                         *)
RerunUpgrades == [][Installed /\ ~faulty' => Upgraded]_vars
=============================================================================
