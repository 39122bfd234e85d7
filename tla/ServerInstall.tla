---------------------------- MODULE ServerInstall ----------------------------
(***************************************************************************)
(* `openyak server install` (openyak-cli/src/main.rs) stages a service     *)
(* bundle file by file: the old bundle is removed, then launcher, service  *)
(* files, manifest and README are written. `openyak server status` and     *)
(* `doctor` inspect the bundle at any moment, and must not take one that   *)
(* was interrupted, or mixed from two installs, for a good one.            *)
(***************************************************************************)
EXTENDS Naturals, Sequences, FiniteSets

CONSTANTS Installers,   \* processes that run `server install`
          Binds,        \* addresses to be installed
          Platforms,    \* of "systemd_user", "launchd_agent", "windows_task_scheduler"
          MaxInstalls   \* bound on the installs begun

VARIABLES platform,     \* service manager of this build
          bundle,       \* file -> [bind, whole] it was written with
          install,      \* installer -> the install it is in, or Idle
          overlapped,   \* two installs have run at the same time
          begun         \* number of installs begun

installVars == <<platform, bundle, install, overlapped, begun>>

(* stage_thread_server_*_bundle: the files in the order they are written.  *)
Artifacts(p) ==
  CASE p = "systemd_user" -> <<"launcher", "unit">>
    [] p = "launchd_agent" -> <<"launcher", "plist">>
    [] OTHER -> <<"launcher", "register", "unregister">>

(* The label a bundle carries: systemd's has the suffix of the unit file.  *)
staged_service_label(p) == IF p = "systemd_user" THEN "label.service" ELSE "label"

(* thread_server_install_*_bundle_contract: what the inspection expects.   *)
contract(p) ==
  [required |-> CASE p = "systemd_user" -> {"README", "launcher", "unit"}
                  [] p = "launchd_agent" -> {"README", "launcher", "plist"}
                  [] OTHER -> {"README", "launcher", "register", "unregister"},
   label |-> IF p = "systemd_user" THEN "label.service" ELSE "label"]

(* install_thread_server_bundle_for writes the manifest behind everything  *)
(* that must be whole, and the README behind the manifest.                 *)
Order(p) == Artifacts(p) \o <<"manifest", "README">>

Files(p) == {Order(p)[i] : i \in DOMAIN Order(p)}

IdleInstaller == [at |-> 0]

InstallInit ==
  /\ platform \in Platforms
  /\ bundle = <<>>
  /\ install = [i \in Installers |-> IdleInstaller]
  /\ overlapped = FALSE
  /\ begun = 0

Put(f, v) == [g \in DOMAIN bundle \cup {f} |-> IF g = f THEN v ELSE bundle[g]]

\* Mutant: a new install leaves the old bundle where it is.
begin_over_old(i) ==
  /\ install[i].at = 0 /\ begun < MaxInstalls
  /\ begun' = begun + 1
  /\ \E b \in Binds : install' = [install EXCEPT ![i] = [at |-> 1, bind |-> b, open |-> FALSE]]
  /\ overlapped' = (overlapped \/ \E j \in Installers \ {i} : install[j].at # 0)
  /\ UNCHANGED <<platform, bundle>>

(* clear_existing_thread_server_install_root                               *)
begin(i) ==
  /\ install[i].at = 0 /\ begun < MaxInstalls
  /\ begun' = begun + 1
  /\ \E b \in Binds : install' = [install EXCEPT ![i] = [at |-> 1, bind |-> b, open |-> FALSE]]
  /\ overlapped' = (overlapped \/ \E j \in Installers \ {i} : install[j].at # 0)
  /\ bundle' = <<>>
  /\ UNCHANGED platform

(* fs::write: the file is truncated, then filled.                          *)
open_file(i) ==
  /\ install[i].at # 0 /\ ~install[i].open
  /\ bundle' = Put(Order(platform)[install[i].at], [bind |-> install[i].bind, whole |-> FALSE])
  /\ install' = [install EXCEPT ![i].open = TRUE]
  /\ UNCHANGED <<platform, overlapped, begun>>

fill_file(i) ==
  /\ install[i].at # 0 /\ install[i].open
  /\ LET f == Order(platform)[install[i].at]
         last == install[i].at = Len(Order(platform)) IN
     /\ bundle' = IF f \in DOMAIN bundle
                  THEN Put(f, [bind |-> install[i].bind, whole |-> TRUE]) ELSE bundle
     /\ install' = [install EXCEPT ![i] = IF last THEN IdleInstaller
                                          ELSE [at |-> install[i].at + 1, bind |-> install[i].bind,
                                                open |-> FALSE]]
  /\ UNCHANGED <<platform, overlapped, begun>>

(* The process dies, or a write fails and the install ends there.          *)
interrupt(i) ==
  /\ install[i].at # 0
  /\ install' = [install EXCEPT ![i] = IdleInstaller]
  /\ UNCHANGED <<platform, bundle, overlapped, begun>>

InstallNext ==
  \E i \in Installers : begin(i) \/ open_file(i) \/ fill_file(i) \/ interrupt(i)

InstallSpec == InstallInit /\ [][InstallNext]_installVars

-----------------------------------------------------------------------------
(* validate_thread_server_install_bundle_artifacts: every required file is *)
(* there and the launcher's text has the manifest's address.               *)
validate_artifacts ==
  /\ contract(platform).required \subseteq DOMAIN bundle
  /\ bundle["launcher"].whole
  /\ bundle["launcher"].bind = bundle["manifest"].bind

(* parse_thread_server_install_bundle_status: the manifest's fields are    *)
(* compared with the contract; the label stands for all of them.           *)
parse_status ==
  /\ staged_service_label(platform) = contract(platform).label
  /\ validate_artifacts

(* inspect_thread_server_install_for                                       *)
inspect ==
  CASE "manifest" \notin DOMAIN bundle -> "missing"
    [] ~bundle["manifest"].whole -> "invalid"
    [] OTHER -> IF parse_status THEN "present" ELSE "invalid"

Busy == \E i \in Installers : install[i].at # 0

(* A bundle that status and doctor show as staged starts the server it     *)
(* says: launcher and manifest are whole and of one address. Unless two    *)
(* installs ran at once, every service file is whole too, of the same      *)
(* install, however the install ended: the manifest is the commit point.   *)
StagedIsUsable ==
  inspect = "present" =>
    /\ bundle["launcher"].whole /\ bundle["manifest"].whole
    /\ bundle["launcher"].bind = bundle["manifest"].bind
    /\ ~overlapped => \A f \in Files(platform) \ {"README"} :
                        f \in DOMAIN bundle /\ bundle[f] = bundle["manifest"]

(* What an undisturbed install leaves is recognised: when nobody is        *)
(* installing and every file is whole and of one address, the inspection   *)
(* finds the bundle, on every platform.                                    *)
InstalledIsRecognised ==
  (~Busy /\ Files(platform) \subseteq DOMAIN bundle
     /\ \A f \in Files(platform) : bundle[f] = [bind |-> bundle["manifest"].bind, whole |-> TRUE])
    => inspect = "present"

(* A bundle never says it is staged while an install that nobody disturbs  *)
(* has not written its README.                                             *)
NotStagedEarly ==
  (inspect = "present" /\ ~overlapped /\ Busy) =>
    \A i \in Installers : install[i].at # 0 => Order(platform)[install[i].at] = "README" /\ install[i].open
=============================================================================
