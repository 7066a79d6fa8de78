---------------------------- MODULE Distribution ----------------------------
(***************************************************************************)
(* What the node installer does differently from one Kubernetes            *)
(* distribution to the next: where it finds containerd's configuration     *)
(* (cmd/node-installer, root.go and detect.go), how it prepares the file   *)
(* (internal/preset) and what it restarts (internal/containerd).           *)
(*                                                                         *)
(* Everything here is a function of a host, a record with                  *)
(*   files     the configuration files that exist                          *)
(*   version   of those files, 2 or 3                                      *)
(*   systemd   whether systemctl lists units; units, that list             *)
(*   procs     how many containerd processes there are                     *)
(*   managers  the package managers installed                              *)
(*   flag, env, file   the runtime config path given on the command line,  *)
(*             in RCM_RUNTIME_CONFIG and in the file rcm; "" for none      *)
(***************************************************************************)
EXTENDS Naturals, Sequences, FiniteSetsExt, TLC

------------------------------------------------------------------------------
(* internal/preset.  Setup is "none", "copy" (the base config becomes the   *)
(* template) or "create" (an empty file).                                   *)

defaultContainerdConfigLocation == "/etc/containerd/config.toml"

Default == [ConfigPath |-> defaultContainerdConfigLocation, Setup |-> "none",
            Restarter |-> "default"]

WithConfigPath(settings, path) == [settings EXCEPT !.ConfigPath = path]
WithSetup(settings, setup) == [settings EXCEPT !.Setup = setup]
WithRestarter(settings, restarter) == [settings EXCEPT !.Restarter = restarter]

MicroK8sPath == "/var/snap/microk8s/current/args/containerd-template.toml"
RKE2Path == "/var/lib/rancher/rke2/agent/etc/containerd/config.toml"
RKE2Tmpl == "/var/lib/rancher/rke2/agent/etc/containerd/config.toml.tmpl"
K3sPath == "/var/lib/rancher/k3s/agent/etc/containerd/config.toml"
K3sTmpl == "/var/lib/rancher/k3s/agent/etc/containerd/config.toml.tmpl"
K0sPath == "/etc/k0s/containerd.toml"
K0sDropIn == "/etc/k0s/containerd.d/config.toml"

MicroK8s == WithRestarter(WithConfigPath(Default, MicroK8sPath), "microk8s")
RKE2 == WithSetup(WithRestarter(WithConfigPath(Default, RKE2Tmpl), "rke2"),
                  "copy")
K3s == WithRestarter(WithConfigPath(RKE2, K3sTmpl), "k3s")

\* K0s with the Restarter of Default.
K0sDefaultRestarter == WithSetup(WithConfigPath(Default, K0sDropIn), "create")

K0s == WithSetup(WithRestarter(WithConfigPath(Default, K0sDropIn), "k0s"),
                 "create")

\* strings.CutSuffix(path, ".tmpl")
CutTmpl == [path \in {RKE2Tmpl, K3sTmpl} |->
              IF path = RKE2Tmpl THEN RKE2Path ELSE K3sPath]

------------------------------------------------------------------------------
(* cmd/node-installer, root.go and detect.go.                               *)

\* A flag that was given stands; else the environment goes before the file.
bindFlags(h) == IF h.flag # "" THEN h.flag
                ELSE IF h.env # "" THEN h.env ELSE h.file

containerdConfigLocations ==
  [path \in {MicroK8sPath, RKE2Path, K3sPath, K0sPath} |->
     CASE path = MicroK8sPath -> MicroK8s
       [] path = RKE2Path     -> RKE2
       [] path = K3sPath      -> K3s
       [] path = K0sPath      -> K0s]

\* The settings the search may end with, none when it ends with an error.  It
\* goes through a Go map: of several locations that exist, any may come first.
DetectDistro(h) ==
  LET path == bindFlags(h)
      found == DOMAIN containerdConfigLocations \cap h.files IN
  IF path \in DOMAIN containerdConfigLocations
  THEN {containerdConfigLocations[path]}
  ELSE IF path # "" THEN {WithConfigPath(Default, path)}
  ELSE IF found # {} THEN {containerdConfigLocations[loc] : loc \in found}
  ELSE IF defaultContainerdConfigLocation \in h.files THEN {Default}
  ELSE {}

------------------------------------------------------------------------------
(* internal/containerd: Restarters and D-Bus.  A Restarter gives the name   *)
(* of what it restarts, "" when it returns an error.                        *)

RestartUnit(h, unit) ==
  IF h.systemd /\ \E i \in DOMAIN h.units : h.units[i] = unit THEN unit ELSE ""

\* regexp FindString in the list of units; "" when there is no match.
FindString(h, names) ==
  LET hits == {i \in DOMAIN h.units : h.units[i] \in names} IN
  IF hits = {} THEN "" ELSE h.units[Min(hits)]

DefaultRestart(h) ==
  IF h.systemd THEN RestartUnit(h, "containerd")
  ELSE IF h.procs = 1 THEN "containerd process" ELSE ""

K0sRestart(h) == RestartUnit(h, FindString(h, {"k0sworker", "k0scontroller"}))
RKE2Restart(h) == RestartUnit(h, FindString(h, {"rke2-agent", "rke2-server"}))
K3sRestart(h) == IF h.systemd THEN RestartUnit(h, "k3s") ELSE "PID 1"
MicroK8sRestart(h) == RestartUnit(h, "snap.microk8s.daemon-containerd")

Restart(h, restarter) ==
  CASE restarter = "default"  -> DefaultRestart(h)
    [] restarter = "k0s"      -> K0sRestart(h)
    [] restarter = "k3s"      -> K3sRestart(h)
    [] restarter = "microk8s" -> MicroK8sRestart(h)
    [] restarter = "rke2"     -> RKE2Restart(h)

\* InstallDbus can put D-Bus on the host.
DbusInstallable(h) == h.managers \cap {"apt-get", "dnf", "apk", "yum"} # {}
=============================================================================
