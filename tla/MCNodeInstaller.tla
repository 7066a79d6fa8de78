-------------------------- MODULE MCNodeInstaller ---------------------------
(* Instances of NodeInstaller for TLC: the scenes.                          *)
EXTENDS NodeInstaller

\* No shim's name occurs in that of another.
OwnNames == {<<s, s>> : s \in Shims}

\* The specification treats all shims alike.
Symmetric == Permutations(Shims)

------------------------------------------------------------------------------
(* Hosts.                                                                   *)

DefaultPath == defaultContainerdConfigLocation

\* containerd from a package, next to a kubelet.
PlainHost == [files |-> {DefaultPath}, version |-> 2,
              systemd |-> TRUE, units |-> <<"containerd", "kubelet">>, procs |-> 1,
              managers |-> {"apt-get"}, flag |-> "", env |-> "", file |-> ""]

\* The same without systemd.
BareHost == [PlainHost EXCEPT !.systemd = FALSE, !.units = <<>>]

\* Without systemd and with two containerds.
CrowdedHost == [BareHost EXCEPT !.procs = 2]

MicroK8sHost == [PlainHost EXCEPT !.files = {MicroK8sPath},
                   !.units = <<"snap.microk8s.daemon-containerd">>]

\* A distribution's own file next to the default one.
K3sHost == [PlainHost EXCEPT !.files = {K3sPath, DefaultPath},
              !.version = 3, !.units = <<"containerd", "k3s">>]
K3sReadyHost == [K3sHost EXCEPT !.files = @ \cup {K3sTmpl}]
K3dHost == [BareHost EXCEPT !.files = {K3sPath}]

\* A K3s agent, whose unit has another name than the Restarter's.
K3sAgentHost == [K3sHost EXCEPT !.units = <<"k3s-agent">>]
RKE2Host == [PlainHost EXCEPT !.files = {RKE2Path}, !.version = 3,
               !.units = <<"rke2-server">>, !.managers = {"yum"}]
K0sHost == [PlainHost EXCEPT !.files = {K0sPath, DefaultPath},
              !.units = <<"containerd", "k0sworker">>]

\* The path is given, and the file there is none of the known ones.
GivenPathHost == [PlainHost EXCEPT !.files = {"/etc/containerd/other.toml"},
                    !.env = "/etc/containerd/other.toml", !.file = K3sPath]

\* The path is given, and there is no such file.
GivenMissingHost == [PlainHost EXCEPT !.file = "/etc/containerd/other.toml"]
GivenK3sHost == [PlainHost EXCEPT !.flag = K3sPath, !.env = DefaultPath]
UnknownHost == [PlainHost EXCEPT !.files = {}]
NoManagerHost == [PlainHost EXCEPT !.managers = {}]

------------------------------------------------------------------------------
(* Scenes.                                                                  *)

Pinned(v) == [content |-> v, sha256 |-> v]
Loose(v) == [content |-> v, sha256 |-> NoDigest]

\* One Job after the other.
InTurn(host, kubelet, reads) ==
  [host |-> host, dbus |-> TRUE, kubelet |-> kubelet, reads |-> reads,
   overlap |-> {}, artifacts |-> {Pinned("v1")}, options |-> {{"a"}},
   jobs |-> 3, faults |-> 2]

\* The same while the Shims are edited.
Edited(host, kubelet, reads) ==
  [InTurn(host, kubelet, reads) EXCEPT !.options = {{"a"}, {"b"}},
     !.artifacts = {Pinned("v1"), Loose("v2")}]

\* Installers of two shims next to each other.
SideBySide(host, kubelet, reads) ==
  [InTurn(host, kubelet, reads) EXCEPT !.overlap = {"install"},
     !.artifacts = {Loose("v1")}, !.options = {{}}]

AllScenes ==
  {SideBySide(PlainHost, "containerd", DefaultPath),
   InTurn(BareHost, "containerd process", DefaultPath),
   InTurn(CrowdedHost, "containerd process", DefaultPath),
   InTurn(MicroK8sHost, "snap.microk8s.daemon-containerd", MicroK8sPath),
   Edited(K3sHost, "k3s", K3sTmpl),
   [SideBySide(K3sReadyHost, "k3s", K3sTmpl) EXCEPT !.faults = 1],
   InTurn(K3dHost, "PID 1", K3sTmpl),
   InTurn(K3sAgentHost, "k3s-agent", K3sTmpl),
   [InTurn(RKE2Host, "rke2-server", RKE2Tmpl) EXCEPT !.dbus = FALSE],
   InTurn(K0sHost, "k0sworker", K0sDropIn),
   InTurn(GivenPathHost, "containerd", "/etc/containerd/other.toml"),
   InTurn(GivenMissingHost, "containerd", DefaultPath),
   InTurn(GivenK3sHost, "containerd", DefaultPath),
   InTurn(UnknownHost, "containerd", DefaultPath),
   [InTurn(NoManagerHost, "containerd", DefaultPath) EXCEPT !.dbus = FALSE]}

\* Nothing fails.
QuietScenes == {[SideBySide(PlainHost, "containerd", DefaultPath)
                   EXCEPT !.faults = 0]}

\* One Job that is interrupted once.
OneJobScenes == {[InTurn(PlainHost, "containerd", DefaultPath)
                    EXCEPT !.jobs = 1, !.faults = 1]}

\* The scenes have what the properties rest on.
ASSUME ScenesFit == Fit /\ OneOption /\ FitService
=============================================================================
