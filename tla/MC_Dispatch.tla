----------------------------- MODULE MC_Dispatch -----------------------------
(* Two files, a tool that comes with a package of another name, one line    *)
(* for each way through handle, and four configurations.                    *)
EXTENDS Dispatch

Line(verb, form) == [verb |-> verb, form |-> form, path |-> "none", to |-> "none",
                     typed |-> "none", pkg |-> "none"]
On(verb, form, p, typed) == [Line(verb, form) EXCEPT !.path = p, !.typed = typed]
Apt(form, p) == [Line("apt", form) EXCEPT !.pkg = p]

MCLines ==
    {Line("A=1", "assign"), Line("ping", "static"), Line("passwd", "plain"),
     Line("useradd", "plain"), Line("useradd", "bare"), Line("vi", "plain"),
     Line("nano", "plain"),
     Line("find", "canned_find"), Line("ls", "plain"), Line("diff", "plain"),
     Line("nc", "plain"), Line("nc", "version"),
     Line("gibberish", "plain"), Line("cd", "plain")}
    \cup {Apt("apt_install", "netcat"), Apt("apt_remove", "netcat")}
    \cup {On(v, "plain", "f", "absolute") : v \in {"cat", "touch", "rm", "sed", "bash"}}
    \cup {On("./", "plain", "f", "relative")}
    \cup {On(">", "redirect", "f", "absolute"), On("echo", "append", "f", "absolute"),
          On("wget", "fetch", "f", "relative"), On("curl", "fetch_o", "f", "relative"),
          On("mkdir", "plain", "f", "absolute"),
          [On("mv", "plain", "g", "absolute") EXCEPT !.to = "f"]}

\* config.yaml as it is shipped, without the cloud and with every band to
\* Cowrie, without a model, and with Cowrie switched off.
Shipped == [f \in 0..4 |-> CASE f = 0 -> "cowrie" [] f \in {1, 2} -> "on_device"
                             [] OTHER -> "cloud"]
MCConfigs ==
    {[enabled |-> Agents, routing |-> Shipped, validate |-> "on"],
     [enabled |-> {"cowrie", "on_device"}, routing |-> [f \in 0..4 |-> "cowrie"],
      validate |-> "off"],
     [enabled |-> {"cowrie"}, routing |-> Shipped, validate |-> "on"],
     [enabled |-> {"on_device", "cloud"}, routing |-> Shipped, validate |-> "on"]}

MCBase == {"cat", "touch", "rm", "sed", "bash", "mv", "ls", "echo", "mkdir", "vi", "cd",
           "find", "diff", "passwd", "useradd"}
MCProvider == [t \in {"nc"} |-> "netcat"]
MCCanonical == [p \in {"netcat", "wget"} |-> p]

ASSUME ShippedBox == HasFileTools
=============================================================================
