-------------------------- MODULE MCInstallTransaction --------------------------
(* Small instances of InstallTransaction: two configs, two releases. *)
EXTENDS InstallTransaction

TwoConfigs == <<"tmux.conf", "opencode.json">>
OpenCode == {"opencode.json"}
AnyOfThem == SUBSET ConfigNames \ {{}}
Some == [command |-> 3, crash |-> 2, error |-> 1, edit |-> 1]
Crashes == [command |-> 3, crash |-> 1, error |-> 0, edit |-> 0]
=============================================================================
