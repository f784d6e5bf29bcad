------------------------------ MODULE MCPolling -----------------------------
\* Every collector of the model, with up to two troubles at a time.  For the two
\* with the most requests and parts it is one trouble, of those on one of two
\* nodes or agents that are alike, or two in a listing with room for one.
EXTENDS Polling

SmallLab ==
  [nodes |-> {"n1", "n2"}, guests |-> {"web"}, templates |-> {"template"}, critical |-> {"web", "vm"},
   stores |-> {"local"}, shared |-> {"nfs"}, disks |-> {"sda"},
   tasks |-> {"vzdump", "migrate"}, age |-> [t \in {"vzdump", "migrate"} |-> IF t = "vzdump" THEN 5 ELSE 8],
   agents |-> {"a1", "a2"}, rules |-> {"rootkit", "login"},
   place |-> [x \in {"rootkit", "login"} |-> IF x = "login" THEN 1 ELSE 2],
   outposts |-> {"k1", "k2"}, indexes |-> {"main"},
   devices |-> {"ap", "switch"}, watched |-> {"ap"}, subsystems |-> {"lan", "wlan"}, targets |-> {"vm", "nas"},
   tunnels |-> {"t1", "t2"}, names |-> {"x", "y"}, mounts |-> {"root", "nas"}, urls |-> {"x"}, ports |-> {"y"},
   hosts |-> {"x", "y"}]

UpTo(n, c) == UNION {kSubset(k, {p[1] : p \in Possible(c)}) : k \in 0..n}

Combinations ==
  [c \in Registered |->
     CASE c = "proxmox" ->
            {{}, {<<"pve", "node", "n1">>}, {<<"pve", "guest", "web">>}, {<<"pve", "store", "local", "n1">>},
             {<<"pve", "store", "nfs">>}, {<<"pve", "disk", "n1", "sda">>}, {<<"pve", "task", "n2", "vzdump">>},
             {<<"pve", "task", "n1", "migrate">>}, {<<"pve", "task", "n1", t>> : t \in SmallLab.tasks}}
       [] c = "wazuh"   ->
            {{}, {<<"wazuh", "agent", "a1">>}, {<<"wazuh", "manager">>}, {<<"wazuh", "rule", "rootkit">>},
             {<<"wazuh", "rule", x>> : x \in SmallLab.rules}}
       [] OTHER         -> UpTo(2, c)]

\* The collector whose parts are not all declared when unread.
UndeclaredKeys == {"authentik"}
=============================================================================
