------------------------------- MODULE MCReplies -------------------------------
(* Model checking of CameraReplies: the replies that cameras send. *)
EXTENDS CameraReplies

(* Interfaces with and without each of their parts, up to MaxItems          *)
(* addresses in a list, and NTP information with every size of its two      *)
(* lists.  Every GetServices reply, and every set of capabilities, is in    *)
(* ServiceTables itself.                                                    *)
InterfaceParts ==
    {"token", "name", "mac", "ipv4", "ipv6", "local4", "dhcp4",
     "manual4", "manual6", "local6", "ra6", "dhcp6"}

SomeInterfaces ==
    {[p \in InterfaceParts |->
        CASE p = "token" -> 1
          [] p \in {"name", "mac"} -> info
          [] p = "ipv4" -> v4
          [] p = "manual4" -> v4 * manual4
          [] p \in {"local4", "dhcp4"} -> v4 * info
          [] p = "ipv6" -> v6
          [] p = "manual6" -> v6 * manual6
          [] p \in {"local6", "ra6"} -> v6 * info
          [] p = "dhcp6" -> v6 * (1 - info)]
     : info \in 0..1, v4 \in 0..1, v6 \in 0..1,
       manual4 \in 0..MaxItems, manual6 \in 0..MaxItems}

EveryNtp == [{"dhcp_hosts", "manual_hosts"} -> 0..MaxItems]

(* One scope with every value of up to four of seven bytes, and lists of up *)
(* to three scopes whose values are empty, cut by a NUL, or plain.          *)
Bytes == {37, 43, 48, 56, 65, 97, 103}

SomeKeys == {"name", "hardware"}

Item(kind, key, value) == [kind |-> kind, key |-> key, value |-> value]

Items ==
    {Item("scope", k, v) : k \in SomeKeys,
                           v \in {<<>>, <<97>>, <<97, 37, 48, 48, 97>>}}
        \cup {Item("null", "name", <<>>), Item("other", "name", <<97>>)}

SomeReplies ==
    {<<Item("scope", "name", v)>> : v \in UNION {[1..n -> Bytes] : n \in 0..4}}
        \cup UNION {[1..n -> Items] : n \in 0..3}

(* Entries of a message that are devices and that are not. *)
Match(x, t, l) == [xaddrs |-> x, types |-> t, lines |-> l]

SomeEntries ==
    {Match(2, TRUE, <<1, 0, 2>>), Match(0, TRUE, <<>>), Match(1, FALSE, <<1>>),
     Match(-1, TRUE, <<>>)}
================================================================================
