---------------------------- MODULE NetworkTables ----------------------------
(***************************************************************************)
(* Two response objects that are tables of addresses: the network          *)
(* interfaces (src/src/devicemgmt/onvif_device_interface.c) and the NTP    *)
(* hosts (src/src/devicemgmt/onvif_device_ntp.c), from the reply they are  *)
(* constructed from, through the reads of their getters, to their dispose. *)
(*                                                                         *)
(* A reply is a sequence of entries, and an entry says how many items each *)
(* of its parts has: 0 or 1 where the reply has a pointer.  The memory the *)
(* constructors allocate is one block <<entry, part, item>> per item, and  *)
(* <<entry, part, 0>> for the array of a part.                             *)
(***************************************************************************)
EXTENDS Naturals, FiniteSets

CONSTANTS
    Interfaces,     \* the interfaces a reply may have: a set of entries
    Ntp,            \* the NTP information a reply may have: a set of entries
    MaxEntries,     \* bound: the interfaces of a reply
    MaxItems,       \* bound: the items of a part
    Junk            \* the contents of a slot nobody wrote

Lists4 == {"manual4"}
Lists6 == {"manual6", "local6", "ra6", "dhcp6"}
NtpLists == {"dhcp_hosts", "manual_hosts"}
Lists == Lists4 \cup Lists6 \cup NtpLists
Pointers == {"token", "name", "mac", "ipv4", "ipv6", "local4", "dhcp4"}

Replies ==
    (UNION {[1..n -> Interfaces] : n \in 0..MaxEntries}) \cup {<<e>> : e \in Ntp}

VARIABLES
    reply,      \* the reply
    state,      \* of the object: none, built, disposed
    heap,       \* the blocks allocated and not freed
    table,      \* the slots of its arrays: the block written there, or Junk
    given,      \* what the last getter was asked for, and gave
    undefined   \* a slot nobody wrote, or outside its array, was used

vars == <<reply, state, heap, table, given, undefined>>

Blocks == (1..MaxEntries) \X (Lists \cup Pointers) \X (0..MaxItems)

Count(e, p) ==
    IF e \in DOMAIN reply /\ p \in DOMAIN reply[e] THEN reply[e][p] ELSE 0

Items == {b \in Blocks : b[3] \in 1..Count(b[1], b[2])}
Slots == {b \in Items : b[2] \in Lists}

TypeOK ==
    /\ reply \in Replies
    /\ state \in {"none", "built", "disposed"}
    /\ heap \subseteq Blocks
    /\ table \in [Slots -> Blocks \cup {Junk}]
    /\ given \in (Slots \X (Blocks \cup {Junk})) \cup {<<>>}
    /\ undefined \in BOOLEAN

Init ==
    /\ reply \in Replies
    /\ state = "none" /\ heap = {}
    /\ table = [s \in Slots |-> Junk]
    /\ given = <<>> /\ undefined = FALSE

--------------------------------------------------------------------------------
(* The slot that a constructor's loop writes item i of n to; 0 is outside   *)
(* the array.                                                               *)

(* onvif_device_interface.c:265, manual[manual_count-1] in a loop over a    *)
Slot4(n, i) == n

(* Mutated form: *addresses[ttcount]. *)
Slot6Past(n, i) == 0

(* onvif_device_interface.c:141, *addresses[ttcount-1] is                   *)
(* *(addresses[ttcount-1]): the array for one item, a word behind the       *)
(* pointer to it for more                                                   *)
Slot6(n, i) == IF n = 1 THEN 1 ELSE 0

(* onvif_device_ntp.c:51, *hosts[i] is *(hosts[i]) *)
SlotNtp(n, i) == IF i = 1 THEN 1 ELSE 0

SlotOf(b) ==
    LET n == Count(b[1], b[2])
    IN  CASE b[2] \in Lists4 -> Slot4(n, b[3])
          [] b[2] \in Lists6 -> Slot6(n, b[3])
          [] b[2] \in NtpLists -> SlotNtp(n, b[3])

(* The array of a part is allocated when it has items, an NTP list always.  *)
Arrays ==
    {b \in Blocks :
        /\ b[3] = 0 /\ b[1] \in DOMAIN reply
        /\ b[2] \in Lists \cap DOMAIN reply[b[1]]
        /\ b[2] \in NtpLists \/ Count(b[1], b[2]) > 0}

(* The items written to a slot, of which the last stays. *)
WrittenTo(s) ==
    {b \in Slots : b[1] = s[1] /\ b[2] = s[2] /\ SlotOf(b) = s[3]}

Construct ==
    /\ state = "none" /\ state' = "built"
    /\ heap' = Items \cup Arrays
    /\ table' = [s \in Slots |->
                  IF WrittenTo(s) = {} THEN Junk
                  ELSE CHOOSE b \in WrittenTo(s) :
                           \A c \in WrittenTo(s) : c[3] <= b[3]]
    /\ undefined' = (\E b \in Slots : SlotOf(b) = 0)
    /\ UNCHANGED <<reply, given>>

(* Mutated form: the entries are added at the front. *)
RowReversed(e) == Cardinality(DOMAIN reply) + 1 - e

(* priv->interfaces[count-1] of each entry in turn, lines 66-73 *)
Row(e) == e

(* A getter gives the slot of an entry that its caller asks for, and the    *)
(* caller follows it: a slot nobody wrote leads anywhere.                   *)
Get(s) ==
    /\ state = "built"
    /\ LET slot == <<Row(s[1]), s[2], s[3]>>
       IN  slot \in Slots /\ given' = <<s, table[slot]>>
    /\ undefined' = (given'[2] = Junk)
    /\ UNCHANGED <<reply, state, heap, table>>

(* The getters by index, and those that give the array with its count *)
GetAddress4(s) == s[2] \in Lists4 /\ Get(s)

GetAddress6(s) == s[2] \in Lists6 /\ Get(s)

GetHost(s) == s[2] \in NtpLists /\ Get(s)

Named(b) == \E s \in Slots : table[s] = b

(* What dispose frees: of an interface, *)
FreedOfInterface(b) == b[2] \in {"token", "name", "mac", "ipv4", "ipv6"}

(* Mutated form: the link local address is kept. *)
FreedOfIPv4Kept(b) == b[2] = "dhcp4"

(* of its IPv4 configuration, *)
FreedOfIPv4(b) == b[2] \in {"local4", "dhcp4"}

(* of an address list, whose array is freed without a look at its count,    *)
FreedAddresses(b) == b[2] \in Lists4 \cup Lists6 /\ (b[3] = 0 \/ Named(b))

(* and of an NTP list, when it has hosts *)
FreedHosts(b) ==
    b[2] \in NtpLists /\ Count(b[1], b[2]) > 0 /\ (b[3] = 0 \/ Named(b))

(* dispose follows every slot, that nobody wrote too. *)
Dispose ==
    /\ state = "built" /\ state' = "disposed"
    /\ heap' = {b \in heap : ~(\/ FreedOfInterface(b) \/ FreedOfIPv4(b)
                               \/ FreedAddresses(b) \/ FreedHosts(b))}
    /\ undefined' = (\E s \in Slots : table[s] = Junk)
    /\ UNCHANGED <<reply, table, given>>

Next ==
    /\ ~undefined
    /\ \/ Construct \/ Dispose
       \/ \E s \in Slots : GetAddress4(s) \/ GetAddress6(s) \/ GetHost(s)

Spec == Init /\ [][Next]_vars

--------------------------------------------------------------------------------
(* Properties. *)

Single(e, p) == Count(e, p) <= 1

(* A reply that has no part with more than one address is safe: no getter   *)
(* nor dispose follows a pointer that was not written.  (With more, every   *)
(* list of the two objects is.)                                             *)
SingleAddressesAreSafe ==
    (\A e \in DOMAIN reply, p \in Lists : Single(e, p)) => ~undefined

(* Whatever block a getter gives, it was made of the entry and of the part  *)
(* the caller asked for; with one item, of that item.                       *)
ReadsInOrder ==
    given # <<>> /\ given[2] # Junk =>
        /\ given[2][1] = given[1][1] /\ given[2][2] = given[1][2]
        /\ given[2][3] >= given[1][3]

(* dispose frees everything the constructors allocated, but for the arrays  *)
(* of empty NTP lists: malloc(0) gives a block that no count remembers.     *)
DisposeFrees ==
    state = "disposed" /\ ~undefined =>
        heap = {b \in Arrays : b[2] \in NtpLists /\ Count(b[1], b[2]) = 0}

(* The two objects, from reply to dispose: what they hold, what of it is    *)
(* safe to follow, whose it is, and that nothing of it stays.               *)
TablesSound == TypeOK /\ SingleAddressesAreSafe /\ ReadsInOrder /\ DisposeFrees

(* client-test.c:365-367, for(i=0;i<get_manual_count(v4);i++): each index   *)
(* below the count has an address.                                          *)
EveryManualReadable ==
    given # <<>> /\ given[1][2] \in Lists4 => given[2] # Junk
================================================================================
