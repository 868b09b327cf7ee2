----------------------------- MODULE Interfaces -----------------------------
(***************************************************************************)
(* The interface list of commotiond (src/iface.c), the node id (src/id.c)  *)
(* and the commands that work on them (src/daemon.c: up, down, status,     *)
(* state, nodeid, genip, and set, new, delete for the profiles in use), in *)
(* the build for a system without OpenWrt.                                 *)
(*                                                                         *)
(* The kernel and wpa_supplicant are external: what an interface is set to *)
(* and the networks the supplicant knows.  A command is one step of the    *)
(* single-threaded daemon; `reply` is the answer to the last one.          *)
(***************************************************************************)
EXTENDS Addresses, SequencesExt, FiniteSets

CONSTANTS
    Names,      \* interface names used in commands
    Devices,    \* those of them the kernel's ioctls succeed on
    Wireless,   \* the devices with wireless extensions and a supplicant
    Mac,        \* the MAC address of each device
    Profiles,   \* profile name -> its settings at the start: type, ipgen, ip, ipgenmask
    Defaults,   \* the settings of a profile the schema has just filled in
    Edits,      \* the settings the set command can lead to
    NodeIds,    \* the arguments of the nodeid command
    Polite,     \* callers bring up only what status reports as down
    MaxIfaces,  \* bound on the length of the list
    MaxNets,    \* bound on the networks of a supplicant
    Down, NULL

\* What up and state read of a profile.  Values are strings nobody looks at
\* before they are used; here an address is one that can be parsed.
Settings ==
    [type : {"mesh", "ap", "plug", "client"}, ipgen : BOOLEAN, ip : Quad, ipgenmask : Quad]

\* What is assumed of the constants.
InterfacesAssumption ==
    /\ Wireless \subseteq Devices /\ Devices \subseteq Names
    /\ Polite \in BOOLEAN
    /\ MaxIfaces \in Nat /\ MaxNets \in Nat
    /\ NULL \notin DOMAIN Profiles
    /\ Profiles \in [DOMAIN Profiles -> Settings]
    /\ Defaults \in Settings /\ Edits \subseteq Settings /\ NULL \notin Settings
    /\ Mac \in [Devices -> [1..6 -> Byte]]
    /\ NodeIds \subseteq Quad

VARIABLES
    ifaces,     \* the list: name, profile, whether it has a control connection
    nodeid,     \* co_id_get()
    profiles,   \* the settings of each profile, NULL when there is none of the name
    address,    \* kernel: Down or the address the daemon set each device up with
    applied,    \* the profile that address is of, NULL when there is none
    networks,   \* wpa_supplicant: the number of networks of each device
    reply       \* the last command, its interface or arguments, and its answer

vars == <<ifaces, nodeid, profiles, address, applied, networks, reply>>

Entry == [name : Names, profile : DOMAIN Profiles \cup {NULL}, ctrl : BOOLEAN]
Zero == <<0, 0, 0, 0>>

TypeOK ==
    /\ ifaces \in Seq(Entry) /\ Len(ifaces) <= MaxIfaces
    /\ nodeid \in Quad
    /\ profiles \in [DOMAIN Profiles -> Settings \cup {NULL}]
    /\ address \in [Devices -> Quad \cup {Down}]
    /\ applied \in [Devices -> DOMAIN Profiles \cup {NULL}]
    /\ networks \in [Wireless -> 0..MaxNets]

-----------------------------------------------------------------------------
(* The list.                                                               *)

\* _co_iface_match_i: the first entry with the name, 0 if there is none.
Position(list, name) ==
    SelectInSeq(list, LAMBDA e : e.name = name)

\* co_iface_profile, which status and state ask.
co_iface_profile(name) ==
    IF Position(ifaces, name) = 0 THEN NULL ELSE ifaces[Position(ifaces, name)].profile

\* co_iface_remove: the first entry leaves the list, and the device is taken
\* down.  DISABLE_NETWORK and REMOVE_NETWORK are sent without a number, and
\* the supplicant keeps its networks.  The socket of the entry stays open.
\* Nothing happens when there is no entry.
RemoveFrom(list, name) ==
    LET i == Position(list, name)
    IN  IF i = 0 THEN list ELSE RemoveAt(list, i)

TakeDown(name) ==
    /\ address' = IF name \in Devices THEN [address EXCEPT ![name] = Down] ELSE address
    /\ applied' = IF name \in Devices THEN [applied EXCEPT ![name] = NULL] ELSE applied
    /\ UNCHANGED networks

-----------------------------------------------------------------------------
(* Commands.                                                               *)

\* The node id after an up: taken from the device when there is none.
IdAfterUp(name) ==
    IF nodeid = Zero /\ name \in Devices THEN co_id_set_from_mac(Mac[name]) ELSE nodeid

\* The address up sets: generated with type 0, or the empty string, which
\* leaves zeros in the request.
AddressFor(p, id) ==
    IF profiles[p].ipgen
    THEN co_generate_ip(profiles[p].ip, profiles[p].ipgenmask, id, FALSE)
    ELSE Zero

\* co_iface_set_ip: a device gets the address and goes up.
SetIp(name, p) ==
    /\ name \in Devices \ Wireless
    /\ address' = [address EXCEPT ![name] = AddressFor(p, nodeid')]
    /\ applied' = [applied EXCEPT ![name] = p]

\* One of its ioctls fails, and nobody looks.  On a name that is no device all
\* of them do.  On a wireless one the first does: the test for wireless
\* extensions wrote a protocol name over the address family of the request.
SetIpFails == UNCHANGED <<address, applied>>

\* co_iface_add, then the profile's settings.  wpa_connect and the first
\* SET_NETWORK add a network to the supplicant.
UpSucceeds(name, p) ==
    /\ profiles[p] # NULL
    /\ name \in Wireless => networks[name] < MaxNets
    /\ ifaces' = Append(ifaces, [name |-> name, profile |-> p, ctrl |-> name \in Wireless])
    /\ nodeid' = IdAfterUp(name)
    /\ SetIp(name, p) \/ SetIpFails
    /\ networks' = IF name \in Wireless THEN [networks EXCEPT ![name] = @ + 1] ELSE networks
    /\ reply' = <<"up", name, "up">>
    /\ UNCHANGED profiles

\* Mutant: the error path leaves the list alone.
UpFailsLeavesEntry(name, p) ==
    /\ profiles[p] = NULL
    /\ ifaces' = Append(ifaces, [name |-> name, profile |-> NULL, ctrl |-> FALSE])
    /\ nodeid' = IdAfterUp(name)
    /\ UNCHANGED <<address, applied, networks, profiles>>
    /\ reply' = <<"up", name, "error">>

\* The error path removes an entry of that name, which is the one just added
\* only if there is no other.
UpFails(name, p) ==
    /\ profiles[p] = NULL
    /\ ifaces' = RemoveFrom(Append(ifaces, [name |-> name, profile |-> NULL, ctrl |-> FALSE]), name)
    /\ nodeid' = IdAfterUp(name)
    /\ TakeDown(name)
    /\ reply' = <<"up", name, "error">>
    /\ UNCHANGED profiles

CMD_up(name, p) ==
    /\ Len(ifaces) < MaxIfaces
    /\ Polite => co_iface_profile(name) = NULL
    /\ UpSucceeds(name, p) \/ UpFails(name, p)

\* Mutant: the entry goes, the device stays up.
DownForgets(name) ==
    /\ ifaces' = RemoveFrom(ifaces, name)
    /\ reply' = <<"down", name, "down">>
    /\ UNCHANGED <<nodeid, profiles, address, applied, networks>>

CMD_down(name) ==
    /\ IF Position(ifaces, name) = 0
       THEN /\ reply' = <<"down", name, "error">>
            /\ UNCHANGED <<ifaces, address, applied, networks>>
       ELSE /\ ifaces' = RemoveFrom(ifaces, name)
            /\ TakeDown(name)
            /\ reply' = <<"down", name, "down">>
    /\ UNCHANGED <<nodeid, profiles>>

CMD_status(name) ==
    /\ reply' = <<"status", name, co_iface_profile(name)>>
    /\ UNCHANGED <<ifaces, nodeid, profiles, address, applied, networks>>

\* The type that state, and only state, takes into account.
IsGateway(p) == profiles[p].type \in {"ap", "plug"}

\* The property ip: generated again, or the profile's.
StateIp(p) ==
    IF profiles[p].ipgen
    THEN co_generate_ip(profiles[p].ip, profiles[p].ipgenmask, nodeid, IsGateway(p))
    ELSE profiles[p].ip

\* The profile is looked up by name as it is now.  Without an active profile
\* that exists the answer is an error (NULL).
CMD_state(name) ==
    LET p == co_iface_profile(name)
    IN  /\ reply' = <<"state", name, IF p = NULL \/ profiles[p] = NULL THEN NULL ELSE StateIp(p)>>
        /\ UNCHANGED <<ifaces, nodeid, profiles, address, applied, networks>>

\* nodeid <n> and nodeid mac <address>; without a parameter it only answers.
CMD_nodeid(id) ==
    /\ nodeid' = id
    /\ reply' = <<"nodeid", NULL, id>>
    /\ UNCHANGED <<ifaces, profiles, address, applied, networks>>

CMD_genip(subnet, netmask, gw) ==
    /\ reply' = <<"genip", <<subnet, netmask>>, co_generate_ip(subnet, netmask, nodeid, gw)>>
    /\ UNCHANGED <<ifaces, nodeid, profiles, address, applied, networks>>

\* The commands set, new and delete of module Profiles, seen from here: they
\* ask nobody whether an interface uses the profile.
OneKeyApart(s, t) == \E key \in DOMAIN s : \A k \in DOMAIN s \ {key} : s[k] = t[k]

CMD_set(p, settings) ==
    /\ profiles[p] # NULL /\ OneKeyApart(profiles[p], settings)
    /\ profiles' = [profiles EXCEPT ![p] = settings]
    /\ reply' = <<"set", NULL, p>>
    /\ UNCHANGED <<ifaces, nodeid, address, applied, networks>>

ProfileCreated(p) ==
    /\ profiles[p] = NULL
    /\ profiles' = [profiles EXCEPT ![p] = Defaults]
    /\ reply' = <<"new", NULL, p>>
    /\ UNCHANGED <<ifaces, nodeid, address, applied, networks>>

ProfileDeleted(p) ==
    /\ profiles[p] # NULL
    /\ profiles' = [profiles EXCEPT ![p] = NULL]
    /\ reply' = <<"delete", NULL, p>>
    /\ UNCHANGED <<ifaces, nodeid, address, applied, networks>>

Init ==
    /\ ifaces = <<>>
    /\ nodeid = Zero
    /\ profiles = Profiles
    /\ address = [n \in Devices |-> Down]
    /\ applied = [n \in Devices |-> NULL]
    /\ networks = [n \in Wireless |-> 0]
    /\ reply = <<"start", NULL, NULL>>

Next ==
    \/ \E name \in Names, p \in DOMAIN Profiles : CMD_up(name, p)
    \/ \E name \in Names : CMD_down(name) \/ CMD_status(name) \/ CMD_state(name)
    \/ \E id \in NodeIds : CMD_nodeid(id)
    \/ \E p \in DOMAIN Profiles, gw \in BOOLEAN :
           CMD_genip(Profiles[p].ip, Profiles[p].ipgenmask, gw)
    \/ \E p \in DOMAIN Profiles :
           \/ ProfileCreated(p) \/ ProfileDeleted(p)
           \/ \E settings \in Edits : CMD_set(p, settings)

Spec == Init /\ [][Next]_vars

-----------------------------------------------------------------------------
(* Properties.                                                             *)

\* A device that is up has an entry with a profile: down can always find it,
\* whatever sequence of successful, failed and repeated ups came before.
UpIsListed ==
    \A n \in Devices : address[n] # Down =>
        \E i \in DOMAIN ifaces : ifaces[i].name = n /\ ifaces[i].profile = applied[n]

\* daemon.c: status shows the "configured profile for interface".  When callers
\* bring up only what status reports as down, a device that is up is never
\* reported as down, nor under another profile than the one its address is of,
\* whatever fails, is undone, edited or deleted in between.  The other way round
\* nothing is promised: status names a profile whose address was refused.
StatusTells ==
    reply[1] = "status" /\ reply[2] \in Devices =>
        (address[reply[2]] # Down => reply[3] # NULL /\ reply[3] = applied[reply[2]])

\* A generated address lies in the subnet it was asked for, and the part of
\* it the mask leaves free never has a byte above 253.
GeneratedFits ==
    reply[1] = "genip" =>
        LET subnet == reply[2][1]
            netmask == reply[2][2]
        IN  /\ And(reply[3], netmask) = And(subnet, netmask)
            /\ \A i \in 1..4 : netmask[i] = 0 => reply[3][i] < 254

=============================================================================
