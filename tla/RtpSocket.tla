------------------------------ MODULE RtpSocket ------------------------------
(***************************************************************************)
(* The sockets of src/rtp/rtp_socket.c and the descriptors behind them.    *)
(* The system's table of descriptors is shared: several sockets, and       *)
(* others that know nothing of them, open and close files in it, and a     *)
(* number that was closed is given to the next who asks.                   *)
(*                                                                         *)
(* The caller opens a socket only if it is not open; it may close one at   *)
(* any time, also one whose opening failed.                                *)
(***************************************************************************)
EXTENDS Integers, Sequences, FiniteSets

CONSTANTS Sock,        \* sockets
          MaxFd,       \* largest descriptor
          Interfaces,  \* what getifaddrs lists: name, index, family, and usable if it
                       \* is neither a loopback nor point to point
          Stranger     \* the owner of all other files

ASSUME SocketAssumption == MaxFd \in Nat /\ Stranger \notin Sock /\ "none" \notin Sock

VARIABLES files,   \* descriptor -> owner and memberships of the open file, or Closed
          socks,   \* the rtp_socket_t of each socket
          status,  \* history: "new", "closed", "failed", or open as "sender" or "receiver"
          stray    \* history: a socket was closed after its opening had failed

sockVars == <<files, socks, status, stray>>

Closed == [owner |-> "none", groups |-> {}]
Address == [family : {"inet", "inet6"}, multicast : BOOLEAN]
NoAddress == [family |-> "none", multicast |-> FALSE]
Names == {Interfaces[i].name : i \in DOMAIN Interfaces}

\* What memset leaves.
Zeroed == [fd |-> 0, joined |-> FALSE, if_index |-> 0, dest |-> NoAddress, src |-> "any"]

Open(s) == status[s] \in {"sender", "receiver"}

FreeFds == {d \in 0..MaxFd : files[d] = Closed}
Lowest(d) == d \in FreeFds /\ \A other \in FreeFds : d <= other

-----------------------------------------------------------------------------
\* _choose_best_interface: the first of the family that is usable and runs
Best(family, running) ==
  {Interfaces[i].name : i \in
     {i \in DOMAIN Interfaces :
        LET Fits(j) == /\ Interfaces[j].family = family /\ Interfaces[j].usable
                       /\ Interfaces[j].name \in running
        IN  Fits(i) /\ \A j \in 1 .. i - 1 : ~Fits(j)}}

\* Mutant: an address of another family is taken.
AddressOfAny(name, family) == IF name \in Names THEN name ELSE "any"

\* _get_interface_address: the interface whose address it is
AddressOf(name, family) ==
  IF \E i \in DOMAIN Interfaces : Interfaces[i].name = name /\ Interfaces[i].family = family
  THEN name ELSE "any"

IndexOf(name) == {Interfaces[i].index : i \in {i \in DOMAIN Interfaces : Interfaces[i].name = name}}

\* _lookup_interface: the index and source address it leaves; "" is no name given, and
\* if_nametoindex may fail.  Nobody asks what it returned.
Lookup(family, ifname, running) ==
  LET named == IF ifname = "" THEN Best(family, running) ELSE {ifname}
  IN  IF named \intersect Names = {} THEN {<<0, "any">>}
      ELSE UNION {{<<index, AddressOf(name, family)>> : index \in IndexOf(name) \union {0}} :
                  name \in named}

\* _set_imr: an IPv4 group is joined by the interface's address, an IPv6 one by its index
Imr(sock) == <<sock.dest, IF sock.dest.family = "inet" THEN <<"address", sock.src>>
                          ELSE <<"index", sock.if_index>> >>

-----------------------------------------------------------------------------
\* A socket is in the memory of a session, of which nothing is read before an opening has
\* cleared it: the -1 of a new one stands for whatever is there.
SocketInit == /\ files = [d \in 0..MaxFd |-> IF d = 0 THEN [Closed EXCEPT !.owner = Stranger]
                                             ELSE Closed]
              /\ socks = [s \in Sock |-> [Zeroed EXCEPT !.fd = -1]]
              /\ status = [s \in Sock |-> "new"]
              /\ stray = FALSE

\* _create_socket that fails: no address is found and fd stays 0, or at the last of
\* them socket fails and it is -1, or bind fails and it is a number closed again.
OpenFails(s, fd) ==
  /\ ~Open(s)
  /\ fd \in {0, -1} \/ Lowest(fd)
  /\ socks' = [socks EXCEPT ![s] = [Zeroed EXCEPT !.fd = fd]]
  /\ status' = [status EXCEPT ![s] = "failed"]
  /\ UNCHANGED <<files, stray>>

\* _create_socket and _lookup_interface, at the first address that works
Created(s, d, dest, found, as) ==
  /\ ~Open(s)
  /\ Lowest(d)
  /\ socks' = [socks EXCEPT ![s] = [fd |-> d, joined |-> FALSE, if_index |-> found[1],
                                    dest |-> dest, src |-> found[2]]]
  /\ files' = [files EXCEPT ![d] = [Closed EXCEPT !.owner = s]]
  /\ status' = [status EXCEPT ![s] = as]
  /\ UNCHANGED stray

\* rtp_socket_open_send; whether the three multicast options could be set is ignored.
OpenSend(s, d, dest, found) == Created(s, d, dest, found, "sender")

\* rtp_socket_open_recv of an address that is no group
OpenRecv(s, d, dest, found) ==
  ~dest.multicast /\ Created(s, d, dest, found, "receiver")

\* rtp_socket_open_recv and _join_group
OpenJoin(s, d, dest, found) ==
  /\ dest.multicast
  /\ ~Open(s)
  /\ Lowest(d)
  /\ LET sock == [fd |-> d, joined |-> TRUE, if_index |-> found[1], dest |-> dest,
                  src |-> found[2]]
     IN  /\ socks' = [socks EXCEPT ![s] = sock]
         /\ files' = [files EXCEPT ![d] = [owner |-> s, groups |-> {Imr(sock)}]]
  /\ status' = [status EXCEPT ![s] = "receiver"]
  /\ UNCHANGED stray

\* Mutant: the socket that could not join stays open.
JoinFailsOpen(s, d, dest, found) ==
  dest.multicast /\ Created(s, d, dest, found, "receiver")

\* The group can not be joined: rtp_socket_open_recv closes the socket.
JoinFails(s, d, dest, found) ==
  /\ dest.multicast
  /\ ~Open(s)
  /\ Lowest(d)
  /\ socks' = [socks EXCEPT ![s] = [fd |-> -1, joined |-> FALSE, if_index |-> found[1],
                                    dest |-> dest, src |-> found[2]]]
  /\ status' = [status EXCEPT ![s] = "failed"]
  /\ UNCHANGED <<files, stray>>

\* _leave_group, of the membership worked out anew
LeaveGroup(s) == [files EXCEPT ![socks[s].fd].groups = @ \ {Imr(socks[s])}]

\* Mutant: fd keeps the number that was closed.
CloseKeepsFd(s) ==
  /\ status[s] # "new"
  /\ files' = IF socks[s].fd >= 0 THEN [files EXCEPT ![socks[s].fd] = Closed] ELSE files
  /\ socks' = [socks EXCEPT ![s].joined = FALSE]
  /\ status' = [status EXCEPT ![s] = "closed"]
  /\ stray' = (stray \/ (status[s] = "failed" /\ socks[s].fd >= 0))

\* rtp_socket_close, which the library calls only after an opening; the file closed is
\* whoever's has the number.
Close(s) ==
  /\ status[s] # "new"
  /\ LET left == IF socks[s].joined THEN LeaveGroup(s) ELSE files
     IN  files' = IF socks[s].fd >= 0 THEN [left EXCEPT ![socks[s].fd] = Closed] ELSE left
  /\ socks' = [socks EXCEPT ![s].joined = FALSE, ![s].fd = -1]
  /\ status' = [status EXCEPT ![s] = "closed"]
  /\ stray' = (stray \/ (status[s] = "failed" /\ socks[s].fd >= 0))

\* Others open and close files of their own.
StrangerOpens(d) == /\ Lowest(d)
                    /\ files' = [files EXCEPT ![d] = [Closed EXCEPT !.owner = Stranger]]
                    /\ UNCHANGED <<socks, status, stray>>

StrangerCloses(d) == /\ files[d].owner = Stranger
                     /\ files' = [files EXCEPT ![d] = Closed]
                     /\ UNCHANGED <<socks, status, stray>>

\* What a lookup by a name may find, whichever interfaces run, and what it may find by
\* any name a caller gives.
FoundBy(family, ifname) == UNION {Lookup(family, ifname, running) : running \in SUBSET Names}
Found == [family \in {"inet", "inet6"} |->
            UNION {FoundBy(family, ifname) : ifname \in Names \union {"", "none"}}]

\* A stray close ends what is modelled: from then on nothing is known of any file.
SocketNext ==
  /\ ~stray
  /\ \/ \E s \in Sock :
          \/ Close(s)
          \/ \E fd \in -1 .. MaxFd : OpenFails(s, fd)
          \/ \E d \in 0..MaxFd, dest \in Address : \E found \in Found[dest.family] :
               \/ OpenSend(s, d, dest, found) \/ OpenRecv(s, d, dest, found)
               \/ OpenJoin(s, d, dest, found) \/ JoinFails(s, d, dest, found)
     \/ \E d \in 0..MaxFd : StrangerOpens(d) \/ StrangerCloses(d)

Sockets == SocketInit /\ [][SocketNext]_sockVars

-----------------------------------------------------------------------------
\* Type invariant; the address a socket sends from, or joins by, is one that an interface
\* has in the family of the socket's destination.
SockTypeOK ==
  /\ \A d \in 0..MaxFd : files[d] = Closed \/ files[d].owner \in Sock \union {Stranger}
  /\ \A s \in Sock : /\ socks[s].fd \in -1 .. MaxFd
                     /\ socks[s].joined \in BOOLEAN
                     /\ socks[s].dest \in Address \union {NoAddress}
                     /\ \/ socks[s].src = "any"
                        \/ \E i \in DOMAIN Interfaces : /\ Interfaces[i].name = socks[s].src
                                                       /\ Interfaces[i].family = socks[s].dest.family
  /\ status \in [Sock -> {"new", "closed", "failed", "sender", "receiver"}]
  /\ stray \in BOOLEAN

\* As long as no socket was closed after its opening had failed, an open socket's
\* descriptor is a file of its own, and no file is left behind by one that is closed,
\* closed twice, or could not be opened, whoever else opens and closes meanwhile.
OwnsItsFile ==
  ~stray => \A s \in Sock :
              {d \in 0..MaxFd : files[d].owner = s}
                = IF Open(s) THEN {socks[s].fd} ELSE {}

\* The receivers of groups are members: an open socket has joined if and only if it
\* receives from a group, it is then a member of that group by the interface it found,
\* which is the membership that a close would leave, and it is a member of no other.
MemberAsJoined ==
  ~stray => \A s \in Sock :
              /\ socks[s].joined <=> status[s] = "receiver" /\ socks[s].dest.multicast
              /\ Open(s) =>
                   files[socks[s].fd].groups = IF socks[s].joined THEN {Imr(socks[s])} ELSE {}
=============================================================================
