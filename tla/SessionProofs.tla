-------------------------- MODULE SessionProofs ---------------------------
(***************************************************************************)
(* Proofs about RtpSocket, IqReceive and the session of both, for any      *)
(* sockets, descriptors, interfaces and samples.  An open socket's         *)
(* descriptor is its own file and its only one, and it is a member of the  *)
(* group it says it joined, until a socket is closed whose opening had     *)
(* left a number in it.  Every header of a receive is accounted for, and   *)
(* the sample of a datagram arrives however much junk is stored behind it. *)
(***************************************************************************)
EXTENDS Session, SequenceTheorems, TLAPS

-----------------------------------------------------------------------------
\* RtpSocket

\* What the records and tables hold, whatever happened.
Shape ==
  /\ DOMAIN files = 0..MaxFd
  /\ \A d \in 0..MaxFd : DOMAIN files[d] = {"owner", "groups"}
  /\ DOMAIN socks = Sock
  /\ \A s \in Sock : /\ DOMAIN socks[s] = {"fd", "joined", "if_index", "dest", "src"}
                     /\ socks[s].fd \in -1 .. MaxFd
                     /\ socks[s].joined \in BOOLEAN
  /\ DOMAIN status = Sock
  /\ \A s \in Sock : status[s] \in {"new", "closed", "failed", "sender", "receiver"}
  /\ stray \in BOOLEAN

\* The files of socket s, and its membership.
Owns(s) ==
  /\ status[s] \in {"new", "closed"} => socks[s].fd = -1
  /\ ~Open(s) => \A d \in 0..MaxFd : files[d].owner # s
  /\ Open(s) => /\ socks[s].fd \in 0..MaxFd
                /\ files[socks[s].fd].owner = s
                /\ \A d \in 0..MaxFd : files[d].owner = s => d = socks[s].fd

Belongs(s) ==
  /\ socks[s].joined <=> status[s] = "receiver" /\ socks[s].dest.multicast
  /\ Open(s) => files[socks[s].fd].groups = IF socks[s].joined THEN {Imr(socks[s])} ELSE {}

SocketInv == Shape /\ (~stray => \A s \in Sock : Owns(s) /\ Belongs(s))

-----------------------------------------------------------------------------
LEMMA SocketInvInit == SocketInit => SocketInv
<1> SUFFICES ASSUME SocketInit PROVE SocketInv
  OBVIOUS
<1>1. Shape
  <2>1. -1 \in -1 .. MaxFd
    BY SocketAssumption
  <2>2. /\ DOMAIN files = 0..MaxFd
        /\ \A d \in 0..MaxFd : DOMAIN files[d] = {"owner", "groups"}
    BY DEF SocketInit, Closed
  <2>3. /\ DOMAIN socks = Sock
        /\ \A s \in Sock : /\ DOMAIN socks[s] = {"fd", "joined", "if_index", "dest", "src"}
                           /\ socks[s].fd = -1 /\ socks[s].joined = FALSE
    BY DEF SocketInit, Zeroed
  <2>4. DOMAIN status = Sock /\ (\A s \in Sock : status[s] = "new") /\ stray = FALSE
    BY DEF SocketInit
  <2>5. QED
    BY <2>1, <2>2, <2>3, <2>4 DEF Shape
<1>2. ASSUME NEW s \in Sock PROVE Owns(s)
  BY SocketAssumption DEF SocketInit, Owns, Open, Closed, Zeroed
<1>3. ASSUME NEW s \in Sock PROVE Belongs(s)
  BY DEF SocketInit, Belongs, Open, Closed, Zeroed
<1>4. QED
  BY <1>1, <1>2, <1>3 DEF SocketInv

\* A socket that did not act, and whose files nobody touched, is as it was.
LEMMA Untouched ==
  ASSUME NEW t \in Sock, Shape, Owns(t), Belongs(t), DOMAIN files' = 0..MaxFd,
         socks'[t] = socks[t], status'[t] = status[t],
         \A d \in 0..MaxFd : files[d].owner = t \/ files'[d].owner = t => files'[d] = files[d]
  PROVE  Owns(t)' /\ Belongs(t)'
<1>1. Open(t)' = Open(t)
  BY DEF Open
<1>2. Owns(t)'
  BY <1>1 DEF Owns, Shape
<1>3. CASE Open(t)
  <2>1. files'[socks[t].fd] = files[socks[t].fd]
    BY <1>3 DEF Owns
  <2>2. QED
    BY <1>1, <1>2, <1>3, <2>1 DEF Belongs
<1>4. CASE ~Open(t)
  BY <1>1, <1>2, <1>4 DEF Belongs
<1>5. QED
  BY <1>3, <1>4, <1>2

\* A descriptor that is free is nobody's.
LEMMA FreeIsNobodys ==
  ASSUME NEW d \in 0..MaxFd, Lowest(d)
  PROVE  files[d].owner = "none" /\ \A s \in Sock : files[d].owner # s
BY SocketAssumption DEF Lowest, FreeFds, Closed

-----------------------------------------------------------------------------
\* An opening that fails, before or after the group could not be joined.
LEMMA FailedKeeps ==
  ASSUME SocketInv, ~stray, NEW s \in Sock, ~Open(s),
         NEW sock, DOMAIN sock = {"fd", "joined", "if_index", "dest", "src"},
         sock.fd \in -1 .. MaxFd, sock.joined = FALSE,
         socks' = [socks EXCEPT ![s] = sock],
         status' = [status EXCEPT ![s] = "failed"],
         UNCHANGED <<files, stray>>
  PROVE  SocketInv'
<1>1. Shape'
  BY DEF SocketInv, Shape
<1>2. Owns(s)' /\ Belongs(s)'
  BY ZenonT(40) DEF SocketInv, Shape, Owns, Belongs, Open
<1>3. ASSUME NEW t \in Sock, t # s PROVE Owns(t)' /\ Belongs(t)'
  <2>1. socks'[t] = socks[t] /\ status'[t] = status[t]
    BY <1>3 DEF SocketInv, Shape
  <2>2. QED
    BY <2>1, Untouched DEF SocketInv, Shape
<1>4. QED
  BY <1>1, <1>2, <1>3 DEF SocketInv

LEMMA OpenFailsKeeps ==
  ASSUME SocketInv, ~stray, NEW s \in Sock, NEW fd \in -1 .. MaxFd, OpenFails(s, fd)
  PROVE  SocketInv'
<1> DEFINE sock == [Zeroed EXCEPT !.fd = fd]
<1>1. DOMAIN sock = {"fd", "joined", "if_index", "dest", "src"} /\ sock.fd = fd
      /\ sock.joined = FALSE
  BY DEF Zeroed
<1>2. /\ ~Open(s) /\ socks' = [socks EXCEPT ![s] = sock]
      /\ status' = [status EXCEPT ![s] = "failed"] /\ UNCHANGED <<files, stray>>
  BY DEF OpenFails
<1> HIDE DEF sock
<1>3. QED
  BY <1>1, <1>2, FailedKeeps

LEMMA JoinFailsKeeps ==
  ASSUME SocketInv, ~stray, NEW s \in Sock, NEW d, NEW dest, NEW found,
         JoinFails(s, d, dest, found)
  PROVE  SocketInv'
<1> DEFINE sock == [fd |-> -1, joined |-> FALSE, if_index |-> found[1], dest |-> dest,
                    src |-> found[2]]
<1>1. DOMAIN sock = {"fd", "joined", "if_index", "dest", "src"} /\ sock.fd = -1
      /\ sock.joined = FALSE
  OBVIOUS
<1>2. /\ ~Open(s) /\ socks' = [socks EXCEPT ![s] = sock]
      /\ status' = [status EXCEPT ![s] = "failed"] /\ UNCHANGED <<files, stray>>
  BY DEF JoinFails
<1>3. -1 \in -1 .. MaxFd
  BY SocketAssumption
<1> HIDE DEF sock
<1>4. QED
  BY <1>1, <1>2, <1>3, FailedKeeps

-----------------------------------------------------------------------------
\* An opening that succeeds: the socket gets a file that was nobody's.
LEMMA OpenedKeeps ==
  ASSUME SocketInv, ~stray, NEW s \in Sock, ~Open(s), NEW d \in 0..MaxFd, Lowest(d),
         NEW as \in {"sender", "receiver"},
         NEW sock, DOMAIN sock = {"fd", "joined", "if_index", "dest", "src"},
         sock.fd = d, sock.joined \in BOOLEAN,
         sock.joined <=> as = "receiver" /\ sock.dest.multicast,
         NEW file, DOMAIN file = {"owner", "groups"}, file.owner = s,
         file.groups = IF sock.joined THEN {Imr(sock)} ELSE {},
         socks' = [socks EXCEPT ![s] = sock],
         files' = [files EXCEPT ![d] = file],
         status' = [status EXCEPT ![s] = as],
         UNCHANGED stray
  PROVE  SocketInv'
<1> USE SocketAssumption
<1>1. Shape'
  <2>1. sock.fd \in -1 .. MaxFd
    OBVIOUS
  <2>2. /\ DOMAIN files' = 0..MaxFd
        /\ \A e \in 0..MaxFd : DOMAIN files'[e] = {"owner", "groups"}
    BY DEF SocketInv, Shape
  <2>3. /\ DOMAIN socks' = Sock
        /\ \A t \in Sock : socks'[t] = IF t = s THEN sock ELSE socks[t]
    BY DEF SocketInv, Shape
  <2>4. /\ DOMAIN status' = Sock
        /\ \A t \in Sock : status'[t] \in {"new", "closed", "failed", "sender", "receiver"}
    BY DEF SocketInv, Shape
  <2>5. QED
    BY <2>1, <2>2, <2>3, <2>4 DEF SocketInv, Shape
<1>2. /\ socks'[s] = sock /\ status'[s] = as /\ files'[d] = file
      /\ \A e \in 0..MaxFd : e # d => files'[e] = files[e]
  BY DEF SocketInv, Shape
<1>3. Owns(s)'
  <2>1. \A e \in 0..MaxFd : files[e].owner # s
    BY DEF SocketInv, Owns
  <2>2. \A e \in 0..MaxFd : files'[e].owner = s => e = d
    BY <1>2, <2>1
  <2>3. Open(s)' /\ status'[s] \notin {"new", "closed"}
    BY <1>2 DEF Open
  <2>4. QED
    BY <1>2, <2>2, <2>3 DEF Owns
<1>4. Belongs(s)'
  BY <1>2 DEF Belongs
<1>5. ASSUME NEW t \in Sock, t # s PROVE Owns(t)' /\ Belongs(t)'
  <2>1. socks'[t] = socks[t] /\ status'[t] = status[t]
    BY <1>5 DEF SocketInv, Shape
  <2>2. \A e \in 0..MaxFd : files[e].owner = t \/ files'[e].owner = t => files'[e] = files[e]
    BY <1>2, <1>5, FreeIsNobodys
  <2>3. QED
    BY <1>1, <2>1, <2>2, Untouched DEF SocketInv, Shape
<1>6. QED
  BY <1>1, <1>3, <1>4, <1>5 DEF SocketInv

LEMMA CreatedKeeps ==
  ASSUME SocketInv, ~stray, NEW s \in Sock, NEW d \in 0..MaxFd, NEW dest, NEW found,
         NEW as \in {"sender", "receiver"}, as = "receiver" => ~dest.multicast,
         Created(s, d, dest, found, as)
  PROVE  SocketInv'
<1> DEFINE sock == [fd |-> d, joined |-> FALSE, if_index |-> found[1], dest |-> dest,
                    src |-> found[2]]
           file == [Closed EXCEPT !.owner = s]
<1>1. DOMAIN sock = {"fd", "joined", "if_index", "dest", "src"} /\ sock.fd = d
      /\ sock.joined = FALSE /\ sock.dest = dest
  OBVIOUS
<1>2. DOMAIN file = {"owner", "groups"} /\ file.owner = s /\ file.groups = {}
  BY DEF Closed
<1>3. /\ ~Open(s) /\ Lowest(d) /\ socks' = [socks EXCEPT ![s] = sock]
      /\ files' = [files EXCEPT ![d] = file] /\ status' = [status EXCEPT ![s] = as]
      /\ UNCHANGED stray
  BY DEF Created
<1> HIDE DEF sock, file
<1>4. QED
  BY <1>1, <1>2, <1>3, OpenedKeeps

LEMMA OpenJoinKeeps ==
  ASSUME SocketInv, ~stray, NEW s \in Sock, NEW d \in 0..MaxFd, NEW dest, NEW found,
         OpenJoin(s, d, dest, found)
  PROVE  SocketInv'
<1> DEFINE sock == [fd |-> d, joined |-> TRUE, if_index |-> found[1], dest |-> dest,
                    src |-> found[2]]
           file == [owner |-> s, groups |-> {Imr(sock)}]
<1>1. DOMAIN sock = {"fd", "joined", "if_index", "dest", "src"} /\ sock.fd = d
      /\ sock.joined = TRUE /\ sock.dest = dest
  OBVIOUS
<1>2. DOMAIN file = {"owner", "groups"} /\ file.owner = s /\ file.groups = {Imr(sock)}
  OBVIOUS
<1>3. /\ ~Open(s) /\ Lowest(d) /\ socks' = [socks EXCEPT ![s] = sock] /\ dest.multicast
      /\ files' = [files EXCEPT ![d] = file] /\ status' = [status EXCEPT ![s] = "receiver"]
      /\ UNCHANGED stray
  BY DEF OpenJoin
<1> HIDE DEF sock, file
<1>4. QED
  BY <1>1, <1>2, <1>3, OpenedKeeps

-----------------------------------------------------------------------------
\* A close gives up the socket's own file, unless its opening had left a number in it.
LEMMA CloseKeeps ==
  ASSUME SocketInv, ~stray, NEW s \in Sock, Close(s) PROVE SocketInv'
<1> DEFINE left == IF socks[s].joined THEN LeaveGroup(s) ELSE files
<1>1. /\ DOMAIN left = 0..MaxFd
      /\ \A d \in 0..MaxFd : DOMAIN left[d] = {"owner", "groups"}
      /\ \A d \in 0..MaxFd : left[d] = files[d] \/ (socks[s].joined /\ d = socks[s].fd)
  BY DEF SocketInv, Shape, LeaveGroup
<1>2. files' = IF socks[s].fd >= 0 THEN [left EXCEPT ![socks[s].fd] = Closed] ELSE left
  BY DEF Close
<1> HIDE DEF left
<1>3. /\ DOMAIN files' = 0..MaxFd
      /\ \A d \in 0..MaxFd : DOMAIN files'[d] = {"owner", "groups"}
  BY <1>1, <1>2 DEF Closed
<1>4. /\ DOMAIN socks' = Sock /\ DOMAIN status' = Sock
      /\ DOMAIN socks'[s] = {"fd", "joined", "if_index", "dest", "src"}
      /\ socks'[s].fd = -1 /\ socks'[s].joined = FALSE /\ status'[s] = "closed"
      /\ \A t \in Sock : t # s => socks'[t] = socks[t] /\ status'[t] = status[t]
  BY DEF Close, SocketInv, Shape
<1>5. Shape'
  <2>1. -1 \in -1 .. MaxFd
    BY SocketAssumption
  <2>2. stray' \in BOOLEAN
    BY DEF Close
  <2>3. \A t \in Sock : /\ DOMAIN socks'[t] = {"fd", "joined", "if_index", "dest", "src"}
                         /\ socks'[t].fd \in -1 .. MaxFd
                         /\ socks'[t].joined \in BOOLEAN
    BY <1>4, <2>1 DEF SocketInv, Shape
  <2>4. \A t \in Sock : status'[t] \in {"new", "closed", "failed", "sender", "receiver"}
    BY <1>4 DEF SocketInv, Shape
  <2>5. QED
    BY <1>3, <1>4, <2>2, <2>3, <2>4 DEF Shape
<1>6. ASSUME ~stray' PROVE \A t \in Sock : Owns(t)' /\ Belongs(t)'
  <2>1. Open(s) \/ socks[s].fd = -1
    BY <1>6 DEF Close, SocketInv, Shape, Owns, Open
  <2>2. \A d \in 0..MaxFd : IF Open(s) /\ d = socks[s].fd THEN files'[d] = Closed
                            ELSE files'[d] = files[d]
    <3>1. CASE Open(s)
      <4>1. socks[s].fd \in 0..MaxFd
        BY <3>1 DEF SocketInv, Owns
      <4>2. QED
        BY <1>1, <1>2, <3>1, <4>1
    <3>2. CASE ~Open(s)
      <4>1. socks[s].fd = -1 /\ ~socks[s].joined
        BY <2>1, <3>2 DEF SocketInv, Belongs, Open
      <4>2. QED
        BY <1>1, <1>2, <3>2, <4>1
    <3>3. QED
      BY <3>1, <3>2
  <2>3. \A d \in 0..MaxFd : files'[d].owner # s
    BY <2>2, SocketAssumption DEF SocketInv, Owns, Closed
  <2>4. Owns(s)' /\ Belongs(s)'
    BY <1>4, <2>3 DEF Owns, Belongs, Open
  <2>5. ASSUME NEW t \in Sock, t # s PROVE Owns(t)' /\ Belongs(t)'
    <3>1. \A d \in 0..MaxFd :
            files[d].owner = t \/ files'[d].owner = t => files'[d] = files[d]
      BY <2>2, <2>5, SocketAssumption DEF SocketInv, Owns, Closed
    <3>2. QED
      BY <1>3, <1>4, <2>5, <3>1, Untouched DEF SocketInv
  <2>6. QED
    BY <2>4, <2>5
<1>7. QED
  BY <1>5, <1>6 DEF SocketInv

LEMMA StrangerKeeps ==
  ASSUME SocketInv, ~stray, NEW d \in 0..MaxFd, StrangerOpens(d) \/ StrangerCloses(d)
  PROVE  SocketInv'
<1>1. /\ DOMAIN files' = 0..MaxFd
      /\ DOMAIN files'[d] = {"owner", "groups"} /\ files'[d].owner \notin Sock
      /\ \A e \in 0..MaxFd : e # d => files'[e] = files[e]
      /\ files[d].owner \notin Sock
      /\ UNCHANGED <<socks, status, stray>>
  BY FreeIsNobodys, SocketAssumption
  DEF StrangerOpens, StrangerCloses, SocketInv, Shape, Closed
<1>2. Shape'
  BY <1>1 DEF SocketInv, Shape
<1>3. ASSUME NEW t \in Sock PROVE Owns(t)' /\ Belongs(t)'
  BY <1>1, Untouched DEF SocketInv
<1>4. QED
  BY <1>2, <1>3 DEF SocketInv

LEMMA SocketInvStep == SocketInv /\ [SocketNext]_sockVars => SocketInv'
<1> SUFFICES ASSUME SocketInv, [SocketNext]_sockVars PROVE SocketInv'
  OBVIOUS
<1>1. CASE UNCHANGED sockVars
  BY <1>1, ZenonT(40) DEF SocketInv, Shape, Owns, Belongs, Open, sockVars
<1>2. CASE SocketNext
  <2>1. ASSUME NEW s \in Sock, Close(s) PROVE SocketInv'
    BY <1>2, <2>1, CloseKeeps DEF SocketNext
  <2>2. ASSUME NEW s \in Sock, NEW fd \in -1 .. MaxFd, OpenFails(s, fd) PROVE SocketInv'
    BY <1>2, <2>2, OpenFailsKeeps DEF SocketNext
  <2>3. ASSUME NEW s \in Sock, NEW d \in 0..MaxFd, NEW dest \in Address,
               NEW found \in Found[dest.family],
               \/ OpenSend(s, d, dest, found) \/ OpenRecv(s, d, dest, found)
               \/ OpenJoin(s, d, dest, found) \/ JoinFails(s, d, dest, found)
        PROVE  SocketInv'
    <3>1. CASE OpenSend(s, d, dest, found)
      BY <1>2, <3>1, CreatedKeeps DEF SocketNext, OpenSend
    <3>2. CASE OpenRecv(s, d, dest, found)
      BY <1>2, <3>2, CreatedKeeps DEF SocketNext, OpenRecv
    <3>3. CASE OpenJoin(s, d, dest, found)
      BY <1>2, <3>3, OpenJoinKeeps DEF SocketNext
    <3>4. CASE JoinFails(s, d, dest, found)
      BY <1>2, <3>4, JoinFailsKeeps DEF SocketNext
    <3>5. QED
      BY <2>3, <3>1, <3>2, <3>3, <3>4
  <2>4. ASSUME NEW d \in 0..MaxFd, StrangerOpens(d) \/ StrangerCloses(d) PROVE SocketInv'
    BY <1>2, <2>4, StrangerKeeps DEF SocketNext
  <2>5. QED
    BY <1>2, <2>1, <2>2, <2>3, <2>4 DEF SocketNext
<1>3. QED
  BY <1>1, <1>2

-----------------------------------------------------------------------------
\* An open socket has one file, its descriptor's, and a socket that is not open none,
\* whoever else opens and closes files, and however many openings fail.
THEOREM SocketOwnsItsFile == Sockets => []OwnsItsFile
<1>1. SocketInv => OwnsItsFile
  BY DEF SocketInv, Shape, Owns, OwnsItsFile
<1>2. QED
  BY <1>1, SocketInvInit, SocketInvStep, PTL DEF Sockets

\* A socket has joined if and only if it is open to receive from a group, and is then
\* a member of that group and of no other.
THEOREM SocketMemberAsJoined == Sockets => []MemberAsJoined
<1>1. SocketInv => MemberAsJoined
  BY DEF SocketInv, Belongs, MemberAsJoined
<1>2. QED
  BY <1>1, SocketInvInit, SocketInvStep, PTL DEF Sockets

-----------------------------------------------------------------------------
\* The address found is of an interface of the family, or is none.
Fits(src, family) ==
  \/ src = "any"
  \/ \E i \in DOMAIN Interfaces : Interfaces[i].name = src /\ Interfaces[i].family = family

\* Whatever is found, by whichever name, fits the family it was looked up for.
LEMMA FoundFits ==
  ASSUME NEW family \in {"inet", "inet6"}, NEW found \in Found[family]
  PROVE  Fits(found[2], family)
  <1>1. PICK ifname \in Names \union {"", "none"}, running \in SUBSET Names :
          found \in Lookup(family, ifname, running)
    <2>1. found \in UNION {FoundBy(family, given) : given \in Names \union {"", "none"}}
      BY DEF Found
    <2>2. PICK given \in Names \union {"", "none"} : found \in FoundBy(family, given)
      BY <2>1, Zenon
    <2>3. PICK running \in SUBSET Names : found \in Lookup(family, given, running)
      BY <2>2, Zenon DEF FoundBy
    <2> QED
      BY <2>2, <2>3, Zenon
  <1>2. PICK name, index : found = <<index, "any">> \/ found = <<index, AddressOf(name, family)>>
    <2>1. PICK named : named = IF ifname = "" THEN Best(family, running) ELSE {ifname}
      OBVIOUS
    <2>2. CASE named \intersect Names = {}
      BY <1>1, <2>1, <2>2 DEF Lookup
    <2>3. CASE named \intersect Names # {}
      <3>1. found \in UNION {{<<index, AddressOf(name, family)>> : index \in IndexOf(name) \union {0}} :
                               name \in named}
        BY <1>1, <2>1, <2>3, Zenon DEF Lookup
      <3>2. PICK name \in named :
              found \in {<<index, AddressOf(name, family)>> : index \in IndexOf(name) \union {0}}
        BY <3>1, Zenon
      <3>3. PICK index \in IndexOf(name) \union {0} : found = <<index, AddressOf(name, family)>>
        BY <3>2, Zenon
      <3> QED
        BY <3>3
    <2> QED
      BY <2>2, <2>3
  <1>3. found[2] = "any" \/ found[2] = AddressOf(name, family)
    <2>1. CASE found = <<index, "any">>
      BY <2>1
    <2>2. CASE found = <<index, AddressOf(name, family)>>
      <3>1. PICK address : address = AddressOf(name, family)
        OBVIOUS
      <3>2. found = <<index, address>>
        BY <2>2, <3>1
      <3>3. found[2] = address
        BY <3>2
      <3> QED
        BY <3>1, <3>3
    <2> QED
      BY <1>2, <2>1, <2>2
  <1> QED
    BY <1>3, Zenon DEF AddressOf, Fits

\* The inductive invariant of the types.
SockTypes == SocketInv /\ SockTypeOK

-----------------------------------------------------------------------------
LEMMA SockTypesInit == SocketInit => SockTypeOK
  <1> SUFFICES ASSUME SocketInit PROVE SockTypeOK
    OBVIOUS
  <1>1. \A d \in 0..MaxFd : files[d] = Closed \/ files[d].owner \in Sock \union {Stranger}
    BY DEF SocketInit, Closed
  <1>2. ASSUME NEW s \in Sock
        PROVE  socks[s].fd = -1 /\ socks[s].joined = FALSE /\ socks[s].dest = NoAddress
               /\ socks[s].src = "any"
    BY DEF SocketInit, Zeroed
  <1>3. -1 \in -1 .. MaxFd
    BY SocketAssumption
  <1>4. status \in [Sock -> {"new", "closed", "failed", "sender", "receiver"}] /\ stray \in BOOLEAN
    BY DEF SocketInit
  <1> QED
    BY <1>1, <1>2, <1>3, <1>4 DEF SockTypeOK

\* What a step has to keep of one socket and one file.
SockTyped(s) == /\ socks[s].fd \in -1 .. MaxFd
                /\ socks[s].joined \in BOOLEAN
                /\ socks[s].dest \in Address \union {NoAddress}
                /\ Fits(socks[s].src, socks[s].dest.family)
FileTyped(d) == files[d] = Closed \/ files[d].owner \in Sock \union {Stranger}

\* The type invariant socket by socket and file by file.
LEMMA SockTypeOKParts ==
  SockTypeOK <=> /\ \A d \in 0..MaxFd : FileTyped(d)
                 /\ \A s \in Sock : SockTyped(s)
                 /\ status \in [Sock -> {"new", "closed", "failed", "sender", "receiver"}]
                 /\ stray \in BOOLEAN
  BY DEF SockTypeOK, FileTyped, SockTyped, Fits

LEMMA SockTypesStep == SockTypes /\ [SocketNext]_sockVars => SockTypeOK'
  <1> SUFFICES ASSUME SockTypes, [SocketNext]_sockVars PROVE SockTypeOK'
    OBVIOUS
  <1>0. /\ \A d \in 0..MaxFd : FileTyped(d)
        /\ \A s \in Sock : SockTyped(s)
        /\ status \in [Sock -> {"new", "closed", "failed", "sender", "receiver"}]
        /\ stray \in BOOLEAN /\ Shape
    BY SockTypeOKParts DEF SockTypes, SocketInv
  <1>1. CASE UNCHANGED sockVars
    BY <1>1, <1>0 DEF sockVars, SockTypes, SockTypeOK
  <1>2. ASSUME NEW s \in Sock, Close(s) PROVE SockTypeOK'
    <2>1. ASSUME NEW d \in 0..MaxFd PROVE FileTyped(d)'
      <3>1. PICK left : left = IF socks[s].joined THEN LeaveGroup(s) ELSE files
        OBVIOUS
      <3>2. DOMAIN left = 0..MaxFd /\ \A e \in 0..MaxFd : e # socks[s].fd => left[e] = files[e]
        BY <1>0, <3>1 DEF Shape, LeaveGroup
      <3>3. files' = IF socks[s].fd >= 0 THEN [left EXCEPT ![socks[s].fd] = Closed] ELSE left
        BY <1>2, <3>1 DEF Close
      <3>4. CASE d = socks[s].fd
        <4>1. socks[s].fd >= 0
          BY <3>4, SocketAssumption
        <4>2. files'[d] = Closed
          BY <3>2, <3>3, <3>4, <4>1
        <4> QED
          BY <4>2 DEF FileTyped
      <3>5. CASE d # socks[s].fd
        <4>1. files'[d] = files[d]
          BY <3>2, <3>3, <3>5
        <4> QED
          BY <1>0, <4>1 DEF FileTyped
      <3> QED
        BY <3>4, <3>5
    <2>2. ASSUME NEW t \in Sock PROVE SockTyped(t)'
      <3>1. socks'[t].fd \in {-1, socks[t].fd} /\ socks'[t].joined \in {FALSE, socks[t].joined}
            /\ socks'[t].dest = socks[t].dest /\ socks'[t].src = socks[t].src
        BY <1>0, <1>2 DEF Close, Shape
      <3>2. -1 \in -1 .. MaxFd
        BY SocketAssumption
      <3> QED
        BY <1>0, <3>1, <3>2 DEF SockTyped, Fits
    <2>3. status' \in [Sock -> {"new", "closed", "failed", "sender", "receiver"}]
      BY <1>0, <1>2 DEF Close
    <2>4. stray' \in BOOLEAN
      BY <1>0, <1>2 DEF Close
    <2> QED
      BY <2>1, <2>2, <2>3, <2>4, SockTypeOKParts DEF SockTypeOK, SockTyped, FileTyped, Fits
  <1>3. ASSUME NEW s \in Sock, NEW fd \in -1 .. MaxFd, OpenFails(s, fd) PROVE SockTypeOK'
    <2>1. ASSUME NEW t \in Sock PROVE SockTyped(t)'
      <3>1. CASE t = s
        <4>1. socks'[t] = [Zeroed EXCEPT !.fd = fd]
          BY <1>0, <1>3, <3>1 DEF OpenFails, Shape
        <4> QED
          BY <4>1 DEF SockTyped, Fits, Zeroed
      <3>2. CASE t # s
        <4>1. socks'[t] = socks[t]
          BY <1>0, <1>3, <3>2 DEF OpenFails, Shape
        <4> QED
          BY <1>0, <4>1 DEF SockTyped, Fits
      <3> QED
        BY <3>1, <3>2
    <2>2. files' = files /\ stray' = stray
          /\ status' \in [Sock -> {"new", "closed", "failed", "sender", "receiver"}]
      BY <1>0, <1>3 DEF OpenFails
    <2> QED
      BY <1>0, <2>1, <2>2 DEF SockTypeOK, SockTyped, FileTyped, Fits
  <1>4. ASSUME NEW s \in Sock, NEW d \in 0..MaxFd, NEW dest \in Address,
               NEW found \in Found[dest.family],
               \/ OpenSend(s, d, dest, found) \/ OpenRecv(s, d, dest, found)
               \/ OpenJoin(s, d, dest, found) \/ JoinFails(s, d, dest, found)
        PROVE  SockTypeOK'
    <2>1. PICK sock : /\ socks' = [socks EXCEPT ![s] = sock]
                      /\ sock.fd \in {d, -1} /\ sock.joined \in BOOLEAN
                      /\ sock.dest = dest /\ sock.src = found[2]
      <3>1. CASE OpenSend(s, d, dest, found) \/ OpenRecv(s, d, dest, found)
        <4>1. PICK sock : sock = [fd |-> d, joined |-> FALSE, if_index |-> found[1],
                                  dest |-> dest, src |-> found[2]]
          OBVIOUS
        <4>2. socks' = [socks EXCEPT ![s] = sock]
          BY <3>1, <4>1 DEF OpenSend, OpenRecv, Created
        <4>3. /\ sock.fd = d /\ sock.joined = FALSE
              /\ sock.dest = dest /\ sock.src = found[2]
          BY <4>1
        <4> QED
          BY <4>2, <4>3
      <3>2. CASE OpenJoin(s, d, dest, found)
        <4>1. PICK sock : sock = [fd |-> d, joined |-> TRUE, if_index |-> found[1],
                                  dest |-> dest, src |-> found[2]]
          OBVIOUS
        <4>2. socks' = [socks EXCEPT ![s] = sock]
          BY <3>2, <4>1 DEF OpenJoin
        <4>3. /\ sock.fd = d /\ sock.joined = TRUE
              /\ sock.dest = dest /\ sock.src = found[2]
          BY <4>1
        <4> QED
          BY <4>2, <4>3
      <3>3. CASE JoinFails(s, d, dest, found)
        <4>1. PICK sock : sock = [fd |-> -1, joined |-> FALSE, if_index |-> found[1],
                                  dest |-> dest, src |-> found[2]]
          OBVIOUS
        <4>2. socks' = [socks EXCEPT ![s] = sock]
          BY <3>3, <4>1 DEF JoinFails
        <4>3. /\ sock.fd = -1 /\ sock.joined = FALSE
              /\ sock.dest = dest /\ sock.src = found[2]
          BY <4>1
        <4> QED
          BY <4>2, <4>3
      <3> QED
        BY <1>4, <3>1, <3>2, <3>3
    <2>2. ASSUME NEW t \in Sock PROVE SockTyped(t)'
      <3>1. CASE t = s
        <4>1. socks'[t] = sock
          BY <1>0, <2>1, <3>1 DEF Shape
        <4>2. dest.family \in {"inet", "inet6"}
          BY DEF Address
        <4>3. Fits(found[2], dest.family)
          BY <4>2, FoundFits
        <4>4. sock.fd \in -1 .. MaxFd
          BY <2>1, SocketAssumption
        <4> QED
          BY <2>1, <4>1, <4>3, <4>4 DEF SockTyped, Fits
      <3>2. CASE t # s
        <4>1. socks'[t] = socks[t]
          BY <1>0, <2>1, <3>2 DEF Shape
        <4> QED
          BY <1>0, <4>1 DEF SockTyped, Fits
      <3> QED
        BY <3>1, <3>2
    <2>3. ASSUME NEW e \in 0..MaxFd PROVE FileTyped(e)'
      <3>1. files'[e] = files[e] \/ files'[e].owner = s
        <4>1. CASE OpenSend(s, d, dest, found) \/ OpenRecv(s, d, dest, found)
          <5>1. files' = [files EXCEPT ![d] = [Closed EXCEPT !.owner = s]]
            BY <4>1 DEF OpenSend, OpenRecv, Created
          <5> QED
            BY <1>0, <5>1 DEF Closed, Shape
        <4>2. CASE OpenJoin(s, d, dest, found)
          <5>1. PICK groups : files' = [files EXCEPT ![d] = [owner |-> s, groups |-> groups]]
            BY <4>2 DEF OpenJoin
          <5> QED
            BY <1>0, <5>1 DEF Shape
        <4>3. CASE JoinFails(s, d, dest, found)
          BY <4>3 DEF JoinFails
        <4> QED
          BY <1>4, <4>1, <4>2, <4>3
      <3> QED
        BY <1>0, <3>1 DEF FileTyped
    <2>4. stray' = stray /\ status' \in [Sock -> {"new", "closed", "failed", "sender", "receiver"}]
      BY <1>0, <1>4 DEF OpenSend, OpenRecv, Created, OpenJoin, JoinFails
    <2> QED
      BY <1>0, <2>2, <2>3, <2>4 DEF SockTypeOK, SockTyped, FileTyped, Fits
  <1>5. ASSUME NEW d \in 0..MaxFd, StrangerOpens(d) \/ StrangerCloses(d) PROVE SockTypeOK'
    <2>1. ASSUME NEW e \in 0..MaxFd PROVE FileTyped(e)'
      <3>1. \/ files'[e] = files[e] \/ files'[e] = Closed
            \/ files'[e] = [Closed EXCEPT !.owner = Stranger]
        BY <1>0, <1>5 DEF StrangerOpens, StrangerCloses, Shape
      <3> QED
        BY <1>0, <3>1 DEF FileTyped, Closed
    <2>2. UNCHANGED <<socks, status, stray>>
      BY <1>5 DEF StrangerOpens, StrangerCloses
    <2> QED
      BY <1>0, <2>1, <2>2 DEF SockTypeOK, SockTyped, FileTyped, Fits
  <1> QED
    BY <1>1, <1>2, <1>3, <1>4, <1>5, Zenon DEF SocketNext

\* Descriptors, addresses and memberships stay in their types, and a socket sends from,
\* or joins by, an address that an interface has in the family of its destination, for
\* any sockets, descriptors and interfaces.
THEOREM SocketTypeCorrect == Sockets => []SockTypeOK
  <1>1. SocketInit => SockTypes
    BY SocketInvInit, SockTypesInit DEF SockTypes
  <1>2. SockTypes /\ [SocketNext]_sockVars => SockTypes'
    BY SocketInvStep, SockTypesStep DEF SockTypes
  <1>3. SockTypes => SockTypeOK
    BY DEF SockTypes
  <1> QED
    BY <1>1, <1>2, <1>3, PTL DEF Sockets

-----------------------------------------------------------------------------
\* IqReceive

Pair == [i : Value, q : Value]

\* A datagram of a session, which took two samples of its ring.
Sent(d) == /\ d.from \in {"self", "peer"} /\ d.header = HeaderLength
           /\ \E type \in {txtype, PT8, PT16, PT32} : \E first, second \in Sample :
                d.bytes = Payload(type, <<first, second>>)

\* One that is received may be of no session.
Known(d) == Sent(d) \/ d \in Foreign

FlightInv == /\ \A d \in flight : Sent(d)
             /\ last # Nothing => Known(last)

\* What a slot of the ring may hold.
Whole(pair) == rxtype = PT16 /\ pair \in Stored16
Half(pair) == rxtype = PT8 /\ pair.i \in {<<s, "q">> : s \in Sample} /\ pair.q = Junk
Neither(pair) == pair.i \in Unwritten /\ pair.q \in Unwritten
Sound(pair) == Whole(pair) \/ Half(pair) \/ Neither(pair)

\* The pairs stored of the datagram received last are the last of the ring: no slot of
\* the first was taken for one stored behind it.
RingSound == \A k \in DOMAIN ring : Sound(ring[k])
RingInv == /\ RingSound
           /\ last # Nothing /\ fatal # "overread" =>
                /\ Len(ring) >= Len(last.bytes)
                /\ \A n \in 1..Len(last.bytes) :
                     ring[Len(ring) - Len(last.bytes) + n] = Stored(rxtype, last, n - 1)

Counted == lost \in Nat /\ failures \in Nat /\ rxheader \in BOOLEAN /\ HeadersAccounted

EndInv == fatal = "overread" => ~Inside(last, Len(last.bytes))

IqInv == IqTypeOK /\ Counted /\ FlightInv /\ RingInv /\ EndInv /\ NeverPaced

-----------------------------------------------------------------------------
LEMMA Lengths == /\ PayloadLength \in Nat /\ PayloadLength >= 4
                 /\ Capacity \in Nat /\ PayloadLength <= Capacity
  BY PacketAssumption, PayloadAssumption DEF PayloadLength, Capacity, IqLen

LEMMA Places ==
  ASSUME NEW S, NEW t \in Seq(S)
  PROVE  DOMAIN t = 1..Len(t)
  OBVIOUS

LEMMA FourTypes ==
  /\ PT8 # PT16 /\ PT8 # PT24 /\ PT8 # PT32 /\ PT16 # PT24 /\ PT16 # PT32 /\ PT24 # PT32
  BY DEF PT8, PT16, PT24, PT32

\* What is written, and in how many bytes.
LEMMA Widths ==
  /\ Carried(PT8) = 2 /\ Width(PT8) = 1
  /\ Carried(PT16) = 1 /\ Width(PT16) = 2
  /\ \A type : type # PT8 /\ type # PT16 => Carried(type) = 0 /\ Width(type) = 4
  <1>1. Carried(PT8) = 2 /\ Carried(PT16) = 1
    BY FourTypes DEF Carried, IqLen
  <1>2. ASSUME NEW type, type # PT8, type # PT16
        PROVE  Carried(type) = 0 /\ Width(type) = 4
    <2>1. CASE type \in {PT24, PT32}
      BY <1>2, <2>1, FourTypes DEF Carried, IqLen, Width
    <2>2. CASE type \notin {PT24, PT32}
      BY <1>2, <2>2 DEF Carried, Width
    <2> QED
      BY <2>1, <2>2
  <1> QED
    BY <1>1, <1>2, FourTypes DEF Width

\* The bytes of a datagram of two samples of eight bits, and of one of sixteen.
Bytes8(bytes, first, second) ==
  \A b \in 1..PayloadLength : /\ b = 1 => bytes[b] = <<first, "i", 1, 1>>
                              /\ b = 2 => bytes[b] = <<first, "q", 1, 1>>
                              /\ b = 3 => bytes[b] = <<second, "i", 1, 1>>
                              /\ b = 4 => bytes[b] = <<second, "q", 1, 1>>
                              /\ b > 4 => bytes[b] = Junk

Bytes16(bytes, first) ==
  \A b \in 1..PayloadLength : /\ b = 1 => bytes[b] = <<first, "i", 1, 2>>
                              /\ b = 2 => bytes[b] = <<first, "i", 2, 2>>
                              /\ b = 3 => bytes[b] = <<first, "q", 1, 2>>
                              /\ b = 4 => bytes[b] = <<first, "q", 2, 2>>
                              /\ b > 4 => bytes[b] = Junk

LEMMA Payload8 ==
  ASSUME NEW first \in Sample, NEW second \in Sample
  PROVE  Bytes8(Payload(PT8, <<first, second>>), first, second)
  <1> DEFINE written == Written(PT8, <<first, second>>)
  <1>1. written = [k \in 1..4 |->
                     LET sample == <<first, second>>[1 + (k - 1) \div 2]
                         component == IF ((k - 1) \div 1) % 2 = 0 THEN "i" ELSE "q"
                     IN  Component(sample, component, 1)[1 + ((k - 1) % 1)]]
    BY Widths DEF Written
  <1>2. /\ written[1] = <<first, "i", 1, 1>> /\ written[2] = <<first, "q", 1, 1>>
        /\ written[3] = <<second, "i", 1, 1>> /\ written[4] = <<second, "q", 1, 1>>
        /\ DOMAIN written = 1..4
    BY <1>1 DEF Component
  <1>3. ASSUME NEW b \in 1..PayloadLength
        PROVE  Payload(PT8, <<first, second>>)[b] = IF b \in 1..4 THEN written[b] ELSE Junk
    BY <1>2 DEF Payload
  <1> QED
    BY <1>2, <1>3, Lengths DEF Bytes8

LEMMA Payload16 ==
  ASSUME NEW first \in Sample, NEW second \in Sample
  PROVE  Bytes16(Payload(PT16, <<first, second>>), first)
  <1> DEFINE written == Written(PT16, <<first, second>>)
  <1>1. written = [k \in 1..4 |->
                     LET sample == <<first, second>>[1 + (k - 1) \div 4]
                         component == IF ((k - 1) \div 2) % 2 = 0 THEN "i" ELSE "q"
                     IN  Component(sample, component, 2)[1 + ((k - 1) % 2)]]
    BY Widths DEF Written
  <1>2. /\ written[1] = <<first, "i", 1, 2>> /\ written[2] = <<first, "i", 2, 2>>
        /\ written[3] = <<first, "q", 1, 2>> /\ written[4] = <<first, "q", 2, 2>>
        /\ DOMAIN written = 1..4
    BY <1>1 DEF Component
  <1>3. ASSUME NEW b \in 1..PayloadLength
        PROVE  Payload(PT16, <<first, second>>)[b] = IF b \in 1..4 THEN written[b] ELSE Junk
    BY <1>2 DEF Payload
  <1> QED
    BY <1>2, <1>3, Lengths DEF Bytes16

LEMMA PayloadOther ==
  ASSUME NEW type, type # PT8, type # PT16, NEW samples, NEW b \in 1..PayloadLength
  PROVE  Payload(type, samples)[b] = Junk
  <1>1. DOMAIN Written(type, samples) = {}
    BY Widths DEF Written
  <1> QED
    BY <1>1 DEF Payload

LEMMA PayloadSize ==
  ASSUME NEW type, NEW samples
  PROVE  Len(Payload(type, samples)) = PayloadLength
  BY Lengths DEF Payload

\* What a read gives: a component whose bytes lie there, and junk if there is none.
LEMMA ToldType ==
  ASSUME NEW bytes, NEW p, NEW w
  PROVE  Told(bytes, p, w) \in (Sample \X {"i", "q"}) \union {Junk}
  BY DEF Told

LEMMA ToldGives ==
  ASSUME NEW bytes, NEW p \in Nat, NEW w \in {1, 2, 4}, p + w <= Len(bytes),
         NEW s \in Sample, NEW q \in {"i", "q"},
         \A b \in 1..w : bytes[p + b] = <<s, q, b, w>>
  PROVE  Told(bytes, p, w) = <<s, q>>
  <1> DEFINE read == {c \in Sample \X {"i", "q"} :
                        /\ p + w <= Len(bytes)
                        /\ \A b \in 1..w : bytes[p + b] = Component(c[1], c[2], w)[b]}
  <1>1. <<s, q>> \in read
    BY DEF Component
  <1>2. ASSUME NEW c \in read PROVE c = <<s, q>>
    <2>1. 1 \in 1..w
      OBVIOUS
    <2>2. bytes[p + 1] = <<c[1], c[2], 1, w>>
      BY <2>1 DEF Component
    <2>3. bytes[p + 1] = <<s, q, 1, w>>
      BY <2>1
    <2>4. c[1] = s /\ c[2] = q
      BY <2>2, <2>3
    <2>5. c \in Sample \X {"i", "q"}
      OBVIOUS
    <2> QED
      BY <2>4, <2>5
  <1>3. read = {<<s, q>>}
    BY <1>1, <1>2
  <1>4. Told(bytes, p, w) = IF read = {} THEN Junk ELSE CHOOSE c \in read : TRUE
    BY DEF Told
  <1>5. (CHOOSE c \in read : TRUE) \in read
    BY <1>1
  <1> QED
    BY <1>1, <1>2, <1>4, <1>5

\* A place told from two bytes.
LEMMA ToldOfTwo ==
  ASSUME NEW bytes, NEW p \in {0, 2}, Len(bytes) \in Nat, 4 <= Len(bytes),
         NEW s \in Sample, NEW q \in {"i", "q"},
         bytes[p + 1] = <<s, q, 1, 2>>, bytes[p + 2] = <<s, q, 2, 2>>
  PROVE  Told(bytes, p, 2) = <<s, q>>
  <1>1. p \in Nat /\ p + 2 <= Len(bytes) /\ 2 \in {1, 2, 4}
    OBVIOUS
  <1>2. \A b \in 1..2 : bytes[p + b] = <<s, q, b, 2>>
    OBVIOUS
  <1> QED
    BY <1>1, <1>2, ToldGives

LEMMA ToldJunk ==
  ASSUME NEW bytes, NEW p \in Nat, NEW w \in {1, 2, 4},
         p + w <= Len(bytes) =>
           \A s \in Sample : \A q \in {"i", "q"} : bytes[p + 1] # <<s, q, 1, w>>
  PROVE  Told(bytes, p, w) = Junk
  <1> DEFINE read == {c \in Sample \X {"i", "q"} :
                        /\ p + w <= Len(bytes)
                        /\ \A b \in 1..w : bytes[p + b] = Component(c[1], c[2], w)[b]}
  <1>1. ASSUME NEW c \in read PROVE FALSE
    <2>1. 1 \in 1..w
      OBVIOUS
    <2>2. bytes[p + 1] = <<c[1], c[2], 1, w>> /\ p + w <= Len(bytes)
      BY <2>1 DEF Component
    <2>3. c[1] \in Sample /\ c[2] \in {"i", "q"}
      OBVIOUS
    <2> QED
      BY <2>2, <2>3
  <1>2. read = {}
    BY <1>1
  <1>3. Told(bytes, p, w) = IF read = {} THEN Junk ELSE CHOOSE c \in read : TRUE
    BY DEF Told
  <1> QED
    BY <1>2, <1>3

\* A byte of a datagram is junk or tells the width its session writes.
Tells(bytes, type) ==
  \A b \in 1..Len(bytes) :
    \/ bytes[b] = Junk
    \/ /\ type = PT8 /\ b <= 4
       /\ \E s \in Sample : \E q \in {"i", "q"} : bytes[b] = <<s, q, 1, 1>>
    \/ /\ type = PT16 /\ b <= 4
       /\ \E s \in Sample : \E q \in {"i", "q"} : \E k \in {1, 2} : bytes[b] = <<s, q, k, 2>>

LEMMA ByteTells ==
  ASSUME NEW type, NEW first \in Sample, NEW second \in Sample
  PROVE  Tells(Payload(type, <<first, second>>), type)
  <1>1. PICK bytes : bytes = Payload(type, <<first, second>>)
    OBVIOUS
  <1>6. Len(bytes) = PayloadLength
    BY <1>1, PayloadSize
  <1>2. ASSUME NEW b \in 1..PayloadLength
        PROVE  b = 1 \/ b = 2 \/ b = 3 \/ b = 4 \/ b > 4
    BY Lengths
  <1>3. CASE type = PT8
    <2>1. Bytes8(bytes, first, second)
      BY <1>1, <1>3, Payload8
    <2> QED
      BY <1>1, <1>2, <1>3, <1>6, <2>1 DEF Bytes8, Tells
  <1>4. CASE type = PT16
    <2>1. Bytes16(bytes, first)
      BY <1>1, <1>4, Payload16
    <2> QED
      BY <1>1, <1>2, <1>4, <1>6, <2>1 DEF Bytes16, Tells
  <1>5. CASE type # PT8 /\ type # PT16
    BY <1>1, <1>5, <1>6, PayloadOther DEF Tells
  <1> QED
    BY <1>3, <1>4, <1>5

\* A read of another width than was written gives junk.
LEMMA OtherWidth ==
  ASSUME NEW type, NEW bytes, Tells(bytes, type), Len(bytes) \in Nat,
         NEW p \in Nat, NEW w \in {1, 2, 4},
         \/ w = 4
         \/ w = 2 /\ type # PT16
         \/ w = 1 /\ type # PT8
         \/ p >= 4
  PROVE  Told(bytes, p, w) = Junk
  <1> SUFFICES ASSUME p + w <= Len(bytes), NEW s \in Sample, NEW q \in {"i", "q"},
                      bytes[p + 1] = <<s, q, 1, w>>
               PROVE  FALSE
    BY ToldJunk
  <1>1. PICK b \in 1..Len(bytes) : b = p + 1
    OBVIOUS
  <1>2. bytes[b] = <<s, q, 1, w>> /\ <<s, q, 1, w>> # Junk
    BY <1>1, JunkAssumption
  <1>3. \/ type = PT8 /\ b <= 4 /\ w = 1
        \/ type = PT16 /\ b <= 4 /\ w = 2
    <2>1. ASSUME NEW t, NEW r, NEW k, NEW v, bytes[b] = <<t, r, k, v>>
          PROVE  w = v
      BY <1>2, <2>1
    <2>2. \/ /\ type = PT8 /\ b <= 4
             /\ \E t \in Sample : \E r \in {"i", "q"} : bytes[b] = <<t, r, 1, 1>>
          \/ /\ type = PT16 /\ b <= 4
             /\ \E t \in Sample : \E r \in {"i", "q"} : \E k \in {1, 2} :
                  bytes[b] = <<t, r, k, 2>>
      BY <1>2, Zenon DEF Tells
    <2> QED
      BY <2>1, <2>2, Zenon
  <1> QED
    BY <1>1, <1>3, FourTypes

\* A read past the array gives what lies there, and no other read does.
LEMMA ReadBeyond ==
  ASSUME NEW d, NEW p, NEW w
  PROVE  /\ Read(d, p, w) \in Value
         /\ Read(d, p, w) = Beyond <=> p + w > Room(d)
         /\ Read(d, p, w) = Beyond \/ Read(d, p, w) = Told(d.bytes, p, w)
  <1>1. Told(d.bytes, p, w) \in Value /\ Told(d.bytes, p, w) # Beyond
    BY ToldType, BeyondAssumption DEF Value
  <1>2. Beyond \in Value
    BY DEF Value
  <1> QED
    BY <1>1, <1>2, Zenon DEF Read

LEMMA KnownType ==
  ASSUME NEW d, Known(d)
  PROVE  /\ d # Nothing /\ d.header \in Nat /\ Room(d) \in Int
         /\ Len(d.bytes) \in 0..PayloadLength
         /\ \E type : Tells(d.bytes, type)
  <1>1. CASE Sent(d)
    <2>1. d.header = HeaderLength /\ d.from # "none"
      BY <1>1 DEF Sent
    <2>2. PICK type \in {txtype, PT8, PT16, PT32}, first \in Sample, second \in Sample :
            d.bytes = Payload(type, <<first, second>>)
      BY <1>1, Zenon DEF Sent
    <2>3. Len(d.bytes) = PayloadLength /\ Tells(d.bytes, type)
      BY <2>2, PayloadSize, ByteTells
    <2>4. Nothing.from = "none"
      BY DEF Nothing
    <2> QED
      BY <2>1, <2>3, <2>4, Lengths, PacketAssumption DEF Room
  <1>2. CASE d \in Foreign
    <2>1. PICK f \in ForeignSizes :
            d = [from |-> "other", header |-> f.header, bytes |-> [b \in 1 .. f.size |-> Junk]]
      BY <1>2 DEF Foreign
    <2>2. PICK h \in Nat, n \in Nat : /\ h = f.header /\ n = f.size /\ HeaderLength <= h
                                      /\ n = 0 \/ h + n <= PacketLength
      BY ForeignAssumption
    <2>3. PICK bytes : bytes = d.bytes
      OBVIOUS
    <2>4. bytes = [b \in 1..n |-> Junk] /\ d.header = h /\ d.from = "other"
      BY <2>1, <2>2, <2>3
    <2>5. Len(bytes) = n /\ n \in 0..PayloadLength
      BY <2>2, <2>4, PacketAssumption DEF PayloadLength
    <2>6. Tells(bytes, PT8)
      BY <2>4, <2>5 DEF Tells
    <2>7. Nothing.from = "none"
      BY DEF Nothing
    <2> QED
      BY <2>3, <2>4, <2>5, <2>6, <2>7, PacketAssumption DEF Room
  <1> QED
    BY <1>1, <1>2 DEF Known

\* A place of a datagram where no byte of a sample of this width lies.
LEMMA ReadUnwritten ==
  ASSUME NEW d, NEW p, NEW w, Told(d.bytes, p, w) = Junk
  PROVE  Read(d, p, w) \in Unwritten
  BY ReadBeyond DEF Unwritten

LEMMA ForeignIsJunk ==
  ASSUME NEW d \in Foreign, 1 <= Len(d.bytes)
  PROVE  d.bytes[1] = Junk
  <1>1. PICK f \in ForeignSizes :
          d = [from |-> "other", header |-> f.header, bytes |-> [b \in 1 .. f.size |-> Junk]]
    BY DEF Foreign
  <1>2. PICK k \in Nat : k = f.size
    BY ForeignAssumption
  <1>3. d.bytes = [b \in 1..k |-> Junk] /\ Len(d.bytes) = k
    BY <1>1, <1>2
  <1> QED
    BY <1>2, <1>3

\* The pair of two reads, for each type of receiver.
LEMMA StoredSound ==
  ASSUME NEW d, Known(d), NEW n \in Nat
  PROVE  Stored(rxtype, d, n) \in Pair /\ Sound(Stored(rxtype, d, n))
  <1>1. Stored(rxtype, d, n) \in Pair
    BY ReadBeyond DEF Stored, Pair, Value
  <1>2. PICK bytes : bytes = d.bytes
    OBVIOUS
  <1>3. Len(bytes) \in Nat /\ PayloadLength >= 4 /\ PayloadLength \in Nat
    BY <1>2, KnownType, Lengths
  <1>4. PICK type : Tells(bytes, type)
    BY <1>2, KnownType
  \* What is told of a place where a sample of this width lies is that sample's.
  <1>5. ASSUME NEW p \in Nat, NEW w \in {1, 2}, p < 4, Told(bytes, p, w) # Junk
        PROVE  /\ Len(bytes) = PayloadLength
               /\ \E first, second \in Sample :
                    \/ w = 1 /\ Bytes8(bytes, first, second)
                    \/ w = 2 /\ Bytes16(bytes, first)
    <2>1. CASE Sent(d)
      <3>1. PICK t \in {txtype, PT8, PT16, PT32}, first \in Sample, second \in Sample :
              bytes = Payload(t, <<first, second>>)
        BY <1>2, <2>1, Zenon DEF Sent
      <3>2. Len(bytes) = PayloadLength /\ Tells(bytes, t)
        BY <3>1, PayloadSize, ByteTells
      <3>3. (w = 1 /\ t = PT8) \/ (w = 2 /\ t = PT16)
        <4>1. w \in {1, 2, 4}
          BY <1>5
        <4>2. (w = 1 /\ t # PT8) \/ (w = 2 /\ t # PT16) => Told(bytes, p, w) = Junk
          BY <1>3, <3>2, <4>1, OtherWidth
        <4> QED
          BY <1>5, <4>2
      <3>4. w = 1 => Bytes8(bytes, first, second)
        BY <3>1, <3>3, Payload8
      <3>5. w = 2 => Bytes16(bytes, first)
        BY <3>1, <3>3, Payload16
      <3> QED
        BY <3>2, <3>3, <3>4, <3>5
    <2>2. CASE d \in Foreign
      <3>1. PICK f \in ForeignSizes :
              d = [from |-> "other", header |-> f.header, bytes |-> [b \in 1 .. f.size |-> Junk]]
        BY <2>2 DEF Foreign
      <3>2. PICK k \in Nat : k = f.size
        BY ForeignAssumption
      <3>3. bytes = [b \in 1..k |-> Junk] /\ Len(bytes) = k
        BY <1>2, <3>1, <3>2
      <3>4. Told(bytes, p, w) = Junk
        <4>1. ASSUME p + w <= Len(bytes), NEW s \in Sample, NEW q \in {"i", "q"}
              PROVE  bytes[p + 1] # <<s, q, 1, w>>
          <5>1. bytes[p + 1] = Junk
            BY <3>3, <4>1
          <5> QED
            BY <5>1, JunkAssumption
        <4> QED
          BY <4>1, ToldJunk
      <3> QED
        BY <1>5, <3>4
    <2> QED
      BY <2>1, <2>2 DEF Known
  <1>6. CASE rxtype = PT8
    <2>0. PICK p \in Nat : p = 2 * n + 1
      OBVIOUS
    <2>1. Stored(rxtype, d, n) = [i |-> Read(d, p, 1), q |-> Junk]
      BY <1>6, <2>0, Widths DEF Stored
    <2>2. \/ Read(d, p, 1) \in Unwritten
          \/ \E s \in Sample : Read(d, p, 1) = <<s, "q">>
      <3>1. CASE Told(bytes, p, 1) = Junk
        BY <1>2, <3>1, ReadUnwritten
      <3>2. CASE p >= 4
        <4>1. Told(bytes, p, 1) = Junk
          BY <1>3, <1>4, <3>2, OtherWidth
        <4> QED
          BY <3>1, <4>1
      <3>3. CASE p < 4 /\ Told(bytes, p, 1) # Junk
        <4>1. p = 1 \/ p = 3
          BY <2>0, <3>3
        <4>2. PICK first \in Sample, second \in Sample :
                Len(bytes) = PayloadLength /\ Bytes8(bytes, first, second)
          BY <1>5, <3>3
        <4>3. PICK s \in Sample : bytes[p + 1] = <<s, "q", 1, 1>>
          BY <1>3, <4>1, <4>2 DEF Bytes8
        <4>4. /\ \A b \in 1..1 : bytes[p + b] = <<s, "q", b, 1>>
              /\ p + 1 <= Len(bytes) /\ 1 \in {1, 2, 4} /\ "q" \in {"i", "q"}
          BY <1>3, <4>1, <4>2, <4>3
        <4>5. Told(bytes, p, 1) = <<s, "q">>
          BY <4>4, ToldGives
        <4> QED
          BY <1>2, <4>5, ReadBeyond DEF Unwritten
      <3> QED
        BY <3>1, <3>2, <3>3
    <2>3. Junk \in Unwritten
      BY DEF Unwritten
    <2> QED
      BY <1>1, <1>6, <2>1, <2>2, <2>3 DEF Sound, Half, Neither
  <1>7. CASE rxtype = PT16
    <2>1. PICK p \in Nat, r \in Nat : p = 4 * n /\ r = 4 * n + 2
      OBVIOUS
    <2>2. Stored(rxtype, d, n) = [i |-> Read(d, p, 2), q |-> Read(d, r, 2)]
      BY <1>7, <2>1, Widths, FourTypes DEF Stored
    <2>3. CASE Told(bytes, p, 2) = Junk /\ Told(bytes, r, 2) = Junk
      <3>1. Read(d, p, 2) \in Unwritten /\ Read(d, r, 2) \in Unwritten
        BY <1>2, <2>3, ReadUnwritten
      <3> QED
        BY <1>1, <2>2, <3>1 DEF Sound, Neither
    <2>4. CASE Told(bytes, p, 2) # Junk \/ Told(bytes, r, 2) # Junk
      <3>1. n = 0
        <4>1. 2 \in {1, 2, 4}
          OBVIOUS
        <4>2. p >= 4 => Told(bytes, p, 2) = Junk
          BY <1>3, <1>4, <4>1, OtherWidth
        <4>3. r >= 4 => Told(bytes, r, 2) = Junk
          BY <1>3, <1>4, <4>1, OtherWidth
        <4>4. n > 0 => p >= 4 /\ r >= 4
          BY <2>1
        <4> QED
          BY <2>4, <4>2, <4>3, <4>4
      <3>2. p = 0 /\ r = 2
        BY <2>1, <3>1
      <3>3. PICK first \in Sample : Len(bytes) = PayloadLength /\ Bytes16(bytes, first)
        <4>1. 2 \in {1, 2} /\ p < 4 /\ r < 4
          BY <3>2
        <4> QED
          BY <1>5, <2>4, <4>1
      <3>4. /\ bytes[1] = <<first, "i", 1, 2>> /\ bytes[2] = <<first, "i", 2, 2>>
            /\ bytes[3] = <<first, "q", 1, 2>> /\ bytes[4] = <<first, "q", 2, 2>>
        BY <1>3, <3>3 DEF Bytes16
      <3>5. Told(bytes, p, 2) = <<first, "i">>
        <4>1. /\ bytes[p + 1] = <<first, "i", 1, 2>> /\ bytes[p + 2] = <<first, "i", 2, 2>>
              /\ p \in {0, 2} /\ Len(bytes) \in Nat /\ 4 <= Len(bytes) /\ "i" \in {"i", "q"}
          BY <1>3, <3>2, <3>3, <3>4
        <4> QED
          BY <4>1, ToldOfTwo
      <3>6. Told(bytes, r, 2) = <<first, "q">>
        <4>1. /\ bytes[r + 1] = <<first, "q", 1, 2>> /\ bytes[r + 2] = <<first, "q", 2, 2>>
              /\ r \in {0, 2} /\ Len(bytes) \in Nat /\ 4 <= Len(bytes) /\ "q" \in {"i", "q"}
          BY <1>3, <3>2, <3>3, <3>4
        <4> QED
          BY <4>1, ToldOfTwo
      <3>7. Read(d, p, 2) = <<first, "i">> /\ Read(d, r, 2) = <<first, "q">>
        <4>1. Room(d) = PayloadLength
          <5>1. 1 <= Len(bytes) /\ bytes[1] # Junk
            BY <1>3, <3>3, <3>4, JunkAssumption
          <5>2. d \notin Foreign
            BY <1>2, <5>1, ForeignIsJunk
          <5> QED
            BY <5>2 DEF Known, Sent, Room, PayloadLength
        <4>2. ~(p + 2 > Room(d)) /\ ~(r + 2 > Room(d))
          BY <1>3, <3>2, <4>1
        <4> QED
          BY <1>2, <3>5, <3>6, <4>2, ReadBeyond
      <3> QED
        BY <1>1, <1>7, <2>2, <3>7 DEF Sound, Whole, Stored16
    <2> QED
      BY <2>3, <2>4
  <1>8. CASE rxtype # PT8 /\ rxtype # PT16
    <2>1. PICK p \in Nat, r \in Nat : p = 8 * n /\ r = 8 * n + 4
      OBVIOUS
    <2>2. Stored(rxtype, d, n) = [i |-> Read(d, p, 4), q |-> Read(d, r, 4)]
      BY <1>8, <2>1, Widths DEF Stored
    <2>3. 4 \in {1, 2, 4}
      OBVIOUS
    <2>4. Told(bytes, p, 4) = Junk /\ Told(bytes, r, 4) = Junk
      BY <1>3, <1>4, <2>3, OtherWidth
    <2>5. Read(d, p, 4) \in Unwritten /\ Read(d, r, 4) \in Unwritten
      BY <1>2, <2>4, ReadUnwritten
    <2> QED
      BY <1>1, <2>2, <2>5 DEF Sound, Neither
  <1> QED
    BY <1>6, <1>7, <1>8

\* A pair has of what lies past the array if and only if it is not inside.
LEMMA StoredBeyond ==
  ASSUME NEW d, Known(d), NEW n \in Nat \ {0}, NEW pair, pair = Stored(rxtype, d, n - 1)
  PROVE  pair.i = Beyond \/ pair.q = Beyond <=> ~Inside(d, n)
  <1>1. PICK room \in Int : room = Room(d)
    BY KnownType
  <1>2. Junk # Beyond
    BY BeyondAssumption
  <1>3. ASSUME NEW p \in Nat, NEW w \in {1, 2, 4}
        PROVE  Read(d, p, w) = Beyond <=> p + w > room
    BY <1>1, ReadBeyond
  <1>4. CASE rxtype = PT8
    <2>1. PICK p \in Nat : p = 2 * (n - 1) + 1 /\ p + 1 = 2 * n
      <3>1. 2 * (n - 1) + 1 \in Nat /\ 2 * (n - 1) + 1 + 1 = 2 * n
        OBVIOUS
      <3> QED
        BY <3>1
    <2>2. pair = [i |-> Read(d, p, 1), q |-> Junk]
      BY <1>4, <2>1, Widths DEF Stored
    <2>3. Inside(d, n) <=> 2 * n <= room
      BY <1>1, <1>4, Widths DEF Inside
    <2>4. Read(d, p, 1) = Beyond <=> p + 1 > room
      BY <1>3
    <2>5. p + 1 > room <=> ~(2 * n <= room)
      BY <2>1
    <2> QED
      BY <1>2, <2>2, <2>3, <2>4, <2>5
  <1>5. CASE rxtype # PT8
    <2>1. PICK w \in {2, 4} : w = Width(rxtype)
      BY <1>5, Widths
    <2>2. PICK p \in Nat, r \in Nat : /\ p = 2 * w * (n - 1) /\ r = 2 * w * (n - 1) + w
                                      /\ p <= r /\ r + w = 2 * w * n
      <3>1. CASE w = 2
        <4>1. /\ 4 * (n - 1) \in Nat /\ 4 * (n - 1) + 2 \in Nat
              /\ 4 * (n - 1) + 2 + 2 = 4 * n /\ 2 * w = 4
          BY <3>1
        <4> QED
          BY <3>1, <4>1
      <3>2. CASE w = 4
        <4>1. /\ 8 * (n - 1) \in Nat /\ 8 * (n - 1) + 4 \in Nat
              /\ 8 * (n - 1) + 4 + 4 = 8 * n /\ 2 * w = 8
          BY <3>2
        <4> QED
          BY <3>2, <4>1
      <3> QED
        BY <3>1, <3>2
    <2>3. pair = [i |-> Read(d, p, w), q |-> Read(d, r, w)]
      BY <1>5, <2>1, <2>2, Zenon DEF Stored
    <2>4. Inside(d, n) <=> r + w <= room
      BY <1>1, <2>1, <2>2, Zenon DEF Inside
    <2>5. /\ Read(d, p, w) = Beyond <=> p + w > room
          /\ Read(d, r, w) = Beyond <=> r + w > room
      BY <1>3
    <2>6. (p + w > room \/ r + w > room) <=> ~(r + w <= room)
      BY <2>2
    <2> QED
      BY <2>3, <2>4, <2>5, <2>6
  <1> QED
    BY <1>4, <1>5

-----------------------------------------------------------------------------
\* What rtp_sdr_rbuf_put leaves of all that was put, the last of it whole.
LastKept(all, cap) ==
  IF Len(all) <= cap THEN all ELSE SubSeq(all, Len(all) - cap + 1, Len(all))

KeepsLast(S, t, old, new, cap) ==
  /\ t \in Seq(S) /\ Len(t) <= cap /\ Len(t) >= Len(new)
  /\ \A j \in 1..Len(new) : t[Len(t) - Len(new) + j] = new[j]
  /\ \A k \in 1..Len(t) : \/ \E j \in 1..Len(old) : t[k] = old[j]
                          \/ \E j \in 1..Len(new) : t[k] = new[j]

LEMMA PartOf ==
  ASSUME NEW S, NEW s \in Seq(S), NEW a \in Nat \ {0}, NEW b \in Nat,
         a <= b + 1, b <= Len(s)
  PROVE  /\ SubSeq(s, a, b) \in Seq(S) /\ Len(SubSeq(s, a, b)) = b - a + 1
         /\ \A i \in 1 .. b - a + 1 : SubSeq(s, a, b)[i] = s[a + i - 1]
  BY SubSeqProperties

LEMMA LastOf ==
  ASSUME NEW S, NEW old \in Seq(S), NEW new \in Seq(S), NEW cap \in Nat,
         Len(new) <= cap
  PROVE  KeepsLast(S, LastKept(old \o new, cap), old, new, cap)
  <1>8. PICK all : all = old \o new
    OBVIOUS
  <1>9. PICK t : t = IF Len(all) <= cap THEN all ELSE SubSeq(all, Len(all) - cap + 1, Len(all))
    OBVIOUS
  <1> SUFFICES KeepsLast(S, t, old, new, cap)
    BY <1>8, <1>9 DEF LastKept
  <1>1. /\ all \in Seq(S) /\ Len(all) = Len(old) + Len(new)
        /\ \A k \in 1..Len(old) : all[k] = old[k]
        /\ \A k \in 1..Len(new) : all[Len(old) + k] = new[k]
    BY <1>8, ConcatProperties, LenProperties
  <1>2. PICK m \in Nat, n \in Nat : m = Len(old) /\ n = Len(new) /\ n <= cap
    OBVIOUS
  <1>3. ASSUME NEW k \in 1 .. m + n
        PROVE  (\E j \in 1..Len(old) : all[k] = old[j]) \/ (\E j \in 1..Len(new) : all[k] = new[j])
    <2>1. CASE k <= m
      <3>1. k \in 1..Len(old)
        BY <1>2, <2>1
      <3> QED
        BY <1>1, <3>1
    <2>2. CASE k > m
      <3>1. PICK j \in 1..n : k = m + j
        <4>1. k - m \in 1..n /\ k = m + (k - m)
          BY <2>2
        <4> QED
          BY <4>1
      <3>2. j \in 1..Len(new) /\ k = Len(old) + j
        BY <1>2, <3>1
      <3> QED
        BY <1>1, <3>1, <3>2
    <2>3. k <= m \/ k > m
      BY <1>2
    <2> QED
      BY <2>1, <2>2, <2>3, Zenon
  <1>4. \A j \in 1..n : all[m + j] = new[j]
    BY <1>1, <1>2
  <1>5. CASE m + n <= cap
    <2>1. t = all
      BY <1>9, <1>1, <1>2, <1>5
    <2>2. Len(t) = m + n /\ \A j \in 1..n : Len(t) - Len(new) + j = m + j
      <3>1. Len(t) = m + n
        BY <1>1, <1>2, <2>1
      <3>2. \A j \in 1..n : m + n - n + j = m + j
        OBVIOUS
      <3> QED
        BY <1>2, <3>1, <3>2
    <2>3. Len(t) <= cap /\ Len(t) >= Len(new) /\ t \in Seq(S)
      BY <1>1, <1>2, <1>5, <2>1, <2>2
    <2>4. \A j \in 1..n : t[Len(t) - Len(new) + j] = new[j]
      BY <1>4, <2>1, <2>2, Zenon
    <2>5. \A k \in 1..Len(t) : \/ \E j \in 1..Len(old) : t[k] = old[j]
                              \/ \E j \in 1..Len(new) : t[k] = new[j]
      BY <1>3, <2>1, <2>2, Zenon
    <2> QED
      BY <1>2, <2>3, <2>4, <2>5, Zenon DEF KeepsLast
  <1>6. CASE m + n > cap
    <2>1. PICK a \in Nat \ {0}, b \in Nat : a = m + n - cap + 1 /\ b = m + n
      <3>1. m + n - cap + 1 \in Nat \ {0} /\ m + n \in Nat
        BY <1>2, <1>6
      <3> QED
        BY <3>1, Zenon
    <2>2. t = SubSeq(all, a, b) /\ b = Len(all)
      BY <1>9, <1>1, <1>2, <1>6, <2>1
    <2>3. /\ t \in Seq(S) /\ Len(t) = b - a + 1
          /\ \A k \in 1 .. b - a + 1 : t[k] = all[a + k - 1]
      <3>1. all \in Seq(S) /\ a <= b + 1 /\ b <= Len(all)
        BY <1>1, <1>2, <1>6, <2>1, <2>2
      <3>2. /\ SubSeq(all, a, b) \in Seq(S) /\ Len(SubSeq(all, a, b)) = b - a + 1
            /\ \A k \in 1 .. b - a + 1 : SubSeq(all, a, b)[k] = all[a + k - 1]
        BY <3>1, PartOf
      <3> QED
        BY <2>2, <3>2, Zenon
    <2>4. b - a + 1 = cap
      BY <2>1
    <2>5. Len(t) = cap
      BY <2>3, <2>4
    <2>6. ASSUME NEW j \in 1..n PROVE t[cap - n + j] = new[j]
      <3>1. cap - n + j \in 1..cap /\ a + (cap - n + j) - 1 = m + j
        BY <1>2, <2>1
      <3> QED
        BY <1>4, <2>3, <2>4, <3>1
    <2>7. ASSUME NEW k \in 1..cap
          PROVE  (\E j \in 1..Len(old) : t[k] = old[j]) \/ (\E j \in 1..Len(new) : t[k] = new[j])
      <3>1. a + k - 1 \in 1 .. m + n
        BY <1>6, <2>1
      <3>2. t[k] = all[a + k - 1]
        BY <2>3, <2>4
      <3> QED
        BY <1>3, <3>1, <3>2
    <2>8. Len(t) <= cap /\ Len(t) >= Len(new) /\ t \in Seq(S)
      BY <1>2, <2>3, <2>5
    <2>9. \A j \in 1..n : t[Len(t) - Len(new) + j] = new[j]
      BY <1>2, <2>5, <2>6, Zenon
    <2>10. \A k \in 1..Len(t) : \/ \E j \in 1..Len(old) : t[k] = old[j]
                               \/ \E j \in 1..Len(new) : t[k] = new[j]
      BY <2>5, <2>7, Zenon
    <2> QED
      BY <1>2, <2>8, <2>9, <2>10, Zenon DEF KeepsLast
  <1>7. m + n <= cap \/ m + n > cap
    BY <1>2
  <1> QED
    BY <1>5, <1>6, <1>7, Zenon

LEMMA SentType ==
  ASSUME NEW d, Sent(d)
  PROVE  d.from \in {"self", "peer"} /\ Len(d.bytes) = PayloadLength /\ d # Nothing
  <1>1. d.from \in {"self", "peer"}
    BY DEF Sent
  <1>2. PICK type \in {txtype, PT8, PT16, PT32}, first \in Sample, second \in Sample :
          d.bytes = Payload(type, <<first, second>>)
    BY Zenon DEF Sent
  <1>3. Nothing.from = "none"
    BY DEF Nothing
  <1> QED
    BY <1>1, <1>2, <1>3, PayloadSize

LEMMA IqInvInit == IqInit => IqInv
  <1> SUFFICES ASSUME IqInit PROVE IqInv
    OBVIOUS
  <1>1. {txtype, rxtype} \intersect Types # {}
    <2>1. PICK txbits \in TypeArgs, rxbits \in TypeArgs :
            Accepted(txbits, rxbits) /\ txtype = Type(txbits) /\ rxtype = Type(rxbits)
      BY Zenon DEF IqInit
    <2>2. ASSUME NEW bits, Good(bits) PROVE Type(bits) \in Types
      <3>1. bits \in {8, 16, 24, 32}
        BY <2>2 DEF Good
      <3> QED
        BY <3>1 DEF Type, Types, PT8, PT16, PT24, PT32
    <2> QED
      BY <2>1, <2>2 DEF Accepted
  <1>2. ring = <<>> /\ last = Nothing /\ flight = {} /\ lost = 0 /\ failures = 0
        /\ rxheader = FALSE /\ slept = FALSE /\ fatal = "no"
    BY DEF IqInit
  <1>3. ring \in Seq([i : Value, q : Value]) /\ Len(ring) <= Capacity
    BY <1>2, Lengths
  <1>4. IqTypeOK
    BY <1>1, <1>2, <1>3 DEF IqTypeOK
  <1>5. Counted /\ FlightInv /\ EndInv /\ NeverPaced
    <2>1. (IF rxheader THEN 1 ELSE 0) = 0 /\ lost + 0 = failures + 0 /\ lost \in Nat
          /\ (IF fatal = "overread" THEN 1 ELSE 0) = 0
      BY <1>2
    <2>2. Counted
      BY <1>2, <2>1 DEF Counted, HeadersAccounted
    <2> QED
      BY <1>2, <2>2 DEF FlightInv, EndInv, NeverPaced
  <1>6. RingInv
    BY <1>2 DEF RingInv, RingSound
  <1> QED
    BY <1>4, <1>5, <1>6 DEF IqInv

\* A step that takes no datagram out of the socket and makes no header: what it adds to
\* those under way is of some session.
Ends == {"no", "division", "use after free"}

LEMMA IqQuiet ==
  ASSUME IqInv,
         UNCHANGED <<txtype, rxtype, ring, rxheader, lost, failures, last>>,
         \A d \in flight' : d \in flight \/ Sent(d),
         slept' = slept,
         fatal' = fatal \/ (fatal \in Ends /\ fatal' \in Ends)
  PROVE  IqInv'
  <1>1. \A d \in flight' : Sent(d)
    BY DEF IqInv, FlightInv
  <1>2. FlightInv'
    BY <1>1 DEF IqInv, FlightInv, Known, Sent
  <1>3. IqTypeOK'
    <2>1. \A d \in flight' \union ({last} \ ({Nothing} \union Foreign)) :
            d.from \in {"self", "peer"} /\ Len(d.bytes) = PayloadLength
      BY <1>1, SentType DEF IqInv, FlightInv, Known
    <2>2. fatal' \in {"no", "division", "use after free", "overread"}
      BY DEF IqInv, IqTypeOK, Ends
    <2> QED
      BY <2>1, <2>2 DEF IqInv, IqTypeOK
  <1>4. fatal' = "overread" <=> fatal = "overread"
    BY DEF Ends
  <1>5. RingInv' /\ Counted'
    <2>1. Stored(rxtype, last, 0)' = Stored(rxtype, last, 0)
      OBVIOUS
    <2> QED
      BY <1>4 DEF IqInv, RingInv, RingSound, Counted, HeadersAccounted, Sound, Whole, Half, Neither
  <1>6. NeverPaced' /\ EndInv'
    BY <1>4 DEF IqInv, NeverPaced, EndInv, Inside
  <1> QED
    BY <1>2, <1>3, <1>5, <1>6 DEF IqInv

\* What is carried of two samples at most is never too fast.
LEMMA PauseNeverWaits ==
  ASSUME NEW type, NEW elapsed \in Elapsed, Pause(Carried(type), elapsed)
  PROVE  slept' = slept \/ slept' = (slept \/ FALSE)
  <1>1. PICK n \in 0..2 : n = Carried(type)
    BY Widths
  <1>2. elapsed \in Int /\ MinRate \in Nat /\ MinRate > 16000
    BY RateAssumption
  <1>3. ~TooFast(n, elapsed)
    <2>1. CASE elapsed > 0
      <3>1. PICK q \in Nat : q = (n * 8 * 1000) \div elapsed /\ q * elapsed <= n * 8 * 1000
        BY <1>2, <2>1
      <3>2. q <= q * elapsed
        BY <1>2, <2>1
      <3>3. q <= 16000
        BY <1>1, <1>2, <2>1, <3>1, <3>2
      <3> QED
        BY <1>2, <3>1, <3>3 DEF TooFast
    <2> QED
      BY <2>1 DEF TooFast
  <1> QED
    BY <1>1, <1>3 DEF Pause

LEMMA IqTransmits ==
  ASSUME IqInv, NEW first \in Sample, NEW second \in Sample, NEW elapsed \in Elapsed,
         Transmit(first, second, elapsed)
  PROVE  IqInv'
  <1>1. PICK d : d = Datagram("self", txtype, <<first, second>>)
    OBVIOUS
  <1>2. Sent(d)
    BY <1>1 DEF Sent, Datagram
  <1>3. flight' = flight \union Heard(d)
    BY <1>1 DEF Transmit
  <1>4. \A e \in flight' : e \in flight \/ Sent(e)
    BY <1>2, <1>3 DEF Heard
  <1>5. slept' = slept
    BY PauseNeverWaits DEF Transmit, IqInv, IqTypeOK
  <1>6. fatal \in Ends /\ fatal' \in Ends
    BY DEF Transmit, Pause, Alive, Ends
  <1> QED
    BY <1>4, <1>5, <1>6, IqQuiet DEF Transmit

LEMMA IqPeerSends ==
  ASSUME IqInv, NEW type \in {PT8, PT16, PT32}, NEW first \in Sample, NEW second \in Sample,
         PeerSends(type, first, second)
  PROVE  IqInv'
  <1>1. PICK d : d = Datagram("peer", type, <<first, second>>)
    OBVIOUS
  <1>2. Sent(d)
    BY <1>1 DEF Sent, Datagram
  <1>3. flight' = flight \union Heard(d)
    BY <1>1 DEF PeerSends
  <1>4. \A e \in flight' : e \in flight \/ Sent(e)
    BY <1>2, <1>3 DEF Heard
  <1>5. slept' = slept /\ fatal' = fatal
    BY DEF PeerSends
  <1> QED
    BY <1>4, <1>5, IqQuiet DEF PeerSends

\* A header that is still there is lost to the one that is made.
LEMMA HeaderCounted ==
  ASSUME IqInv, Alive, NewHeader
  PROVE  lost' \in Nat /\ lost' = failures
  <1>1. (IF fatal = "overread" THEN 1 ELSE 0) = 0
    BY DEF Alive
  <1>2. lost \in Nat /\ failures \in Nat /\ lost + (IF rxheader THEN 1 ELSE 0) = failures + 0
    BY <1>1 DEF IqInv, Counted, HeadersAccounted
  <1>3. lost' = lost + (IF rxheader THEN 1 ELSE 0)
    BY DEF NewHeader
  <1>4. (IF rxheader THEN 1 ELSE 0) \in Nat
    OBVIOUS
  <1> QED
    BY <1>2, <1>3, <1>4

LEMMA IqReceiveFails ==
  ASSUME IqInv, ReceiveFails
  PROVE  IqInv'
  <1>1. lost' \in Nat /\ lost' = failures /\ rxheader' = TRUE /\ failures' = failures + 1
    BY HeaderCounted DEF ReceiveFails
  <1>2. UNCHANGED <<txtype, rxtype, flight, ring, slept, last, fatal>> /\ fatal # "overread"
    BY DEF ReceiveFails, Alive
  <1>3. Counted'
    BY <1>1, <1>2 DEF Counted, HeadersAccounted
  <1>4. IqTypeOK'
    BY <1>1, <1>2 DEF IqInv, IqTypeOK
  <1>5. FlightInv' /\ NeverPaced' /\ EndInv'
    BY <1>2 DEF IqInv, FlightInv, Known, Sent, NeverPaced, EndInv
  <1>6. RingInv'
    BY <1>2 DEF IqInv, RingInv, RingSound, Sound, Whole, Half, Neither
  <1> QED
    BY <1>3, <1>4, <1>5, <1>6 DEF IqInv

\* What the ring keeps of its own samples and of those a datagram adds.
LEMMA RingKeeps ==
  ASSUME IqInv, NEW d, Known(d), NEW n \in 0..Len(d.bytes), NEW t, t = Put(Loop(d, n))
  PROVE  /\ t \in Seq(Pair) /\ Len(t) <= Capacity /\ Len(t) >= n
         /\ \A j \in 1..n : t[Len(t) - n + j] = Stored(rxtype, d, j - 1)
         /\ \A k \in 1..Len(t) : Sound(t[k])
  <1>1. n \in Nat /\ n <= PayloadLength
    BY KnownType, Lengths
  <1>2. PICK pairs \in Seq(Pair) :
          /\ pairs = Loop(d, n) /\ Len(pairs) = n
          /\ \A k \in 1..n : pairs[k] = Stored(rxtype, d, k - 1) /\ Sound(pairs[k])
    <2>1. ASSUME NEW k \in 1..n
          PROVE  Stored(rxtype, d, k - 1) \in Pair /\ Sound(Stored(rxtype, d, k - 1))
      BY <1>1, StoredSound
    <2>2. PICK pairs : pairs = Loop(d, n)
      OBVIOUS
    <2>3. pairs = [k \in 1..n |-> Stored(rxtype, d, k - 1)]
      BY <2>2 DEF Loop
    <2>4. pairs \in Seq(Pair) /\ Len(pairs) = n
      BY <1>1, <2>1, <2>3
    <2>5. \A k \in 1..n : pairs[k] = Stored(rxtype, d, k - 1) /\ Sound(pairs[k])
      BY <2>1, <2>3
    <2> QED
      BY <2>2, <2>4, <2>5, Zenon
  <1>3. PICK old \in Seq(Pair) : old = ring /\ \A k \in 1..Len(old) : Sound(old[k])
    <2>1. ring \in Seq(Pair) /\ \A k \in DOMAIN ring : Sound(ring[k])
      BY DEF IqInv, IqTypeOK, Pair, RingInv, RingSound
    <2>2. DOMAIN ring = 1..Len(ring)
      BY <2>1
    <2> QED
      BY <2>1, <2>2
  <1>4. t = LastKept(old \o pairs, Capacity)
    BY <1>2, <1>3 DEF Put, LastKept
  <1>5. KeepsLast(Pair, t, old, pairs, Capacity)
    <2>1. Len(pairs) <= Capacity /\ Capacity \in Nat
      BY <1>1, <1>2, Lengths
    <2> QED
      BY <1>4, <2>1, LastOf
  <1>6. /\ t \in Seq(Pair) /\ Len(t) <= Capacity /\ Len(t) >= n
        /\ \A j \in 1..n : t[Len(t) - n + j] = pairs[j]
        /\ \A k \in 1..Len(t) : \/ \E j \in 1..Len(old) : t[k] = old[j]
                                \/ \E j \in 1..n : t[k] = pairs[j]
    BY <1>2, <1>5, Zenon DEF KeepsLast
  <1>7. \A k \in 1..Len(t) : Sound(t[k])
    BY <1>2, <1>3, <1>6, Zenon
  <1> QED
    BY <1>2, <1>6, <1>7, Zenon

\* The parts of the invariant that a datagram received changes, whatever became of it.
LEMMA IqTakes ==
  ASSUME IqInv, NEW d, Known(d), NEW n \in 0..Len(d.bytes),
         UNCHANGED <<txtype, rxtype, flight, slept>>, last' = d, ring' = Put(Loop(d, n)),
         lost' \in Nat, rxheader' \in BOOLEAN,
         fatal' \in {"no", "division", "use after free", "overread"}
  PROVE  /\ IqTypeOK' /\ FlightInv' /\ NeverPaced'
         /\ RingSound'
         /\ Len(ring') >= n
         /\ \A j \in 1..n : ring'[Len(ring') - n + j] = Stored(rxtype, d, j - 1)
  <1>1. PICK t : t = ring'
    OBVIOUS
  <1>2. /\ t \in Seq(Pair) /\ Len(t) <= Capacity /\ Len(t) >= n
        /\ \A j \in 1..n : t[Len(t) - n + j] = Stored(rxtype, d, j - 1)
        /\ \A k \in 1..Len(t) : Sound(t[k])
    BY <1>1, RingKeeps
  <1>3. IqTypeOK'
    <2>1. ring' \in Seq([i : Value, q : Value]) /\ Len(ring') <= Capacity
      BY <1>1, <1>2 DEF Pair
    <2>2. \A e \in flight' \union ({last'} \ ({Nothing} \union Foreign)) :
            e.from \in {"self", "peer"} /\ Len(e.bytes) = PayloadLength
      BY SentType DEF IqInv, FlightInv, Known
    <2> QED
      BY <2>1, <2>2 DEF IqInv, IqTypeOK
  <1>4. FlightInv' /\ NeverPaced'
    BY DEF IqInv, FlightInv, Known, Sent, NeverPaced
  <1>5. RingSound'
    <2>1. DOMAIN t = 1..Len(t) /\ \A k \in 1..Len(t) : Sound(t[k])
      <3>1. t \in Seq(Pair)
        BY <1>2
      <3>2. DOMAIN t = 1..Len(t)
        BY <3>1, Places
      <3> QED
        BY <1>2, <3>2, Zenon
    <2>2. ASSUME NEW k \in DOMAIN ring' PROVE Sound(ring[k])'
      <3>1. PICK pair : pair = ring'[k] /\ Sound(pair)
        BY <1>1, <2>1, Zenon
      <3>2. rxtype' = rxtype
        OBVIOUS
      <3> QED
        BY <3>1, <3>2 DEF Sound, Whole, Half, Neither
    <2> QED
      BY <2>2 DEF RingSound
  <1> QED
    BY <1>1, <1>2, <1>3, <1>4, <1>5

LEMMA IqReceives ==
  ASSUME IqInv, NEW d, Known(d), Receive(d)
  PROVE  IqInv'
  <1>1. lost' \in Nat /\ lost' = failures /\ rxheader' = FALSE /\ failures' = failures
    BY HeaderCounted DEF Receive
  <1>2. /\ UNCHANGED <<txtype, rxtype, flight, slept, fatal>> /\ last' = d
        /\ ring' = Put(Loop(d, Len(d.bytes))) /\ fatal = "no"
    BY DEF Receive, Alive
  <1>3. PICK n \in 0..Len(d.bytes) : n = Len(d.bytes)
    BY KnownType
  <1>4. /\ IqTypeOK' /\ FlightInv' /\ NeverPaced'
        /\ RingSound'
        /\ Len(ring') >= n
        /\ \A j \in 1..n : ring'[Len(ring') - n + j] = Stored(rxtype, d, j - 1)
    BY <1>1, <1>2, <1>3, IqTakes
  <1>5. RingInv'
    <2>1. Len(last'.bytes) = n /\ last' = d /\ rxtype' = rxtype
      BY <1>2, <1>3
    <2>2. \A j : Stored(rxtype', last', j) = Stored(rxtype, d, j)
      BY <2>1, Zenon
    <2>3. /\ Len(ring') >= Len(last'.bytes)
          /\ \A j \in 1..Len(last'.bytes) :
               ring'[Len(ring') - Len(last'.bytes) + j] = Stored(rxtype', last', j - 1)
      BY <1>4, <2>1, <2>2
    <2> QED
      BY <1>4, <2>3 DEF RingInv, Stored, Read, Told, Room, Width
  <1>6. Counted' /\ EndInv'
    <2>1. (IF rxheader' THEN 1 ELSE 0) = 0 /\ (IF fatal' = "overread" THEN 1 ELSE 0) = 0
      BY <1>1, <1>2
    <2>2. lost' + 0 = failures' + 0
      BY <1>1
    <2> QED
      BY <1>1, <1>2, <2>1, <2>2 DEF Counted, HeadersAccounted, EndInv
  <1> QED
    BY <1>4, <1>5, <1>6 DEF IqInv

\* The end leaves one header more than the failures before it.
LEMMA IqOverreads ==
  ASSUME IqInv, NEW d, Known(d), NEW n \in 0..Len(d.bytes), Overread(d, n),
         ~Inside(d, Len(d.bytes))
  PROVE  IqInv'
  <1>1. lost' \in Nat /\ lost' = failures /\ rxheader' = TRUE /\ failures' = failures
    BY HeaderCounted DEF Overread
  <1>2. /\ UNCHANGED <<txtype, rxtype, flight, slept>> /\ last' = d
        /\ ring' = Put(Loop(d, n)) /\ fatal' = "overread"
    BY DEF Overread
  <1>3. /\ IqTypeOK' /\ FlightInv' /\ NeverPaced'
        /\ RingSound'
    BY <1>1, <1>2, IqTakes
  <1>4. RingInv'
    <2>1. RingSound'
      BY <1>3
    <2>2. fatal' = "overread"
      BY <1>2
    <2> QED
      BY <2>1, <2>2, Zenon DEF RingInv
  <1>5. EndInv'
    BY <1>2 DEF EndInv, Inside
  <1>6. Counted'
    <2>1. (IF rxheader' THEN 1 ELSE 0) = 1 /\ (IF fatal' = "overread" THEN 1 ELSE 0) = 1
      BY <1>1, <1>2
    <2>2. lost' + 1 = failures' + 1
      BY <1>1
    <2> QED
      BY <1>1, <2>1, <2>2 DEF Counted, HeadersAccounted
  <1> QED
    BY <1>3, <1>4, <1>5, <1>6 DEF IqInv

\* What is not inside makes the whole datagram too long for the array.
LEMMA NotInside ==
  ASSUME NEW d, Known(d)
  PROVE  /\ \A n \in 0..Len(d.bytes) : ~Inside(d, n) => ~Inside(d, Len(d.bytes))
         /\ Room(d) < 0 => ~Inside(d, Len(d.bytes))
  <1>1. PICK w \in {1, 2, 4} : w = Width(rxtype)
    BY Widths
  <1>2. PICK room \in Int, m \in Nat : room = Room(d) /\ m = Len(d.bytes)
    BY KnownType, Lengths
  <1>3. \A n \in Nat : Inside(d, n) <=> 2 * w * n <= room
    BY <1>1, <1>2, Zenon DEF Inside
  <1>4. ASSUME NEW n \in 0..m PROVE 2 * w * n <= 2 * w * m /\ 0 <= 2 * w * m
    <2>1. CASE w = 1
      BY <2>1
    <2>2. CASE w = 2
      BY <2>2
    <2>3. CASE w = 4
      BY <2>3
    <2> QED
      BY <2>1, <2>2, <2>3
  <1>5. ASSUME NEW n \in 0..m, ~Inside(d, n) PROVE ~Inside(d, m)
    <2>1. PICK p \in Int, q \in Int : p = 2 * w * n /\ q = 2 * w * m /\ p <= q
      BY <1>1, <1>4
    <2>2. ~(p <= room)
      BY <1>3, <1>5, <2>1
    <2>3. ~(q <= room)
      BY <2>1, <2>2
    <2> QED
      BY <1>3, <2>1, <2>3
  <1>6. ASSUME room < 0 PROVE ~Inside(d, m)
    <2>1. PICK q \in Int : q = 2 * w * m /\ 0 <= q
      <3>1. 0 \in 0..m
        OBVIOUS
      <3> QED
        BY <1>1, <1>4, <3>1
    <2>2. ~(q <= room)
      BY <1>6, <2>1
    <2> QED
      BY <1>3, <2>1, <2>2
  <1> QED
    BY <1>2, <1>5, <1>6

LEMMA IqOverreadsSomewhere ==
  ASSUME IqInv, NEW d, Known(d),
         HeaderOverreads(d) \/ \E n \in 0..Len(d.bytes) : LoopOverreads(d, n)
  PROVE  IqInv'
  <1>1. Len(d.bytes) \in Nat
    BY KnownType, Lengths
  <1>2. CASE HeaderOverreads(d)
    <2>1. 0 \in 0..Len(d.bytes) /\ Overread(d, 0) /\ ~Inside(d, Len(d.bytes))
      BY <1>1, <1>2, NotInside DEF HeaderOverreads
    <2> QED
      BY <2>1, IqOverreads
  <1>3. ASSUME NEW n \in 0..Len(d.bytes), LoopOverreads(d, n) PROVE IqInv'
    <2>1. n < Len(d.bytes) /\ ~Inside(d, n + 1) /\ Overread(d, n)
      BY <1>3 DEF LoopOverreads
    <2>2. n + 1 \in 0..Len(d.bytes)
      BY <1>1, <2>1
    <2>3. ~Inside(d, Len(d.bytes))
      BY <2>1, <2>2, NotInside
    <2> QED
      BY <2>1, <2>3, IqOverreads
  <1> QED
    BY <1>2, <1>3

LEMMA IqInvStep == IqInv /\ [IqNext]_iqVars => IqInv'
  <1> SUFFICES ASSUME IqInv, [IqNext]_iqVars PROVE IqInv'
    OBVIOUS
  <1>1. CASE Freed \/ SendFails \/ NoFile \/ UNCHANGED iqVars
    <2>1. /\ UNCHANGED <<txtype, rxtype, flight, ring, rxheader, lost, failures, slept, last>>
          /\ fatal' = fatal \/ (fatal \in Ends /\ fatal' \in Ends)
      BY <1>1 DEF Freed, SendFails, NoFile, iqVars, Alive, Ends
    <2> QED
      BY <2>1, IqQuiet
  <1>2. CASE TimesOut \/ BadPacket \/ UnknownType
    BY <1>2, IqReceiveFails DEF TimesOut, BadPacket, UnknownType
  <1>3. ASSUME NEW d \in flight, Lose(d) PROVE IqInv'
    <2>1. /\ UNCHANGED <<txtype, rxtype, ring, rxheader, lost, failures, slept, last>>
          /\ \A e \in flight' : e \in flight
          /\ fatal' = fatal
      BY <1>3 DEF Lose
    <2> QED
      BY <2>1, IqQuiet
  <1>4. ASSUME NEW d \in flight \union Foreign,
               \/ Receive(d) \/ HeaderOverreads(d)
               \/ \E n \in 0..Len(d.bytes) : LoopOverreads(d, n)
        PROVE  IqInv'
    <2>1. Known(d)
      BY DEF IqInv, FlightInv, Known
    <2> QED
      BY <1>4, <2>1, IqReceives, IqOverreadsSomewhere
  <1>5. ASSUME NEW first \in Sample, NEW second \in Sample, NEW elapsed \in Elapsed,
               Transmit(first, second, elapsed)
        PROVE  IqInv'
    BY <1>5, IqTransmits
  <1>6. ASSUME NEW type \in {PT8, PT16, PT32}, NEW first \in Sample, NEW second \in Sample,
               PeerSends(type, first, second)
        PROVE  IqInv'
    BY <1>6, IqPeerSends
  <1> QED
    BY <1>1, <1>2, <1>3, <1>4, <1>5, <1>6, Zenon DEF IqNext

\* The first bytes of such a datagram, one by one.
LEMMA FirstBytes ==
  ASSUME NEW bytes, NEW s \in Sample, 4 <= Len(bytes),
         SubSeq(bytes, 1, 4) = Component(s, "i", 2) \o Component(s, "q", 2)
  PROVE  /\ bytes[1] = <<s, "i", 1, 2>> /\ bytes[2] = <<s, "i", 2, 2>>
         /\ bytes[3] = <<s, "q", 1, 2>> /\ bytes[4] = <<s, "q", 2, 2>>
  <1>1. PICK S : S = Sample \X {"i", "q"} \X {1, 2} \X {2}
    OBVIOUS
  <1>2. PICK left \in Seq(S), right \in Seq(S) :
          /\ left = Component(s, "i", 2) /\ right = Component(s, "q", 2)
          /\ Len(left) = 2 /\ Len(right) = 2
    <2>1. ASSUME NEW q \in {"i", "q"}
          PROVE  Component(s, q, 2) \in Seq(S) /\ Len(Component(s, q, 2)) = 2
      <3>1. Component(s, q, 2) = [b \in 1..2 |-> <<s, q, b, 2>>]
        BY DEF Component
      <3>2. ASSUME NEW b \in 1..2 PROVE <<s, q, b, 2>> \in S
        BY <1>1
      <3>3. Component(s, q, 2) \in [1..2 -> S]
        BY <3>1, <3>2
      <3>4. \A n \in Nat : \A f \in [1..n -> S] : f \in Seq(S) /\ Len(f) = n
        OBVIOUS
      <3>5. 2 \in Nat
        OBVIOUS
      <3> QED
        BY <3>3, <3>4, <3>5, Zenon
    <2> QED
      BY <2>1
  <1>3. /\ (left \o right)[1] = left[1] /\ (left \o right)[2] = left[2]
        /\ (left \o right)[3] = right[1] /\ (left \o right)[4] = right[2]
    <2>1. ASSUME NEW k \in {1, 2}
          PROVE  (left \o right)[k] = left[k] /\ (left \o right)[2 + k] = right[k]
      <3>1. k \in 1..Len(left) /\ k \in 1..Len(right)
        BY <1>2
      <3>2. (left \o right)[k] = left[k] /\ (left \o right)[Len(left) + k] = right[k]
        BY <3>1, ConcatProperties, LenProperties
      <3> QED
        BY <1>2, <3>2
    <2>2. 2 + 1 = 3 /\ 2 + 2 = 4
      OBVIOUS
    <2> QED
      BY <2>1, <2>2
  <1>5. /\ left[1] = <<s, "i", 1, 2>> /\ left[2] = <<s, "i", 2, 2>>
        /\ right[1] = <<s, "q", 1, 2>> /\ right[2] = <<s, "q", 2, 2>>
    BY <1>2 DEF Component
  <1>4. \A b \in 1..4 : SubSeq(bytes, 1, 4)[b] = bytes[b]
    OBVIOUS
  <1> QED
    BY <1>2, <1>3, <1>4, <1>5

\* The sample of a datagram of sixteen bits is read whole.
LEMMA SampleRead ==
  ASSUME NEW d, NEW bytes, bytes = d.bytes, NEW s \in Sample, 4 <= Len(bytes), 4 <= Room(d),
         Room(d) \in Int, Len(bytes) \in Nat,
         SubSeq(bytes, 1, 4) = Component(s, "i", 2) \o Component(s, "q", 2)
  PROVE  Stored(PT16, d, 0) = [i |-> <<s, "i">>, q |-> <<s, "q">>]
  <1>1. /\ bytes[1] = <<s, "i", 1, 2>> /\ bytes[2] = <<s, "i", 2, 2>>
        /\ bytes[3] = <<s, "q", 1, 2>> /\ bytes[4] = <<s, "q", 2, 2>>
    BY FirstBytes
  <1>2. Told(bytes, 0, 2) = <<s, "i">>
    <2>1. /\ bytes[0 + 1] = <<s, "i", 1, 2>> /\ bytes[0 + 2] = <<s, "i", 2, 2>>
          /\ 0 \in {0, 2} /\ "i" \in {"i", "q"}
      BY <1>1
    <2> QED
      BY <2>1, ToldOfTwo
  <1>3. Told(bytes, 2, 2) = <<s, "q">>
    <2>1. /\ bytes[2 + 1] = <<s, "q", 1, 2>> /\ bytes[2 + 2] = <<s, "q", 2, 2>>
          /\ 2 \in {0, 2} /\ "q" \in {"i", "q"}
      BY <1>1
    <2> QED
      BY <2>1, ToldOfTwo
  <1>4. Stored(PT16, d, 0) = [i |-> Read(d, 2 * 2 * 0, 2), q |-> Read(d, 2 * 2 * 0 + 2, 2)]
    BY Widths, FourTypes DEF Stored
  <1>5. 2 * 2 * 0 = 0 /\ 2 * 2 * 0 + 2 = 2
    OBVIOUS
  <1>6. Read(d, 0, 2) = Told(bytes, 0, 2) /\ Read(d, 2, 2) = Told(bytes, 2, 2)
    <2>1. ~(0 + 2 > Room(d)) /\ ~(2 + 2 > Room(d))
      OBVIOUS
    <2> QED
      BY <2>1 DEF Read
  <1> QED
    BY <1>2, <1>3, <1>4, <1>5, <1>6

LEMMA IqInvImplies == IqInv => SampleArrives
  <1> SUFFICES ASSUME IqInv PROVE SampleArrives
    OBVIOUS
  <1>1. ASSUME NEW s \in Sample, rxtype = PT16, last # Nothing, fatal # "overread",
               Len(last.bytes) >= 4,
               SubSeq(last.bytes, 1, 4) = Component(s, "i", 2) \o Component(s, "q", 2)
        PROVE  LET k == Len(ring) - Len(last.bytes) + 1
               IN  k \in DOMAIN ring /\ ring[k] = [i |-> <<s, "i">>, q |-> <<s, "q">>]
    <2>0. Known(last)
      BY <1>1 DEF IqInv, FlightInv
    <2>1. PICK n \in Nat : n = Len(last.bytes) /\ n >= 4
      <3>1. Len(last.bytes) \in Nat
        BY <2>0, KnownType, Lengths
      <3>2. Len(last.bytes) >= 4
        BY <1>1
      <3> QED
        BY <3>1, <3>2
    <2>2. Len(ring) >= n /\ ring[Len(ring) - n + 1] = Stored(PT16, last, 0)
      <3>1. 1 \in 1..n /\ 1 - 1 = 0
        BY <2>1
      <3>2. /\ Len(ring) >= n
            /\ \A k \in 1..n : ring[Len(ring) - n + k] = Stored(rxtype, last, k - 1)
        BY <1>1, <2>1 DEF IqInv, RingInv
      <3>3. ring[Len(ring) - n + 1] = Stored(rxtype, last, 1 - 1)
        BY <3>1, <3>2
      <3> QED
        BY <1>1, <3>1, <3>2, <3>3
    <2>3. Room(last) = PayloadLength
      <3>1. last.bytes[1] # Junk
        <4>1. last.bytes[1] = <<s, "i", 1, 2>>
          BY <1>1, <2>1, FirstBytes
        <4> QED
          BY <4>1, JunkAssumption
      <3>2. last \notin Foreign
        BY <2>1, <3>1, ForeignIsJunk
      <3> QED
        BY <1>1, <3>2 DEF IqInv, FlightInv, Known, Sent, Room, PayloadLength
    <2>4. Stored(PT16, last, 0) = [i |-> <<s, "i">>, q |-> <<s, "q">>]
      <3>1. Room(last) \in Int /\ 4 <= Room(last) /\ 4 <= Len(last.bytes) /\ Len(last.bytes) \in Nat
        BY <2>1, <2>3, Lengths
      <3> QED
        BY <1>1, <2>1, <3>1, SampleRead
    <2>5. Len(ring) - n + 1 \in DOMAIN ring
      <3>1. ring \in Seq([i : Value, q : Value])
        BY DEF IqInv, IqTypeOK
      <3>2. PICK t \in Seq([i : Value, q : Value]), m \in Nat : t = ring /\ m = Len(t) /\ m >= n
        BY <2>2, <3>1
      <3>3. m - n + 1 \in 1..m /\ DOMAIN t = 1..m
        BY <2>1, <3>2
      <3> QED
        BY <3>2, <3>3
    <2> QED
      BY <2>1, <2>2, <2>4, <2>5
  <1>2. ASSUME NEW k \in DOMAIN ring
        PROVE  \/ rxtype = PT16 /\ ring[k] \in Stored16
               \/ rxtype = PT8 /\ ring[k].i \in {<<s, "q">> : s \in Sample} /\ ring[k].q = Junk
               \/ ring[k].i \in Unwritten /\ ring[k].q \in Unwritten
    BY DEF IqInv, RingInv, RingSound, Sound, Whole, Half, Neither
  <1> QED
    BY <1>1, <1>2 DEF SampleArrives

LEMMA IqInvEnds == IqInv => OverreadsOnlyLong
  <1> SUFFICES ASSUME IqInv PROVE OverreadsOnlyLong
    OBVIOUS
  <1>1. ASSUME last # Nothing, fatal # "overread", NEW n \in 1..Len(last.bytes),
               NEW pair, pair = ring[Len(ring) - Len(last.bytes) + n]
        PROVE  pair.i = Beyond \/ pair.q = Beyond <=> ~Inside(last, n)
    <2>1. Known(last) /\ Len(last.bytes) \in Nat
      BY <1>1, KnownType, Lengths DEF IqInv, FlightInv
    <2>2. pair = Stored(rxtype, last, n - 1)
      BY <1>1, Zenon DEF IqInv, RingInv
    <2>3. n \in Nat \ {0}
      BY <2>1
    <2> QED
      BY <2>1, <2>2, <2>3, StoredBeyond
  <1> QED
    BY <1>1 DEF OverreadsOnlyLong, IqInv, EndInv

\* The specification of samples keeps its invariant.
LEMMA IqInvariant == IqSessions => []IqInv
  BY IqInvInit, IqInvStep, PTL DEF IqSessions

\* Datagrams, the ring and the headers stay in their types, for any samples, arguments
\* and length of packet.
THEOREM IqTypeCorrect == IqSessions => []IqTypeOK
  <1>1. IqInv => IqTypeOK
    BY DEF IqInv
  <1> QED
    BY <1>1, IqInvariant, PTL

\* As many headers are left as there were receives that failed, whatever they failed of.
THEOREM IqHeadersAccounted == IqSessions => []HeadersAccounted
  <1>1. IqInv => HeadersAccounted
    BY DEF IqInv, Counted
  <1> QED
    BY <1>1, IqInvariant, PTL

\* The sample of a datagram from a session of 16 bits to another is in the ring after it
\* was received, if the process outlived what was read behind it, and what else is stored
\* is of one sample or of none, for any length of packet that has room for what is
\* written and any datagrams of no session.
THEOREM IqSampleArrives == IqSessions => []SampleArrives
  BY IqInvImplies, IqInvariant, PTL

\* Reading past the array, which a process may not outlive, is of datagrams too long for
\* it alone, and what is stored of them tells which samples that were, for any lengths.
THEOREM IqOverreadsOnlyLong == IqSessions => []OverreadsOnlyLong
  BY IqInvEnds, IqInvariant, PTL

\* No transmission is ever paced, for any sample rate that main takes and any time.
THEOREM IqNeverPaced == IqSessions => []NeverPaced
  <1>1. IqInv => NeverPaced
    BY DEF IqInv
  <1> QED
    BY <1>1, IqInvariant, PTL

-----------------------------------------------------------------------------
\* Session

\* Whichever of the two is looked at, both are in behaviours of their own modules.
LEMMA SessionIsBoth == Session => Sockets /\ IqSessions
  <1>1. SessionInit => SocketInit /\ IqInit
    BY DEF SessionInit
  <1>2. [SessionNext]_<<part, sockVars, iqVars>> => [SocketNext]_sockVars /\ [IqNext]_iqVars
    BY Zenon DEF SessionNext
  <1> QED
    BY <1>1, <1>2, PTL DEF Session, Sockets, IqSessions

\* The type invariant the model checker runs, of sockets and samples together.
THEOREM SessionTypeCorrect == Session => []SessionTypeOK
  <1>1. SockTypeOK /\ IqTypeOK => SessionTypeOK
    BY DEF SessionTypeOK
  <1> QED
    BY <1>1, SessionIsBoth, SocketTypeCorrect, IqTypeCorrect, PTL

\* What is proved of the sockets and of the samples holds of the specification the model
\* checker runs.
THEOREM SessionIsRight ==
  Session => /\ [](OwnsItsFile /\ MemberAsJoined)
             /\ [](IqTypeOK /\ HeadersAccounted /\ SampleArrives /\ OverreadsOnlyLong /\ NeverPaced)
  BY SessionIsBoth, SocketOwnsItsFile, SocketMemberAsJoined, IqTypeCorrect,
     IqHeadersAccounted, IqSampleArrives, IqOverreadsOnlyLong, IqNeverPaced, PTL
=============================================================================
