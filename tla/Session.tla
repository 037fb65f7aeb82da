------------------------------ MODULE Session ------------------------------
(***************************************************************************)
(* A session's sockets and its way of samples, for one run of the model    *)
(* checker.  All that a session knows of its sockets is whether a call on  *)
(* one failed, which in IqReceive it may at any time: one of the two is    *)
(* chosen and the other left alone.                                        *)
(***************************************************************************)
EXTENDS RtpSocket, IqReceive, TLC

VARIABLE part  \* what is looked at

SessionInit == /\ part \in {"sockets", "samples"}
               /\ SocketInit /\ IqInit
               /\ part = "sockets" => /\ txtype = PT16 /\ rxtype = PT16
                                      /\ ports = "same" /\ only = 0

SessionNext == /\ UNCHANGED part
               /\ \/ part = "sockets" /\ SocketNext /\ UNCHANGED iqVars
                  \/ part = "samples" /\ IqNext /\ UNCHANGED sockVars

Session == SessionInit /\ [][SessionNext]_<<part, sockVars, iqVars>>

\* Type invariant of the two.
SessionTypeOK == SockTypeOK /\ IqTypeOK

\* A loopback, an interface of both families, and one whose IPv6 address is gone.
InterfaceList == <<[name |-> "lo", index |-> 1, family |-> "inet", usable |-> FALSE],
                   [name |-> "eth0", index |-> 2, family |-> "inet", usable |-> TRUE],
                   [name |-> "eth0", index |-> 2, family |-> "inet6", usable |-> TRUE],
                   [name |-> "eth1", index |-> 3, family |-> "inet", usable |-> TRUE]>>

\* Short enough for eight bits only, full behind two sources, and an extension that the
\* array does not hold.
ForeignList == {[header |-> 2, size |-> 4], [header |-> 6, size |-> 4],
                [header |-> 12, size |-> 0]}

\* In microseconds; the first is of a clock set back.
ElapsedTimes == {-1, 0, 1, 1000}

Symmetric == Permutations(Sock) \union Permutations(Sample)
=============================================================================
