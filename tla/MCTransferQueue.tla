--------------------------- MODULE MCTransferQueue ---------------------------
(* Values of the constants of TransferQueue that a cfg cannot write. *)
EXTENDS TransferQueue

CONSTANTS d1, d2

\* Every path is a url of every device: p2p urls, which have no host.
AllReach == [p \in Paths |-> Devices]

\* Odd paths are urls of one device and even ones of the other: their ips.
OwnReach == [p \in Paths |-> IF p % 2 = 1 THEN {d1} ELSE {d2}]
=============================================================================
