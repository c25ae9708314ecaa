----------------------------- MODULE MCDevices -----------------------------
(***************************************************************************)
(* Devices for TLC: stick A with two partitions, stick B without a         *)
(* partition table, and an internal disk.                                  *)
(***************************************************************************)
EXTENDS Devices

CONSTANTS A, B, S, m, n, None, Without

MCDisks == {A, B, S}
MCUsb == {A, B}
MCParts == [d \in Disks |-> IF d = A THEN 2 ELSE 0]
MCModel == [d \in Disks |-> IF d = A THEN m ELSE n]
MCSerial == [d \in Disks |-> IF d = A THEN 1 ELSE NoSerial]
MCFormatted == {<<A, 1>>, <<A, 2>>, <<S, 0>>}
Line(d, i, how) == [vol |-> <<d, i>>, how |-> how]
MCFirstMounts ==
  {<<>>,
   <<Line(S, 0, "root"), Line(A, 2, "fuse")>>,
   <<Line(A, 1, "file"), Line(A, 1, "kernel"), Line(B, 0, "kernel")>>}
MCMountable == {Line(A, 1, "kernel"), Line(A, 2, "fuse"), Line(B, 0, "file")}
MCOrders == {<<<<A, 0>>, <<A, 1>>, <<A, 2>>, <<B, 0>>, <<S, 0>>>>,
             <<<<S, 0>>, <<B, 0>>, <<A, 2>>, <<A, 0>>, <<A, 1>>>>}
=============================================================================
