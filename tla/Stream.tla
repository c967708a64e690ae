------------------------------- MODULE Stream -------------------------------
(***************************************************************************)
(* What a pipe promises: a byte stream of bounded capacity.  Bytes come    *)
(* out in the order in which they went in, each of them once; a read that  *)
(* returns no bytes means that the stream is empty and has no writer left. *)
(***************************************************************************)
EXTENDS Naturals, Sequences

CONSTANTS
  Capacity,    \* bytes that fit in the stream
  Bytes        \* the bytes

VARIABLES
  queue,       \* the bytes in the stream
  wopen,       \* some process can still write
  ropen,       \* some process can still read
  buf          \* what the last read returned

vars == <<queue, wopen, ropen, buf>>

Init == queue = <<>> /\ wopen = TRUE /\ ropen = TRUE /\ buf = <<>>

Put(chunk) ==
  /\ wopen /\ ropen
  /\ Len(queue) + Len(chunk) <= Capacity
  /\ queue' = queue \o chunk
  /\ UNCHANGED <<wopen, ropen, buf>>

Take(k) ==
  /\ ropen
  /\ buf' = SubSeq(queue, 1, k)
  /\ queue' = SubSeq(queue, k + 1, Len(queue))
  /\ UNCHANGED <<wopen, ropen>>

EndOfFile ==
  /\ ropen /\ ~wopen /\ queue = <<>>
  /\ buf' = <<>>
  /\ UNCHANGED <<queue, wopen, ropen>>

CloseWrite == wopen /\ wopen' = FALSE /\ UNCHANGED <<queue, ropen, buf>>

CloseRead == ropen /\ ropen' = FALSE /\ UNCHANGED <<queue, wopen, buf>>

\* A process that dies may hold both of the last descriptors.
CloseBoth == wopen' = FALSE /\ ropen' = FALSE /\ UNCHANGED <<queue, buf>>

Next ==
  \/ \E k \in 1 .. Capacity : \E chunk \in [1 .. k -> Bytes] : Put(chunk)
  \/ \E k \in 1 .. Len(queue) : Take(k)
  \/ EndOfFile \/ CloseWrite \/ CloseRead \/ CloseBoth

Spec == Init /\ [][Next]_vars
=============================================================================
