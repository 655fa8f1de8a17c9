----------------------------- MODULE ProcBuffer -----------------------------
(***************************************************************************)
(* procfs_read and procfs_write of procfs/procfs.c.  There is one size for *)
(* all files and no lock: a call stores the size, then reads it for the    *)
(* copy, which may sleep, and reads it again for the offset and its        *)
(* result.  The bytes themselves do not matter here.                       *)
(***************************************************************************)
EXTENDS Naturals

CONSTANTS
  Users,             \* processes with the file open
  PROCFS_MAX_SIZE,   \* 2048 in the code
  MaxCalls           \* bound on the reads and writes

VARIABLES
  procfs_buffer_size,
  off,       \* *offset of each file
  pc,        \* each call's next step
  asked,     \* the length it was given
  copied,    \* bytes it has copied from or to its caller's memory
  result,    \* what it returned
  crossed,   \* history: another call stored the size since this one did
  calls      \* reads and writes so far

vars == <<procfs_buffer_size, off, pc, asked, copied, result, crossed, calls>>

Init ==
  /\ procfs_buffer_size = 0
  /\ off = [p \in Users |-> 0] /\ pc = [p \in Users |-> "idle"]
  /\ asked = [p \in Users |-> 0] /\ copied = [p \in Users |-> 0]
  /\ result = [p \in Users |-> 0] /\ crossed = [p \in Users |-> FALSE]
  /\ calls = 0

Lesser(a, b) == IF a < b THEN a ELSE b

Begin(p, n) ==
  /\ pc[p] = "idle" /\ calls < MaxCalls
  /\ calls' = calls + 1
  /\ asked' = [asked EXCEPT ![p] = n]
  /\ copied' = [copied EXCEPT ![p] = 0] /\ result' = [result EXCEPT ![p] = 0]

(* The length becomes the size for everybody. *)
Resize(p, n) ==
  /\ procfs_buffer_size' = n
  /\ crossed' = [u \in Users |-> u # p /\ (crossed[u] \/ pc[u] # "idle")]
  /\ pc' = [pc EXCEPT ![p] = "copy"]
  /\ UNCHANGED off

(* The second read of a file, or one of an empty buffer, is the end. *)
ReadEnd(p) ==
  /\ off[p] # 0 \/ procfs_buffer_size = 0
  /\ Begin(p, 0)
  /\ off' = [off EXCEPT ![p] = 0]
  /\ UNCHANGED <<procfs_buffer_size, pc, crossed>>

(* Mutant: the size is not cut to the caller's length. *)
ReadSize_NoMin(p, n) ==
  /\ off[p] = 0 /\ procfs_buffer_size # 0
  /\ Begin(p, n)
  /\ Resize(p, procfs_buffer_size)

ReadSize(p, n) ==
  /\ off[p] = 0 /\ procfs_buffer_size # 0
  /\ Begin(p, n)
  /\ Resize(p, Lesser(procfs_buffer_size, n))

WriteSize(p, n) ==
  /\ Begin(p, n)
  /\ Resize(p, Lesser(PROCFS_MAX_SIZE, n))

(* A copy that fails ends the call, and the new size stays. *)
Copy(p) ==
  /\ pc[p] = "copy"
  /\ \/ /\ copied' = [copied EXCEPT ![p] = procfs_buffer_size]
        /\ pc' = [pc EXCEPT ![p] = "return"]
     \/ pc' = [pc EXCEPT ![p] = "idle"] /\ UNCHANGED copied
  /\ UNCHANGED <<procfs_buffer_size, off, asked, result, crossed, calls>>

Return(p) ==
  /\ pc[p] = "return"
  /\ off' = [off EXCEPT ![p] = @ + procfs_buffer_size]
  /\ result' = [result EXCEPT ![p] = procfs_buffer_size]
  /\ pc' = [pc EXCEPT ![p] = "idle"]
  /\ UNCHANGED <<procfs_buffer_size, asked, copied, crossed, calls>>

Next ==
  \E p \in Users :
    \/ ReadEnd(p) \/ Copy(p) \/ Return(p)
    \/ \E n \in 0 .. PROCFS_MAX_SIZE + 1 : ReadSize(p, n) \/ WriteSize(p, n)

Spec == Init /\ [][Next]_vars

-----------------------------------------------------------------------------
(* Properties. *)

(* A call touches no more of its caller's memory than it was given, and    *)
(* returns what it copied, unless another call stored the size while it    *)
(* ran; and it never leaves the buffer, whatever overlaps.                 *)
CopyFits ==
  /\ procfs_buffer_size \in 0 .. PROCFS_MAX_SIZE
  /\ \A p \in Users :
       crossed[p] \/ (copied[p] <= asked[p] /\ result[p] \in {0, copied[p]})

=============================================================================
