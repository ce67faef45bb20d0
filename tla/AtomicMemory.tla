---------------------------- MODULE AtomicMemory ----------------------------
(***************************************************************************)
(* What a program expects of data memory: some addresses exist, and an     *)
(* access of n bytes reads or writes them together if all of them exist.   *)
(* If not, it is refused and reads nothing; only when it lies across the   *)
(* end of memory may a refused write have changed some of its bytes.       *)
(* There are no loops, no bytes in a row and no error codes.               *)
(***************************************************************************)
EXTENDS Integers

CONSTANTS
  AddressSpan,     \* addresses are 0..AddressSpan-1 and wrap
  Requests,        \* reads and writes: records [kind, address, size, value]
  Contents         \* the contents memory may begin with

VARIABLES
  mem,       \* a function from the addresses that exist to bytes
  request,   \* the last request
  answer     \* to it: [refused, read]

atomicVars == <<mem, request, answer>>

NoRequest == [kind |-> "none", address |-> 0, size |-> 0, value |-> << >>]

Span(r) == {(r.address + i) % AddressSpan : i \in 0..(r.size - 1)}

Granted(r) == Span(r) \subseteq DOMAIN mem

(* The byte of the request's value that belongs at address a. *)
ByteFor(r, a) == r.value[(a - r.address) % AddressSpan]

Init ==
  /\ mem \in Contents
  /\ request = NoRequest
  /\ answer = [refused |-> FALSE, read |-> << >>]

Read(r) ==
  /\ r.kind = "read" /\ Granted(r)
  /\ answer' = [refused |-> FALSE,
                read |-> [i \in 1..r.size |-> mem[(r.address + i - 1) % AddressSpan]]]
  /\ UNCHANGED mem

Write(r) ==
  /\ r.kind = "write" /\ Granted(r)
  /\ answer' = [refused |-> FALSE, read |-> << >>]
  /\ mem' = [a \in DOMAIN mem |-> IF a \in Span(r) THEN ByteFor(r, a) ELSE mem[a]]

Refuse(r) ==
  /\ ~Granted(r)
  /\ answer' = [refused |-> TRUE, read |-> << >>]
  /\ DOMAIN mem' = DOMAIN mem
  /\ \A a \in DOMAIN mem :
       \/ mem'[a] = mem[a]
       \/ r.kind = "write" /\ a \in Span(r) /\ mem'[a] = ByteFor(r, a)

Next ==
  \E r \in Requests :
    /\ request' = r
    /\ Read(r) \/ Write(r) \/ Refuse(r)

Spec == Init /\ [][Next]_atomicVars

=============================================================================
