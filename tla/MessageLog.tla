----------------------------- MODULE MessageLog -----------------------------
(***************************************************************************)
(* What the bridge's channel promises about its outbound messages, without *)
(* sessions, handshakes, sockets or frames: messages are numbered as they  *)
(* are queued; only the newest are kept; a reader applies each at most     *)
(* once, in order, and passes over none but those that are not kept.       *)
(***************************************************************************)
EXTENDS Naturals

CONSTANT Readers

VARIABLES
  queued,       \* how many messages were queued: the last number given
  oldest,       \* the least number that is kept
  applied       \* reader -> the last number it has applied

log == <<queued, oldest, applied>>

EmptyLog ==
  /\ queued = 0
  /\ oldest = 1
  /\ applied = [p \in Readers |-> 0]

(* A message is queued, and the oldest ones may go: even all of them. *)
Queue ==
  /\ queued' = queued + 1
  /\ oldest' \in oldest..(queued' + 1)
  /\ UNCHANGED applied

Read(p) ==
  /\ \E n \in (applied[p] + 1)..queued :
       /\ \A k \in (applied[p] + 1)..(n - 1) : k < oldest
       /\ applied' = [applied EXCEPT ![p] = n]
  /\ UNCHANGED <<queued, oldest>>

LogNext == Queue \/ \E p \in Readers : Read(p)

LogSpec == EmptyLog /\ [][LogNext]_log

=============================================================================
