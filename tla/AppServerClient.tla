-------------------------- MODULE AppServerClient --------------------------
(***************************************************************************)
(* The stdio transport of cra/app_server.py once the handshake is over:    *)
(* AppServerClient.read_message and send_response over the pipes of the    *)
(* codex app-server child process.                                         *)
(*                                                                         *)
(* _read_line waits with select() on the child's stdout, a text file with  *)
(* a read buffer of its own, and then takes one line with readline().      *)
(* readline() fills the buffer with whatever the pipe holds: lines that    *)
(* came along with the one returned stay in the buffer, where select() on  *)
(* the file descriptor cannot see them.  inbound is the sequence of lines  *)
(* on their way to the broker, of which the first `buffered' are in the    *)
(* read buffer and the others in the pipe.                                 *)
(***************************************************************************)
EXTENDS Naturals, Sequences

VARIABLES
  running,      \* the child process is alive
  inbound,      \* lines written by the child and not yet returned
  buffered,     \* how many of them sit in the client's read buffer
  outbound      \* lines written by the client and not yet taken by the child

pipeVars == <<running, inbound, buffered, outbound>>

PipeTypeOK(In, Out) ==
  /\ running \in BOOLEAN
  /\ inbound \in Seq(In)
  /\ buffered \in 0..Len(inbound)
  /\ outbound \in Seq(Out)

PipesEmpty ==
  /\ running = FALSE
  /\ inbound = <<>>
  /\ buffered = 0
  /\ outbound = <<>>

(* close(): the child is terminated and what was on its way is gone. *)
ClosePipes ==
  /\ running' = FALSE
  /\ inbound' = <<>>
  /\ buffered' = 0
  /\ outbound' = <<>>

(* select() reports the file descriptor ready: unread bytes, or end of file. *)
Ready == buffered < Len(inbound) \/ ~running

(* read_message returns a line: the buffer's first, or, when the buffer is *)
(* empty, the pipe's first, any number of the lines behind it coming along. *)
ReadLine ==
  /\ Ready
  /\ inbound # <<>>
  /\ inbound' = Tail(inbound)
  /\ IF buffered > 0
       THEN buffered' = buffered - 1
       ELSE buffered' \in 0..(Len(inbound) - 1)
  /\ UNCHANGED <<running, outbound>>

(* read_message returns None: select() timed out, or the child is gone and *)
(* every line it wrote has been read.                                      *)
ReadNothing ==
  /\ ~Ready \/ inbound = <<>>
  /\ UNCHANGED pipeVars

(* The child writes a line. *)
Emit(m) == inbound' = Append(inbound, m)

(* _send_message to a living child; to a dead one it raises BrokenPipeError. *)
SendLine(x) ==
  /\ running
  /\ outbound' = Append(outbound, x)
  /\ UNCHANGED <<running, inbound, buffered>>

=============================================================================
