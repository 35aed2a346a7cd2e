----------------------------- MODULE StateSender -----------------------------
(***************************************************************************)
(* UdpStateStream, the sender of the live stream: a message is cut into    *)
(* datagrams, every datagram goes to every destination in turn over one    *)
(* nonblocking socket, and a send that would block may be tried again      *)
(* while the budget of the message lasts.  One budget serves all datagrams *)
(* to all destinations; poll waits in whole milliseconds.                  *)
(*                                                                         *)
(* The socket is external: it takes a datagram, blocks or fails as it      *)
(* pleases, and poll reports it writable, in error or interrupted at any   *)
(* moment, or times out on time.  The clock runs between any two steps.    *)
(***************************************************************************)
EXTENDS Integers

CONSTANTS
  Destinations,  \* number of addresses
  MaxParts,      \* bound on the datagrams of a message
  Messages,      \* bound on the Publish calls
  Millisecond,   \* in units of the clock
  Budget,        \* retry_budget_seconds, in units of the clock
  Late           \* bound on how far the clock runs past a spent budget

SenderAssumption ==
  /\ Destinations \in Nat \ {0} /\ MaxParts \in Nat \ {0}
  /\ Messages \in Nat /\ Millisecond \in Nat \ {0} /\ Budget \in Nat
  /\ Late \in Nat /\ Late > Millisecond

VARIABLES
  clock,      \* since the message's started
  message,    \* Publish calls so far
  parts,      \* the datagrams of the message
  address,    \* the loop's i, from 1
  part,       \* the datagram at hand, from 1
  call,       \* what the sender is doing
  timeout,    \* when the poll it is in times out
  waited,     \* time spent in polls for this message
  sent, failed  \* of each destination, for this message

message_vars == <<message, parts>>
vars == <<clock, message, parts, address, part, call, timeout, waited, sent, failed>>

None == [d \in 1..Destinations |-> 0]

TypeOK ==
  /\ clock \in 0..Budget + Late /\ timeout \in 0..Budget + Millisecond
  /\ message \in 0..Messages /\ parts \in 1..MaxParts
  /\ address \in 1..Destinations /\ part \in 1..MaxParts
  /\ call \in {"idle", "sendto", "wait", "poll"}
  /\ waited \in Nat
  /\ sent \in [1..Destinations -> 0..MaxParts] /\ failed \in [1..Destinations -> 0..MaxParts]

Init ==
  /\ clock = 0 /\ timeout = 0 /\ waited = 0
  /\ message = 0 /\ parts = 1 /\ address = 1 /\ part = 1
  /\ call = "idle"
  /\ sent = None /\ failed = None

\* Packetize: at least one datagram.
Publish ==
  /\ call = "idle" /\ message < Messages
  /\ message' = message + 1
  /\ parts' \in 1..MaxParts
  /\ address' = 1 /\ part' = 1
  /\ clock' = 0 /\ waited' = 0
  /\ sent' = None /\ failed' = None
  /\ call' = "sendto"
  /\ UNCHANGED timeout

\* The next datagram: of this destination, of the next, or none.
NextDatagram ==
  IF part < parts
  THEN part' = part + 1 /\ call' = "sendto" /\ UNCHANGED address
  ELSE IF address < Destinations
       THEN address' = address + 1 /\ part' = 1 /\ call' = "sendto"
       ELSE call' = "idle" /\ UNCHANGED <<address, part>>

Sent ==
  /\ call = "sendto"
  /\ sent' = [sent EXCEPT ![address] = @ + 1]
  /\ NextDatagram
  /\ UNCHANGED <<clock, message_vars, timeout, waited, failed>>

\* A slip GiveUp does not make: the rest of the destination's datagrams goes too.
GiveUpDestination ==
  /\ failed' = [failed EXCEPT ![address] = @ + 1]
  /\ IF address < Destinations
       THEN address' = address + 1 /\ part' = 1 /\ call' = "sendto"
       ELSE call' = "idle" /\ UNCHANGED <<address, part>>
  /\ UNCHANGED <<clock, message_vars, timeout, waited, sent>>

\* The datagram is given up.
GiveUp ==
  /\ failed' = [failed EXCEPT ![address] = @ + 1]
  /\ NextDatagram
  /\ UNCHANGED <<clock, message_vars, timeout, waited, sent>>

\* Any error but a send that would block.
SendFails == call = "sendto" /\ GiveUp

WouldBlock ==
  /\ call = "sendto"
  /\ call' = "wait"
  /\ UNCHANGED <<clock, message_vars, address, part, timeout, waited, sent, failed>>

\* A slip Remaining does not make: the budget is each datagram's.
RemainingOfAnother == Budget

Remaining == Budget - clock

\* What is left, in whole milliseconds.
WaitWritable ==
  /\ call = "wait"
  /\ Remaining > 0
  /\ timeout' = clock + ((Remaining + Millisecond - 1) \div Millisecond) * Millisecond
  /\ call' = "poll"
  /\ UNCHANGED <<clock, message_vars, address, part, waited, sent, failed>>

BudgetSpent == call = "wait" /\ Remaining <= 0 /\ GiveUp

\* EINTR: what is left is computed anew.
Interrupted ==
  /\ call = "poll"
  /\ call' = "wait"
  /\ UNCHANGED <<clock, message_vars, address, part, timeout, waited, sent, failed>>

TimedOut == call = "poll" /\ clock = timeout /\ GiveUp

PollFails == call = "poll" /\ GiveUp

\* The socket can be written: one more attempt, unless the budget went with the
\* wait.
Writable ==
  /\ call = "poll"
  /\ IF Remaining > 0
       THEN call' = "sendto" /\ UNCHANGED <<clock, message_vars, address, part, timeout, waited,
                                            sent, failed>>
       ELSE GiveUp

\* The clock; a poll is not waited for beyond its timeout.
Tick ==
  /\ call # "idle"
  /\ clock < Budget + Late
  /\ call = "poll" => clock < timeout
  /\ clock' = clock + 1
  /\ waited' = IF call = "poll" THEN waited + 1 ELSE waited
  /\ UNCHANGED <<message_vars, address, part, call, timeout, sent, failed>>

Send == Sent \/ SendFails \/ WouldBlock \/ WaitWritable \/ BudgetSpent
          \/ Interrupted \/ TimedOut \/ PollFails \/ Writable

Next == Publish \/ Send \/ Tick

\* The clock goes on, and so does the sender.
Spec == Init /\ [][Next]_vars /\ WF_vars(Tick) /\ WF_vars(Send)
-----------------------------------------------------------------------------
(***************************************************************************)
(* "One wall-clock budget shared by all fragments and destinations of each *)
(* Publish call" (state_stream.h): however often sends block and polls are *)
(* interrupted, the waits of one message end less than a millisecond after *)
(* the budget; and a destination that blocks spends the waits of those     *)
(* behind it, never their attempts: when Publish returns, every datagram   *)
(* was sent to each destination or counted as failed there, once.          *)
(***************************************************************************)
EveryDatagramIsAccountedInTime ==
  /\ waited < Budget + Millisecond
  /\ call = "poll" => timeout < Budget + Millisecond
  /\ \A d \in 1..Destinations :
       /\ call = "idle" /\ message > 0 => sent[d] + failed[d] = parts
       /\ sent[d] + failed[d] <= parts

(***************************************************************************)
(* Publish returns, although a socket may report itself writable and block *)
(* again for ever: the clock ends the retries.                             *)
(***************************************************************************)
PublishReturns == (call # "idle") ~> (call = "idle")
=============================================================================
