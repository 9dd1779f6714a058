--------------------------- MODULE OrderedDelivery ---------------------------
(***************************************************************************)
(* What a sender over one data channel is promised: payloads handed over   *)
(* by send() calls reach the wire in call order, each call is settled at   *)
(* most once, and a payload that cannot be sent is refused, never silently *)
(* lost or overtaken.  BackpressureQueue implements this module.           *)
(***************************************************************************)
EXTENDS Naturals, Sequences

CONSTANT Msgs        \* the payloads, one for each send() call

VARIABLES
  outcome,           \* [Msgs -> Outcomes]: the state of the promise send() returned
  pending,           \* accepted payloads not yet on the wire, oldest first
  wire,              \* payloads handed to the data channel, oldest first
  ticket,            \* [Msgs -> Nat]: the position of the call, 0 before it
  calls              \* the number of send() calls so far

absVars == <<outcome, pending, wire, ticket, calls>>

Outcomes == {"new", "queued", "sent", "rejected"}

AbsInit ==
  /\ outcome = [m \in Msgs |-> "new"]
  /\ pending = <<>>
  /\ wire = <<>>
  /\ ticket = [m \in Msgs |-> 0]
  /\ calls = 0

(* The call itself: every payload is handed over once and gets the next    *)
(* ticket.                                                                 *)
Call(m) ==
  /\ outcome[m] = "new"
  /\ calls' = calls + 1
  /\ ticket' = [ticket EXCEPT ![m] = calls + 1]

(* The payload goes straight to the wire; nobody may be waiting.           *)
DirectSend(m) ==
  /\ Call(m)
  /\ pending = <<>>
  /\ wire' = Append(wire, m)
  /\ outcome' = [outcome EXCEPT ![m] = "sent"]
  /\ UNCHANGED pending

Accept(m) ==
  /\ Call(m)
  /\ pending' = Append(pending, m)
  /\ outcome' = [outcome EXCEPT ![m] = "queued"]
  /\ UNCHANGED wire

Refuse(m) ==
  /\ Call(m)
  /\ outcome' = [outcome EXCEPT ![m] = "rejected"]
  /\ UNCHANGED <<pending, wire>>

(* The oldest waiting payload is sent, or refused by the channel.          *)
SendHead ==
  /\ pending # <<>>
  /\ pending' = Tail(pending)
  /\ wire' = Append(wire, Head(pending))
  /\ outcome' = [outcome EXCEPT ![Head(pending)] = "sent"]
  /\ UNCHANGED <<ticket, calls>>

RejectHead ==
  /\ pending # <<>>
  /\ pending' = Tail(pending)
  /\ outcome' = [outcome EXCEPT ![Head(pending)] = "rejected"]
  /\ UNCHANGED <<wire, ticket, calls>>

RejectAll ==
  /\ pending' = <<>>
  /\ outcome' = [m \in Msgs |->
                   IF \E i \in 1..Len(pending) : pending[i] = m
                   THEN "rejected" ELSE outcome[m]]
  /\ UNCHANGED <<wire, ticket, calls>>

AbsNext ==
  \/ \E m \in Msgs : DirectSend(m) \/ Accept(m) \/ Refuse(m)
  \/ SendHead
  \/ RejectHead
  \/ RejectAll

AbsSpec == AbsInit /\ [][AbsNext]_absVars

-----------------------------------------------------------------------------

AbsTypeOK ==
  /\ outcome \in [Msgs -> Outcomes]
  /\ pending \in Seq(Msgs)
  /\ wire \in Seq(Msgs)
  /\ ticket \in [Msgs -> Nat]
  /\ calls \in Nat

Increasing(s) ==
  \A i, j \in 1..Len(s) : i < j => ticket[s[i]] < ticket[s[j]]

(* No overtaking: the wire carries payloads in the order of the send()     *)
(* calls, so a later call never reaches the phone first.                   *)
CallOrder == Increasing(wire)

(* What CallOrder needs to be inductive: waiting payloads are in call      *)
(* order, all of them younger than anything on the wire and none younger   *)
(* than the last call.                                                     *)
OrderInv ==
  /\ AbsTypeOK
  /\ Increasing(wire)
  /\ Increasing(pending)
  /\ \A i \in 1..Len(wire), j \in 1..Len(pending) :
        ticket[wire[i]] < ticket[pending[j]]
  /\ \A i \in 1..Len(wire) : outcome[wire[i]] = "sent"
  /\ \A j \in 1..Len(pending) : outcome[pending[j]] = "queued"
  /\ \A m \in Msgs : ticket[m] <= calls
==============================================================================
