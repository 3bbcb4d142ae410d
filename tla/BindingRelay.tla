------------------------------ MODULE BindingRelay ------------------------------
(***************************************************************************)
(* The generated Telegram binding relay: live and recovery readers, in any *)
(* number of bot processes, send each due event to its user once, guarded  *)
(* by a claim in Redis that expires.  An entry is acknowledged by hand,    *)
(* only when the event was sent, refused for good, or is not valid.        *)
(* A claim is known by the reader whose token it holds: a reader has one   *)
(* delivery at a time, and the claim of a lost delivery matches no token.  *)
(***************************************************************************)
EXTENDS Naturals, Sequences

CONSTANTS
    Event,        \* event ids
    Invalid,      \* events whose envelope or recipient does not validate
    Reader,       \* live and recovery readers of every bot process
    Free,         \* no claim under the key
    Done,         \* the completed marker
    Abandoned,    \* a claim whose delivery is lost
    MaxEntries,   \* bound: entries of the stream
    MaxFaults     \* bound: faults per event

ASSUME EventsAssumption == Invalid \subseteq Event
ASSUME MarksAssumption ==
    /\ Free # Done /\ Done # Abandoned /\ Abandoned # Free
    /\ {Free, Done, Abandoned} \cap Reader = {}
ASSUME BoundsAssumption == MaxEntries \in Nat /\ MaxFaults \in Nat

VARIABLES
    stream,    \* the event of each entry
    entry,     \* how the group stands to each entry
    claim,     \* the value under the event's key in Redis
    sends,     \* messages Telegram accepted for each event
    refused,   \* events Telegram refused for good
    pc,        \* where each reader's delivery stands
    hand,      \* the index of the entry it delivers, 0 for none
    faults     \* faults that touched an event

vars == <<stream, entry, claim, sends, refused, pc, hand, faults>>
telegram == <<sends, refused>>

PC == {"idle", "claim", "look", "send", "finish", "release", "ack"}

TypeOK ==
    /\ stream \in Seq(Event) /\ Len(stream) <= MaxEntries
    /\ entry \in [1..Len(stream) -> {"new", "pending", "acked"}]
    /\ claim \in [Event -> Reader \cup {Free, Done, Abandoned}]
    /\ sends \in [Event -> Nat]
    /\ refused \subseteq Event
    /\ pc \in [Reader -> PC]
    /\ hand \in [Reader -> 0..MaxEntries]
    /\ faults \in [Event -> 0..MaxFaults]

Init ==
    /\ stream = <<>> /\ entry = <<>>
    /\ claim = [e \in Event |-> Free]
    /\ sends = [e \in Event |-> 0]
    /\ refused = {}
    /\ pc = [d \in Reader |-> "idle"]
    /\ hand = [d \in Reader |-> 0]
    /\ faults = [e \in Event |-> 0]

-------------------------------------------------------------------------------
Goto(d, label) == pc' = [pc EXCEPT ![d] = label]
Handled(d) == stream[hand[d]]
Idle(d) == Goto(d, "idle") /\ hand' = [hand EXCEPT ![d] = 0]
Fault(e) == faults[e] < MaxFaults /\ faults' = [faults EXCEPT ![e] = @ + 1]

\* FINISH and RELEASE compare the token and write in one script.
Complete(d) == claim' = [claim EXCEPT ![Handled(d)] = IF @ = d THEN Done ELSE @]
GiveUp(d) == claim' = [claim EXCEPT ![Handled(d)] = IF @ = d THEN Free ELSE @]

-------------------------------------------------------------------------------
(* The stream and its consumer group. *)

\* The group starts at 0-0: every entry of the stream is new to it once.
Publish(e) ==
    /\ Len(stream) < MaxEntries
    /\ stream' = Append(stream, e)
    /\ entry' = Append(entry, "new")
    /\ UNCHANGED <<claim, telegram, pc, hand, faults>>

\* The live reader takes the first new entry, the recovery reader any pending one,
\* also one whose delivery goes on.
Receive(d, n) ==
    /\ pc[d] = "idle"
    /\ \/ entry[n] = "new" /\ \A m \in 1..(n - 1) : entry[m] # "new"
       \/ entry[n] = "pending"
    /\ entry' = [entry EXCEPT ![n] = "pending"]
    /\ hand' = [hand EXCEPT ![d] = n]
    /\ Goto(d, IF stream[n] \in Invalid THEN "ack" ELSE "claim")
    /\ UNCHANGED <<stream, claim, telegram, faults>>

-------------------------------------------------------------------------------
(* One delivery. *)

\* SET NX EX: the claim is taken only where the key is absent.
Claim(d) ==
    /\ pc[d] = "claim"
    /\ IF claim[Handled(d)] = Free
       THEN claim' = [claim EXCEPT ![Handled(d)] = d] /\ Goto(d, "send")
       ELSE Goto(d, "look") /\ UNCHANGED claim
    /\ UNCHANGED <<stream, entry, telegram, hand, faults>>

\* Mutant: an entry someone else is delivering is acknowledged.
LookAcksHeld(d) ==
    /\ pc[d] = "look"
    /\ IF claim[Handled(d)] # Free THEN Goto(d, "ack") /\ UNCHANGED hand ELSE Idle(d)
    /\ UNCHANGED <<stream, entry, claim, telegram, faults>>

\* GET, a call later: only a completed marker lets the entry be acknowledged.
Look(d) ==
    /\ pc[d] = "look"
    /\ IF claim[Handled(d)] = Done THEN Goto(d, "ack") /\ UNCHANGED hand ELSE Idle(d)
    /\ UNCHANGED <<stream, entry, claim, telegram, faults>>

\* send_or_refuse: Telegram takes the message or refuses the chat for good.
Send(d) ==
    /\ pc[d] = "send"
    /\ \/ sends' = [sends EXCEPT ![Handled(d)] = @ + 1] /\ UNCHANGED refused
       \/ refused' = refused \cup {Handled(d)} /\ UNCHANGED sends
    /\ Goto(d, "finish")
    /\ UNCHANGED <<stream, entry, claim, hand, faults>>

\* The settings read fails, Telegram raises, or the 45 seconds are over: the message
\* may have been taken all the same.
SendFails(d) ==
    /\ pc[d] = "send" /\ Fault(Handled(d))
    /\ sends' \in {sends, [sends EXCEPT ![Handled(d)] = @ + 1]}
    /\ Goto(d, "release")
    /\ UNCHANGED <<stream, entry, claim, refused, hand>>

\* Mutant: no marker is written after the send, so the RELEASE frees the key.
FinishUnmarked(d) ==
    /\ pc[d] = "finish"
    /\ GiveUp(d)
    /\ Goto(d, IF claim[Handled(d)] = d THEN "ack" ELSE "release")
    /\ UNCHANGED <<stream, entry, telegram, hand, faults>>

\* FINISH: 0 is "delivery claim lost", a transient failure.  The RELEASE of a
\* completed claim finds another value and does nothing.
Finish(d) ==
    /\ pc[d] = "finish"
    /\ Complete(d)
    /\ Goto(d, IF claim[Handled(d)] = d THEN "ack" ELSE "release")
    /\ UNCHANGED <<stream, entry, telegram, hand, faults>>

\* Redis does not answer FINISH, which it may have run.
FinishFails(d) ==
    /\ pc[d] = "finish" /\ Fault(Handled(d))
    /\ Complete(d) \/ UNCHANGED claim
    /\ Goto(d, "release")
    /\ UNCHANGED <<stream, entry, telegram, hand>>

\* The finally: only the own claim is given back; the entry stays pending.
Release(d) ==
    /\ pc[d] = "release"
    /\ GiveUp(d)
    /\ Idle(d)
    /\ UNCHANGED <<stream, entry, telegram, faults>>

Ack(d) ==
    /\ pc[d] = "ack"
    /\ entry' = [entry EXCEPT ![hand[d]] = "acked"]
    /\ Idle(d)
    /\ UNCHANGED <<stream, claim, telegram, faults>>

-------------------------------------------------------------------------------
(* Faults of the processes and of time. *)

\* The delivery is cancelled: an ordinary shutdown gives its claim back.
Cancel(d) ==
    /\ pc[d] \in {"claim", "look", "send", "finish", "ack"} /\ Fault(Handled(d))
    /\ sends' \in {sends, [sends EXCEPT ![Handled(d)] = IF pc[d] = "send" THEN @ + 1 ELSE @]}
    /\ IF pc[d] \in {"send", "finish"} THEN GiveUp(d) ELSE UNCHANGED claim
    /\ Idle(d)
    /\ UNCHANGED <<stream, entry, refused>>

\* The process or its connection to Redis is lost, at a call that ran or did not:
\* nothing is given back.
Crash(d) ==
    /\ pc[d] # "idle" /\ Fault(Handled(d))
    /\ sends' \in {sends, [sends EXCEPT ![Handled(d)] = IF pc[d] = "send" THEN @ + 1 ELSE @]}
    /\ claim' = [claim EXCEPT ![Handled(d)] = IF @ = d THEN Abandoned ELSE @]
    /\ Idle(d)
    /\ UNCHANGED <<stream, entry, refused>>

\* Mutant: a lost claim has no expiry.
ExpireDoneOnly(e) ==
    /\ claim[e] = Done /\ Fault(e)
    /\ claim' = [claim EXCEPT ![e] = Free]
    /\ UNCHANGED <<stream, entry, telegram, pc, hand>>

\* 120 seconds after SET the claim of a lost delivery is gone.  A live delivery ends
\* well before, unless its process is suspended; a marker goes after seven days.
Expire(e) ==
    /\ \/ claim[e] = Abandoned /\ UNCHANGED faults
       \/ claim[e] \in Reader \cup {Done} /\ Fault(e)
    /\ claim' = [claim EXCEPT ![e] = Free]
    /\ UNCHANGED <<stream, entry, telegram, pc, hand>>

-------------------------------------------------------------------------------
Work(d) == Claim(d) \/ Look(d) \/ Send(d) \/ Finish(d) \/ Release(d) \/ Ack(d)

Next ==
    \/ \E e \in Event : Publish(e) \/ Expire(e)
    \/ \E d \in Reader :
        \/ \E n \in 1..Len(stream) : Receive(d, n)
        \/ Work(d) \/ SendFails(d) \/ FinishFails(d) \/ Cancel(d) \/ Crash(d)

Spec == Init /\ [][Next]_vars

\* Readers keep polling, deliveries go on, lost claims expire; faults end.
FairSpec ==
    /\ Spec
    /\ \A n \in 1..MaxEntries : \A d \in Reader : SF_vars(n <= Len(stream) /\ Receive(d, n))
    /\ \A d \in Reader : WF_vars(Work(d))
    /\ \A e \in Event : WF_vars(claim[e] = Abandoned /\ Expire(e))

-------------------------------------------------------------------------------
(* Properties. *)

\* A user gets a message once, plus once for each fault that touched its event: a
\* failed or cancelled delivery, a lost process, a claim or marker that expired.
MessageSentOnce == \A e \in Event : sends[e] <= 1 + faults[e]

\* An entry is given up only when its event was sent, refused for good or invalid,
\* never because somebody else is at it.
AckedIsSettled ==
    \A n \in 1..Len(stream) :
        entry[n] = "acked" => sends[stream[n]] > 0 \/ stream[n] \in refused \cup Invalid

\* Every entry is acknowledged in the end.
EveryEntryIsAcked ==
    \A n \in 1..MaxEntries : n <= Len(stream) ~> n <= Len(stream) /\ entry[n] = "acked"
===============================================================================
