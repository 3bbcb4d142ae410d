------------------------------- MODULE OneNotice -------------------------------
(***************************************************************************)
(* What the reminders package promises of one reminder, without rows,      *)
(* locks, outbox or transport: its owner may withdraw it until it is due;  *)
(* from then on there is one notice of it, with one instant of occurrence, *)
(* which may be sent several times but always the same, and which is       *)
(* settled only after it was sent.                                         *)
(***************************************************************************)
EXTENDS Naturals, Sequences

CONSTANTS
    Reminder,   \* reminder identities
    Instant,    \* instants a reminder can be asked for and evaluated at
    NoInstant   \* the mark of a reminder nothing was noticed for

VARIABLES
    wanted,     \* the instant each reminder was asked for
    withdrawn,  \* reminders their owner cancelled
    notice,     \* the occurrence instant of each reminder that came due
    sent,       \* the notices sent for each reminder, oldest first
    settled     \* reminders whose notice needs no further sending

vars == <<wanted, withdrawn, notice, sent, settled>>

Init ==
    /\ wanted = [r \in Reminder |-> NoInstant]
    /\ withdrawn = {}
    /\ notice = [r \in Reminder |-> NoInstant]
    /\ sent = [r \in Reminder |-> <<>>]
    /\ settled = {}

Ask(r, t) ==
    /\ wanted[r] = NoInstant
    /\ wanted' = [wanted EXCEPT ![r] = t]
    /\ UNCHANGED <<withdrawn, notice, sent, settled>>

Withdraw(r) ==
    /\ wanted[r] # NoInstant /\ notice[r] = NoInstant
    /\ withdrawn' = withdrawn \cup {r}
    /\ UNCHANGED <<wanted, notice, sent, settled>>

\* One evaluation brings any number of reminders due at one instant.
ComeDue(R, at) ==
    /\ \A r \in R : /\ wanted[r] # NoInstant /\ wanted[r] <= at
                    /\ notice[r] = NoInstant /\ r \notin withdrawn
    /\ notice' = [r \in Reminder |-> IF r \in R THEN at ELSE notice[r]]
    /\ UNCHANGED <<wanted, withdrawn, sent, settled>>

Send(r) ==
    /\ notice[r] # NoInstant
    /\ sent' = [sent EXCEPT ![r] = Append(@, notice[r])]
    /\ UNCHANGED <<wanted, withdrawn, notice, settled>>

Settle(r) ==
    /\ sent[r] # <<>>
    /\ settled' = settled \cup {r}
    /\ UNCHANGED <<wanted, withdrawn, notice, sent>>

Next ==
    \/ \E r \in Reminder :
        \/ \E t \in Instant : Ask(r, t)
        \/ Withdraw(r)
        \/ Send(r)
        \/ Settle(r)
    \/ \E R \in SUBSET Reminder, at \in Instant : ComeDue(R, at)

Spec == Init /\ [][Next]_vars
===============================================================================
