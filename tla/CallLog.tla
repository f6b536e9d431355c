------------------------------ MODULE CallLog ------------------------------
(***************************************************************************)
(* What the service promises about the record of a call, whoever ends the  *)
(* call and however often: a record is opened once and never reopened;     *)
(* every closing only adds to what was known; and every closing hands its  *)
(* report over to the platform, where it is either accepted or logged as   *)
(* failed.  CallLifecycle implements this.                                 *)
(***************************************************************************)
EXTENDS Naturals

CONSTANTS
    Calls,    \* CallSids
    MaxTurns  \* bound: user turns of one session

VARIABLES
    record,   \* CallStore._records
    pending,  \* reports being pushed
    posted,   \* reports accepted by the platform
    failed    \* reports whose push failed

logVars == <<record, pending, posted, failed>>

Report == [turns : 0..MaxTurns, transferred : BOOLEAN]

\* The part of a record that its report repeats.
Contents(c) == [turns |-> record[c].turns, transferred |-> record[c].transferred]

LogInit ==
    /\ record = [c \in Calls |-> [started |-> FALSE, ended |-> FALSE,
                                  turns |-> 0, transferred |-> FALSE]]
    /\ pending = [c \in Calls |-> {}]
    /\ posted = [c \in Calls |-> {}]
    /\ failed = [c \in Calls |-> {}]

\* CallStore.start_call: opens a record, and leaves an existing one as it is.
Open(c) ==
    /\ ~record[c].started
    /\ record' = [record EXCEPT ![c].started = TRUE]
    /\ UNCHANGED <<pending, posted, failed>>

\* end_call closes an open record or closes it again with later contents.
Close(c, r) ==
    /\ record[c].started
    /\ r.turns >= record[c].turns
    /\ record[c].transferred => r.transferred
    /\ record' = [record EXCEPT ![c] = [@ EXCEPT !.ended = TRUE, !.turns = r.turns,
                                               !.transferred = r.transferred]]
    /\ pending' = [pending EXCEPT ![c] = @ \cup {r}]
    /\ UNCHANGED <<posted, failed>>

\* A push ends.  Two end_calls may be pushing equal reports: then one remains.
Settle(c, r) ==
    /\ r \in pending[c]
    /\ \E rest \in {pending[c], pending[c] \ {r}} : pending' = [pending EXCEPT ![c] = rest]
    /\ \/ posted' = [posted EXCEPT ![c] = @ \cup {r}] /\ UNCHANGED failed
       \/ failed' = [failed EXCEPT ![c] = @ \cup {r}] /\ UNCHANGED posted
    /\ UNCHANGED record

LogNext == \E c \in Calls :
    \/ Open(c)
    \/ \E r \in Report : Close(c, r)
    \/ \E r \in pending[c] : Settle(c, r)

LogSpec == LogInit /\ [][LogNext]_logVars

-----------------------------------------------------------------------------
(* What follows.                                                           *)

LogTypeOK ==
    /\ record \in [Calls -> [started : BOOLEAN, ended : BOOLEAN,
                            turns : 0..MaxTurns, transferred : BOOLEAN]]
    /\ pending \in [Calls -> SUBSET Report]
    /\ posted \in [Calls -> SUBSET Report]
    /\ failed \in [Calls -> SUBSET Report]

\* Every report of a call that was handed over, whatever became of it.
Sent(c) == pending[c] \cup posted[c] \cup failed[c]

AddsTo(r, s) == r.turns >= s.turns /\ (s.transferred => r.transferred)

\* No two reports of a call contradict each other, in whatever order they arrive:
\* of any two, one only adds to the other, and the record adds to them all.
ReportsAgree ==
    \A c \in Calls : \A r \in Sent(c) :
        /\ AddsTo(Contents(c), r)
        /\ \A s \in Sent(c) : AddsTo(r, s) \/ AddsTo(s, r)

\* An open record has been reported to nobody, and the record of an ended call is
\* what was reported last: the platform knows all of it or a log tells why not.
LastWordSent ==
    \A c \in Calls :
        IF record[c].ended THEN Contents(c) \in Sent(c)
        ELSE Sent(c) = {} /\ Contents(c) = [turns |-> 0, transferred |-> FALSE]

LogInv == LogTypeOK /\ ReportsAgree /\ LastWordSent

=============================================================================
