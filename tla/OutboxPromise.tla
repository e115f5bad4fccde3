---------------------------- MODULE OutboxPromise ----------------------------
(***************************************************************************)
(* What the transactional outbox promises about one event, whatever the    *)
(* number of pollers, crashes and failed database writes:                  *)
(*   - an event is offered to the bus only once the transaction that wrote *)
(*     it has committed;                                                   *)
(*   - an entry is settled as "sent" only if the bus has taken the event,  *)
(*     and as "refused" only if the bus has refused it;                    *)
(*   - a settled entry never waits again, and only a sent entry is         *)
(*     archived, which is final.                                           *)
(* The event may be sent several times: delivery is at least once.         *)
(***************************************************************************)
CONSTANTS Rows            \* outbox entries, one per event

VARIABLES phase,          \* [Rows -> Phase]: the life of the entry
          taken,          \* rows whose event the bus has taken
          refused         \* rows whose event the bus has refused

promiseVars == <<phase, taken, refused>>

Phase == {"unwritten", "waiting", "sent", "refused", "archived"}

Init == /\ phase = [r \in Rows |-> "unwritten"]
        /\ taken = {}
        /\ refused = {}

Live(r) == phase[r] \in {"waiting", "sent", "refused"}

\* The transaction that wrote the entry commits.
Commit(r) == /\ phase[r] = "unwritten"
             /\ phase' = [phase EXCEPT ![r] = "waiting"]
             /\ UNCHANGED <<taken, refused>>

\* A poller offers the event and the bus takes it.  The poller read the entry
\* earlier, so another poller may have settled it meanwhile.
Take(r) == /\ phase[r] # "unwritten"
           /\ taken' = taken \cup {r}
           /\ UNCHANGED <<phase, refused>>

Refuse(r) == /\ phase[r] # "unwritten"
             /\ refused' = refused \cup {r}
             /\ UNCHANGED <<phase, taken>>

\* Two pollers may settle the same entry, the last one wins.
SettleSent(r) == /\ Live(r)
                 /\ r \in taken
                 /\ phase' = [phase EXCEPT ![r] = "sent"]
                 /\ UNCHANGED <<taken, refused>>

SettleRefused(r) == /\ Live(r)
                    /\ r \in refused
                    /\ phase' = [phase EXCEPT ![r] = "refused"]
                    /\ UNCHANGED <<taken, refused>>

Archive(S) == /\ \A r \in S : phase[r] = "sent"
              /\ phase' = [r \in Rows |-> IF r \in S THEN "archived" ELSE phase[r]]
              /\ UNCHANGED <<taken, refused>>

Next == \/ \E r \in Rows : \/ Commit(r)
                           \/ Take(r)
                           \/ Refuse(r)
                           \/ SettleSent(r)
                           \/ SettleRefused(r)
        \/ \E S \in SUBSET Rows : Archive(S)

Spec == Init /\ [][Next]_promiseVars
=============================================================================
