------------------------- MODULE ConversationConsent -------------------------
(***************************************************************************)
(* The turns of one conversation.  A turn first settles the question that  *)
(* an earlier turn has asked, then waits for context, prompt and model,    *)
(* and at last may ask a question of its own about a memory candidate in   *)
(* its message.  Nothing keeps turns from overlapping at their awaits.     *)
(***************************************************************************)
EXTENDS Naturals, FiniteSets

CONSTANT Turns     \* the messages of the user; a candidate is named by its turn

VARIABLES
  pending,     \* SUBSET Turns: pendingConsentByConversation, at most one candidate
  turn,        \* [Turns -> Turn]
  saved,       \* SUBSET (Turns \X Turns): candidates stored, with the turn that did
  next,        \* history: [Turns -> SUBSET Turns]: the first turn that settled
               \* questions after this turn had asked its own
  heard        \* history: [Turns -> SUBSET Turns]: the questions its user had been
               \* asked when the message was sent

consentVars == <<pending, turn, saved, next, heard>>

TurnState == {"unsent", "sent", "persisting", "completing", "replied", "failed"}

\* yes: AFFIRMATIVE_REPLY matches the message; flagged: the extraction engine finds
\* a candidate in it; holds: the candidate the turn stores; asks: it has asked.
Turn == [pc : TurnState, yes : BOOLEAN, flagged : BOOLEAN, holds : SUBSET Turns,
         asks : BOOLEAN]

ConsentInit ==
  /\ pending = {}
  /\ \E yes, flagged \in [Turns -> BOOLEAN] :
       turn = [t \in Turns |-> [pc |-> "unsent", yes |-> yes[t], flagged |-> flagged[t],
                                holds |-> {}, asks |-> FALSE]]
  /\ saved = {}
  /\ next = [t \in Turns |-> {}]
  /\ heard = [t \in Turns |-> {}]

Proceeds(t, pc) == turn' = [turn EXCEPT ![t].pc = pc]

\* ConversationApplicationService.sendMessage looks the conversation up first.
SendMessage(t) ==
  /\ turn[t].pc = "unsent"
  /\ Proceeds(t, "sent")
  /\ heard' = [heard EXCEPT ![t] = {q \in Turns : turn[q].asks}]
  /\ UNCHANGED <<pending, saved, next>>

LookupFails(t) ==
  /\ turn[t].pc = "sent"
  /\ Proceeds(t, "failed")
  /\ UNCHANGED <<pending, saved, next, heard>>

\* A mutant: the question is dropped after the store, not before the wait for it.
Settled_Later(t) == IF turn[t].yes THEN pending ELSE {}

\* What a turn leaves of the question: whatever the answer, nothing.
Settled(t) == {}

\* resolvePendingConsent: a yes goes on to store the candidate, anything else drops it.
ResolvePendingConsent(t) ==
  /\ turn[t].pc = "sent"
  /\ pending' = Settled(t)
  /\ turn' = [turn EXCEPT ![t] = [@ EXCEPT
                !.pc = IF turn[t].yes /\ pending # {} THEN "persisting" ELSE "completing",
                !.holds = IF turn[t].yes THEN pending ELSE {}]]
  /\ next' = [q \in Turns |-> IF turn[q].asks /\ next[q] = {} THEN {t} ELSE next[q]]
  /\ UNCHANGED <<saved, heard>>

\* persistMemoryCandidate; a failure of it is reported in the turn's result only.
PersistMemoryCandidate(t) ==
  /\ turn[t].pc = "persisting"
  /\ \/ saved' = saved \cup {<<q, t>> : q \in turn[t].holds}
     \/ saved' = saved
  /\ turn' = [turn EXCEPT ![t] = [@ EXCEPT !.pc = "completing", !.holds = {}]]
  /\ UNCHANGED <<pending, next, heard>>

\* assembleContext, buildPrompt, completeWithLLM: each may throw.
TurnFails(t) ==
  /\ turn[t].pc = "completing"
  /\ Proceeds(t, "failed")
  /\ UNCHANGED <<pending, saved, next, heard>>

\* appendConsentQuestionIfFlagged, once the model has answered: a question that
\* another turn has asked meanwhile is overwritten.
Reply(t) ==
  /\ turn[t].pc = "completing"
  /\ turn' = [turn EXCEPT ![t] = [@ EXCEPT !.pc = "replied", !.asks = turn[t].flagged]]
  /\ pending' = IF turn[t].flagged THEN {t} ELSE pending
  /\ UNCHANGED <<saved, next, heard>>

ConsentNext ==
  \E t \in Turns : \/ SendMessage(t) \/ LookupFails(t) \/ ResolvePendingConsent(t)
                   \/ PersistMemoryCandidate(t) \/ TurnFails(t) \/ Reply(t)

ConsentSpec == ConsentInit /\ [][ConsentNext]_consentVars

-----------------------------------------------------------------------------
ConsentTypeOK ==
  /\ pending \subseteq Turns /\ Cardinality(pending) =< 1
  /\ \A t \in Turns : turn[t] \in Turn
  /\ saved \subseteq Turns \X Turns

\* However turns overlap, a candidate is stored at most once, and only by a yes
\* that is the first message the engine takes up after asking for that candidate:
\* a question never outlives the turn that settles it.
SavedOnlyOnAYes ==
  \A s \in saved : /\ turn[s[1]].asks
                   /\ turn[s[2]].yes
                   /\ next[s[1]] = {s[2]}

\* "only persisted if the user affirms it on their very next message"
\* (conversation.engine.ts:45-46): the yes that stores a candidate was written by
\* somebody who had been asked about that candidate.
SavedWasAffirmed == \A s \in saved : s[1] \in heard[s[2]]

=============================================================================
