-------------------------- MODULE EnginesAndStores --------------------------
(***************************************************************************)
(* The engines and stores behind a conversation.  They share no state:     *)
(* each moves by itself, and what one hands to another comes as an input.  *)
(***************************************************************************)
EXTENDS RelationshipEngine, MomentScheduler, TwoLevelCache, ConversationConsent,
        MemoryStore, RateLimit, BullmqDispatcher, CompanionLife

EnginesSpec == /\ RelationshipSpec /\ MomentSpec /\ CacheSpec /\ ConsentSpec
               /\ MemorySpec /\ LimitSpec /\ QueueSpec /\ LifeSpec

\* The type invariants of the parts.
EnginesTypesOK == /\ RelationshipTypeOK /\ MomentTypeOK /\ CacheTypeOK
                  /\ ConsentTypeOK /\ MemoryTypeOK /\ LimitTypeOK /\ QueueTypeOK
                  /\ LifeTypeOK

=============================================================================
