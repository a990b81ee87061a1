---------------------------- MODULE SafetyProofs ----------------------------
(***************************************************************************)
(* The eight modules of MCSafety run beside each other without touching.   *)
(* In the sum of them the part that moves takes the steps of its module    *)
(* and the others rest, so the sum satisfies the specification of each,    *)
(* and what was proved of a module holds of its part.                      *)
(***************************************************************************)
EXTENDS MCSafety, PlaneLifecycleProofs, PeopleProofs, PublishingProofs, CacheProofs

partVars == <<part, planeVars, othersOfPlane>>

\* A part that rests is at a place where its module may start.
LEMMA PartsStart ==
    SafetyInit => /\ Init /\ ContactInit /\ DmInit /\ CursorInit
                  /\ PublishInit /\ TopicInit /\ CacheInit /\ PayloadInit
<1>1. /\ PlaneRests => Init
      /\ ContactRests => ContactInit
      /\ TopicRests => TopicInit
      /\ CacheRests => CacheInit
      /\ PayloadRests => PayloadInit
    BY DEF PlaneRests, ContactRests, TopicRests, CacheRests, PayloadRests
<1> QED BY <1>1 DEF SafetyInit

\* A step of one part is a step of its module, and none of the others.
LEMMA PartsStep ==
    [SafetyNext]_partVars =>
        /\ [Next]_vars /\ [ContactNext]_contactVars /\ [DmNext]_dmVars
        /\ [CursorNext]_cursorVars /\ [PublishNext]_publishVars /\ [TopicNext]_topicVars
        /\ [CacheNext]_cacheVars /\ [PayloadNext]_payloadVars
<1> SUFFICES ASSUME [SafetyNext]_partVars
             PROVE  /\ [Next]_vars /\ [ContactNext]_contactVars /\ [DmNext]_dmVars
                    /\ [CursorNext]_cursorVars /\ [PublishNext]_publishVars /\ [TopicNext]_topicVars
                    /\ [CacheNext]_cacheVars /\ [PayloadNext]_payloadVars
    OBVIOUS
<1>1. CASE UNCHANGED partVars
    BY <1>1 DEF partVars, planeVars, othersOfPlane
<1>2. CASE Next /\ UNCHANGED othersOfPlane
    BY <1>2 DEF othersOfPlane
<1>3. CASE ContactNext /\ UNCHANGED othersOfContact
    BY <1>3 DEF planeVars, othersOfContact
<1>4. CASE DmNext /\ UNCHANGED othersOfDms
    BY <1>4 DEF planeVars, othersOfDms
<1>5. CASE CursorNext /\ UNCHANGED othersOfCursor
    BY <1>5 DEF planeVars, othersOfCursor
<1>6. CASE PublishNext /\ UNCHANGED othersOfPublish
    BY <1>6 DEF planeVars, othersOfPublish
<1>7. CASE TopicNext /\ UNCHANGED othersOfTopic
    BY <1>7 DEF planeVars, othersOfTopic
<1>8. CASE CacheNext /\ UNCHANGED othersOfCache
    BY <1>8 DEF planeVars, othersOfCache
<1>9. CASE PayloadNext /\ UNCHANGED othersOfPayload
    BY <1>9 DEF planeVars, othersOfPayload
<1> QED BY <1>1, <1>2, <1>3, <1>4, <1>5, <1>6, <1>7, <1>8, <1>9 DEF SafetyNext

\* The plane, the contacts, the messages, the inbox cursor, the publishing of
\* collections, the topics and the two caches share no state: whichever of them moves,
\* each behaves as its own module says.
THEOREM PartsAreFree ==
    SafetySpec => /\ Spec /\ ContactSpec /\ DmSpec /\ CursorSpec
                  /\ PublishSpec /\ TopicSpec /\ CacheSpec /\ PayloadSpec
BY PartsStart, PartsStep, PTL
DEF SafetySpec, partVars, Spec, ContactSpec, DmSpec, CursorSpec, PublishSpec, TopicSpec, CacheSpec,
    PayloadSpec

\* Whatever the parts do, the state of each keeps its types.
THEOREM PartsKeepTypes == SafetySpec => []PartsTypeOK
<1>1. /\ TypeOK /\ ContactTypeOK /\ DmTypeOK /\ CursorTypeOK
      /\ PublishTypeOK /\ TopicTypeOK /\ CacheTypeOK /\ PayloadTypeOK
      => PartsTypeOK
    BY DEF PartsTypeOK
<1> QED
    BY <1>1, PartsAreFree, TypeCorrect, ContactTypeCorrect, DmTypeCorrect, CursorTypeCorrect,
       PublishTypeCorrect, TopicTypeCorrect, CacheTypeCorrect, PayloadTypeCorrect, PTL

=============================================================================
